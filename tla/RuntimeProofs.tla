----------------------------- MODULE RuntimeProofs ---------------------------
(***************************************************************************)
(* Proofs about three components that run beside the write path and share  *)
(* no state with each other: the sink manager (which instance work is      *)
(* routed to, and what the background tail of a deletion may evict), the   *)
(* watch manager (which deaths a work item may record) and the sink        *)
(* controller with its probes (when a sink is reported ready).             *)
(*                                                                         *)
(* Each part has an inductive invariant of its own: RuntimeInv, WatchInv,  *)
(* HealthInv. Their theorems are independent.                              *)
(***************************************************************************)
EXTENDS SinkManager, SinkHealth, WatchManager, TLAPS

\* The prover of a leaf that names none; SMT is named where arithmetic is needed.
USE ZenonT(60)

\* The sink manager: instances, tails and states are numbered from 1 on.
Instance == [config : Configs, incarnation : Nat, stage : Stages]
TailState == [inst : Nat, at : {"draining", "checking", "evicting", "forgetting", "done"}]
JobState == [at : {"idle", "routed", "holding", "accepted", "settled", "refused"},
             inst : Nat, state : Nat]

RuntimeTypes ==
    /\ phase \in {"new", "running", "stopping", "stopped"} /\ ctxDone \in BOOLEAN
    /\ pending \in Configs \cup {None} /\ desired \in Configs \cup {None}
    /\ inst \in Seq(Instance) /\ tails \in Seq(TailState) /\ states \in Seq(Nat)
    /\ job \in [Jobs -> JobState]
    /\ incarnation \in Nat /\ timeouts \in Nat /\ state \in Nat

\* Numbers name instances that were built.
RuntimeRefs ==
    /\ live \in {0} \cup Instances
    /\ \A t \in DOMAIN tails : tails[t].inst \in {0} \cup Instances
    /\ \A j \in Jobs : job[j].at # "idle" => job[j].inst \in Instances

\* What a tail that is past its drain, and a job its writer accepted, know of the
\* instance.
DrainSound ==
    /\ timeouts = 0 => \A t \in DOMAIN tails :
          tails[t].at # "draining" /\ tails[t].inst # 0 => inst[tails[t].inst].stage = "done"
    /\ \A j \in Jobs : job[j].at = "accepted" => inst[job[j].inst].stage # "done"

RuntimeInv == RuntimeTypes /\ RuntimeRefs /\ RoutedRuns /\ DrainSound

Following(f) == Len(f) + 1

Altered(f, i, x) == [f EXCEPT ![i] = x]

Restaged(i, s) == [inst EXCEPT ![i].stage = s]

\* A number is given once, and what it names stays.
LEMMA AppendFacts ==
    ASSUME NEW S, NEW f \in Seq(S), NEW x \in S
    PROVE  /\ Append(f, x) \in Seq(S)
           /\ DOMAIN Append(f, x) = DOMAIN f \cup {Following(f)}
           /\ \A i \in DOMAIN f : Append(f, x)[i] = f[i]
           /\ Append(f, x)[Following(f)] = x
  BY SMTT(60) DEF Following

LEMMA FollowingNat == ASSUME NEW S, NEW f \in Seq(S) PROVE Following(f) \in Nat
  BY SMTT(60) DEF Following

LEMMA AlterFacts ==
    ASSUME NEW S, NEW f \in Seq(S), NEW i \in DOMAIN f, NEW x \in S
    PROVE  /\ Altered(f, i, x) \in Seq(S)
           /\ DOMAIN Altered(f, i, x) = DOMAIN f
           /\ Altered(f, i, x)[i] = x
           /\ \A k \in DOMAIN f : k # i => Altered(f, i, x)[k] = f[k]
  BY SMTT(60) DEF Altered

LEMMA ElementFacts ==
    ASSUME NEW S, NEW f \in Seq(S), NEW i \in DOMAIN f
    PROVE  f[i] \in S /\ i \in Nat /\ i # 0
  BY SMTT(60)

\* An instance changes its stage.
LEMMA StageFacts ==
    ASSUME inst \in Seq(Instance), NEW i \in Instances, NEW s \in Stages
    PROVE  /\ Restaged(i, s) \in Seq(Instance) /\ DOMAIN Restaged(i, s) = Instances
           /\ Restaged(i, s)[i].stage = s
           /\ \A k \in Instances : k # i => Restaged(i, s)[k] = inst[k]
  <1> DEFINE x == [inst[i] EXCEPT !.stage = s]
  <1>1. inst[i] \in Instance
    BY ElementFacts DEF Instances
  <1>2. x \in Instance /\ x.stage = s
    BY <1>1 DEF Instance
  <1>3. Restaged(i, s) = Altered(inst, i, x)
    BY DEF Restaged, Altered
  <1> HIDE DEF x
  <1>4. /\ Altered(inst, i, x) \in Seq(Instance) /\ DOMAIN Altered(inst, i, x) = DOMAIN inst
        /\ Altered(inst, i, x)[i] = x
        /\ \A k \in DOMAIN inst : k # i => Altered(inst, i, x)[k] = inst[k]
    BY <1>2, AlterFacts, SMTT(60) DEF Instances
  <1>5. QED
    BY <1>2, <1>3, <1>4 DEF Instances

\* What leaves routing, tails and jobs sound: instances are added, none is lost, and
\* none stops or starts.
StopsNobody ==
    /\ inst' \in Seq(Instance) /\ Instances \subseteq Instances'
    /\ \A i \in Instances : inst'[i].stage = "done" <=> inst[i].stage = "done"

LEMMA RetireFacts ==
    ASSUME inst \in Seq(Instance), NEW i \in Instances
    PROVE  /\ Retire(i) \in Seq(Instance) /\ DOMAIN Retire(i) = Instances
           /\ \A k \in Instances : Retire(i)[k].stage = "done" <=> inst[k].stage = "done"
  <1> DEFINE s == IF inst[i].stage = "done" THEN "done" ELSE "retired"
  <1>1. s \in Stages /\ (s = "done" <=> inst[i].stage = "done")
    BY DEF Stages
  <1>2. Retire(i) = Restaged(i, s)
    BY DEF Retire, Restaged
  <1> HIDE DEF s
  <1>3. QED
    BY <1>1, <1>2, StageFacts, SMTT(60)

\* ensureLocked routes to an instance that runs.
LEMMA EnsureFacts ==
    ASSUME RuntimeInv, NEW config \in Configs, EnsureLocked(config)
    PROVE  /\ StopsNobody
           /\ live' \in {0} \cup Instances'
           /\ live' # 0 /\ ~ctxDone => inst'[live'].stage = "running"
  <1> USE DEF Instances
  <1>1. inst \in Seq(Instance) /\ live \in {0} \cup Instances
    BY DEF RuntimeInv, RuntimeTypes, RuntimeRefs
  <1>2. CASE live # 0 /\ inst[live].config = config
    BY <1>1, <1>2 DEF EnsureLocked, StopsNobody, RuntimeInv, RoutedRuns
  <1>3. CASE ~(live # 0 /\ inst[live].config = config)
    <2> DEFINE kept == IF live = 0 THEN inst ELSE Retire(live)
    <2>1. inst' = Append(kept, NewInstance(config)) /\ live' = Following(inst)
      BY <1>3 DEF EnsureLocked, Following
    <2>2. /\ kept \in Seq(Instance) /\ DOMAIN kept = Instances
          /\ \A k \in Instances : kept[k].stage = "done" <=> inst[k].stage = "done"
      BY <1>1, RetireFacts
    <2>3. NewInstance(config) \in Instance /\ NewInstance(config).stage = "running"
      BY DEF NewInstance, Instance, Stages, RuntimeInv, RuntimeTypes
    <2> HIDE DEF kept
    <2>a. Following(kept) = Following(inst)
      BY <2>2, SMTT(60) DEF Following
    <2>b. \A x \in Instance :
             /\ Append(kept, x) \in Seq(Instance)
             /\ DOMAIN Append(kept, x) = DOMAIN kept \cup {Following(kept)}
             /\ \A i \in DOMAIN kept : Append(kept, x)[i] = kept[i]
             /\ Append(kept, x)[Following(kept)] = x
      BY <2>2, AppendFacts, SMTT(60)
    <2>c. /\ Append(kept, NewInstance(config)) \in Seq(Instance)
          /\ DOMAIN Append(kept, NewInstance(config)) = Instances \cup {Following(inst)}
          /\ \A i \in Instances : Append(kept, NewInstance(config))[i] = kept[i]
          /\ Append(kept, NewInstance(config))[Following(inst)] = NewInstance(config)
      BY <2>2, <2>3, <2>a, <2>b
    <2>4. /\ inst' \in Seq(Instance)
          /\ Instances' = Instances \cup {live'}
          /\ \A i \in Instances : inst'[i] = kept[i]
          /\ inst'[live'] = NewInstance(config)
      BY <2>1, <2>c
    <2>5. QED
      BY <2>2, <2>3, <2>4 DEF StopsNobody
  <1>4. QED
    BY <1>2, <1>3

\* Tails and jobs stay sound when no instance stops.
LEMMA OthersSound ==
    ASSUME RuntimeInv, StopsNobody, UNCHANGED <<tails, job, timeouts>>
    PROVE  /\ DrainSound'
           /\ \A t \in DOMAIN tails' : tails'[t].inst \in {0} \cup Instances'
           /\ \A j \in Jobs : job'[j].at # "idle" => job'[j].inst \in Instances'
  BY DEF RuntimeInv, RuntimeRefs, DrainSound, StopsNobody

LEMMA EnsureStep ==
    ASSUME RuntimeInv, NEW config \in Configs, EnsureLocked(config),
           UNCHANGED <<tails, job, timeouts, ctxDone>>
    PROVE  inst' \in Seq(Instance) /\ RuntimeRefs' /\ RoutedRuns' /\ DrainSound'
  <1>1. /\ StopsNobody
        /\ live' \in {0} \cup Instances'
        /\ live' # 0 /\ ~ctxDone => inst'[live'].stage = "running"
    BY EnsureFacts
  <1>2. QED
    BY <1>1, OthersSound DEF RuntimeRefs, RoutedRuns, StopsNobody

\* Start, Ensure, Delete and what makes the reconciler call them.
ManagerStep ==
    \/ \E config \in Configs \cup {None} : EditCR(config)
    \/ Resync \/ StartManager \/ StartManagerFails \/ Reconcile

LEMMA ManagerKeeps == ASSUME RuntimeInv, ManagerStep PROVE RuntimeInv'
  <1> USE DEF Instances
  <1>1. ASSUME UNCHANGED <<inst, live, tails, job, timeouts, ctxDone>>
        PROVE  RuntimeRefs' /\ RoutedRuns' /\ DrainSound'
    BY <1>1 DEF RuntimeInv, RuntimeRefs, RoutedRuns, DrainSound
  <1>2. ASSUME NEW config \in Configs \cup {None}, EditCR(config) PROVE RuntimeInv'
    BY <1>1, <1>2 DEF EditCR, RuntimeInv, RuntimeTypes, managerVars, pipelineVars
  <1>3. CASE Resync
    BY <1>1, <1>3 DEF Resync, RuntimeInv, RuntimeTypes, managerVars, pipelineVars
  <1>4. CASE StartManager
    <2>1. UNCHANGED <<ctxDone, tails, job, timeouts, states, state, incarnation, desired>>
      BY <1>4 DEF StartManager, pipelineVars, crVars
    <2>2. inst' \in Seq(Instance) /\ RuntimeRefs' /\ RoutedRuns' /\ DrainSound'
      <3>1. CASE pending = None
        BY <1>1, <1>4, <2>1, <3>1 DEF StartManager, RuntimeInv, RuntimeTypes
      <3>2. CASE pending # None
        <4>1. pending \in Configs /\ EnsureLocked(pending)
          BY <1>4, <3>2 DEF StartManager, RuntimeInv, RuntimeTypes
        <4>2. QED
          BY <2>1, <4>1, EnsureStep
      <3>3. QED
        BY <3>1, <3>2
    <2>3. QED
      BY <1>4, <2>1, <2>2 DEF StartManager, RuntimeInv, RuntimeTypes
  <1>5. CASE StartManagerFails
    BY <1>1, <1>5 DEF StartManagerFails, RuntimeInv, RuntimeTypes, pipelineVars, crVars
  <1>6. CASE Ensure
    <2>1. /\ UNCHANGED <<phase, ctxDone, tails, job, timeouts, states, state, incarnation, desired>>
          /\ pending' \in {pending, desired} /\ desired \in Configs
      BY <1>6 DEF Ensure, pipelineVars, RuntimeInv, RuntimeTypes
    <2>2. inst' \in Seq(Instance) /\ RuntimeRefs' /\ RoutedRuns' /\ DrainSound'
      <3>1. CASE phase = "new"
        BY <1>1, <1>6, <2>1, <3>1 DEF Ensure, RuntimeInv, RuntimeTypes
      <3>2. CASE phase # "new"
        BY <1>6, <2>1, <3>2, EnsureStep DEF Ensure
      <3>3. QED
        BY <3>1, <3>2
    <2>3. QED
      BY <2>1, <2>2 DEF RuntimeInv, RuntimeTypes
  <1>7. CASE EnsureFails
    BY <1>1, <1>7 DEF EnsureFails, RuntimeInv, RuntimeTypes, managerVars, pipelineVars, crVars
  <1>8. CASE Delete
    <2> DEFINE x == [inst |-> live, at |-> "draining"]
    <2>1. /\ UNCHANGED <<phase, ctxDone, job, timeouts, states, state, desired>>
          /\ pending' = None /\ incarnation' = incarnation + 1 /\ live' = 0
          /\ inst' = (IF live = 0 THEN inst ELSE Retire(live))
          /\ tails' = Append(tails, x)
      BY <1>8 DEF Delete, pipelineVars
    <2>2. inst \in Seq(Instance) /\ live \in {0} \cup Instances /\ tails \in Seq(TailState)
      BY DEF RuntimeInv, RuntimeTypes, RuntimeRefs
    <2>3. StopsNobody /\ Instances' = Instances
      BY <2>1, <2>2, RetireFacts DEF StopsNobody
    <2>4. x \in TailState /\ x.inst = live /\ x.at = "draining"
      BY <2>2, ElementFacts, SMTT(60) DEF TailState
    <2> HIDE DEF x
    <2>5. ASSUME NEW y \in TailState
          PROVE  /\ Append(tails, y) \in Seq(TailState)
                 /\ DOMAIN Append(tails, y) = DOMAIN tails \cup {Following(tails)}
                 /\ \A t \in DOMAIN tails : Append(tails, y)[t] = tails[t]
                 /\ Append(tails, y)[Following(tails)] = y
      <3>1. tails \in Seq(TailState)
        BY <2>2
      <3>2. QED
        BY <3>1, <2>5, AppendFacts, SMTT(60)
    <2>6. tails' \in Seq(TailState) /\ \A t \in DOMAIN tails' :
             (t \in DOMAIN tails /\ tails'[t] = tails[t]) \/ tails'[t] = x
      BY <2>1, <2>4, <2>5
    <2>7. RuntimeTypes'
      BY <2>1, <2>3, <2>6, SMTT(60) DEF RuntimeInv, RuntimeTypes, StopsNobody
    <2>8. RuntimeRefs' /\ RoutedRuns'
      BY <2>1, <2>2, <2>3, <2>4, <2>6 DEF RuntimeInv, RuntimeRefs, RoutedRuns
    <2>9. DrainSound'
      <3>1. timeouts' = 0 => \A t \in DOMAIN tails' :
               tails'[t].at # "draining" /\ tails'[t].inst # 0 => inst'[tails'[t].inst].stage = "done"
        BY <2>1, <2>3, <2>4, <2>6 DEF RuntimeInv, RuntimeRefs, DrainSound, StopsNobody
      <3>2. \A j \in Jobs : job'[j].at = "accepted" => inst'[job'[j].inst].stage # "done"
        BY <2>1, <2>3 DEF RuntimeInv, RuntimeRefs, DrainSound, StopsNobody
      <3>3. QED
        BY <3>1, <3>2 DEF DrainSound
    <2>10. QED
      BY <2>7, <2>8, <2>9 DEF RuntimeInv
  <1>9. QED
    BY <1>2, <1>3, <1>4, <1>5, <1>6, <1>7, <1>8 DEF ManagerStep, Reconcile

\* An instance is cancelled or stops.
LEMMA InstanceKeeps ==
    ASSUME RuntimeInv, NEW i \in Instances, CancelInstance(i) \/ InstanceDone(i)
    PROVE  RuntimeInv'
  <1> USE DEF Instances
  <1>1. PICK s \in {"cancelled", "done"} : inst' = Restaged(i, s)
    BY DEF CancelInstance, InstanceDone, Restaged
  <1>2. UNCHANGED <<phase, ctxDone, pending, live, tails, job, timeouts, states, state, incarnation, desired>>
    BY DEF CancelInstance, InstanceDone, pipelineVars, crVars
  <1>3. inst \in Seq(Instance) /\ s \in Stages
    BY DEF RuntimeInv, RuntimeTypes, Stages
  <1>4. /\ inst' \in Seq(Instance) /\ Instances' = Instances /\ inst'[i].stage = s
        /\ \A k \in Instances : k # i => inst'[k] = inst[k]
    BY <1>1, <1>3, StageFacts, SMTT(60)
  <1>5. s = "done" => \A j \in Jobs : ~(job[j].at = "accepted" /\ job[j].inst = i)
    <2>1. CASE InstanceDone(i)
      BY <2>1 DEF InstanceDone
    <2>2. CASE CancelInstance(i)
      <3>1. inst' = Restaged(i, "cancelled")
        BY <2>2 DEF CancelInstance, Restaged
      <3>2. Restaged(i, "cancelled")[i].stage = "cancelled"
        BY <1>3, StageFacts DEF Stages
      <3>3. QED
        BY <1>4, <3>1, <3>2
    <2>3. QED
      BY <2>1, <2>2
  <1>6. ~ctxDone => i # live
    BY ElementFacts, <1>3 DEF CancelInstance, InstanceDone, RuntimeInv, RoutedRuns
  <1>7. inst[i].stage = "done" => s = "done"
    <2>1. CASE InstanceDone(i)
      BY <1>4, <2>1, StageFacts, <1>3 DEF InstanceDone, Restaged, Stages
    <2>2. CASE CancelInstance(i)
      BY <2>2 DEF CancelInstance
    <2>3. QED
      BY <2>1, <2>2
  <1>8. RuntimeTypes' /\ RuntimeRefs' /\ RoutedRuns'
    BY <1>2, <1>4, <1>6 DEF RuntimeInv, RuntimeTypes, RuntimeRefs, RoutedRuns
  <1>9. DrainSound'
    BY <1>2, <1>4, <1>5, <1>7 DEF RuntimeInv, RuntimeRefs, DrainSound
  <1>10. QED
    BY <1>8, <1>9 DEF RuntimeInv

\* A tail moves on.
LEMMA TailKeeps ==
    ASSUME RuntimeInv, NEW t \in DOMAIN tails, FinishDelete(t) \/ DrainTimesOut(t)
    PROVE  RuntimeInv'
  <1> DEFINE moved(to) == Altered(tails, t, [tails[t] EXCEPT !.at = to])
  <1>1. tails \in Seq(TailState) /\ tails[t] \in TailState
    BY ElementFacts DEF RuntimeInv, RuntimeTypes
  <1>2. PICK to \in {"checking", "evicting", "forgetting", "done"} : tails' = moved(to)
    BY DEF FinishDelete, Drained, CheckRecreated, RemoveSink, ForgetSink, DrainTimesOut,
       TailMoves, Altered
  <1>3. UNCHANGED <<phase, ctxDone, pending, inst, live, job, states, incarnation, desired>>
    BY DEF FinishDelete, Drained, CheckRecreated, RemoveSink, ForgetSink, DrainTimesOut, TailMoves,
           pipelineVars, crVars
  <1>4. state' \in {0, state} /\ timeouts' \in {timeouts, timeouts + 1}
    BY DEF FinishDelete, Drained, CheckRecreated, RemoveSink, ForgetSink, DrainTimesOut,
       TailMoves, pipelineVars
  <1>5. \A y \in TailState : /\ Altered(tails, t, y) \in Seq(TailState)
                             /\ DOMAIN Altered(tails, t, y) = DOMAIN tails
                             /\ Altered(tails, t, y)[t] = y
                             /\ \A u \in DOMAIN tails : u # t => Altered(tails, t, y)[u] = tails[u]
    BY <1>1, AlterFacts, SMTT(60)
  <1>6. /\ [tails[t] EXCEPT !.at = to] \in TailState
        /\ [tails[t] EXCEPT !.at = to].inst = tails[t].inst
        /\ [tails[t] EXCEPT !.at = to].at = to
    BY <1>1 DEF TailState
  <1>7. /\ tails' \in Seq(TailState) /\ DOMAIN tails' = DOMAIN tails
        /\ tails'[t].inst = tails[t].inst
        /\ \A u \in DOMAIN tails : u # t => tails'[u] = tails[u]
    BY <1>2, <1>5, <1>6
  <1>8. timeouts' = 0 => timeouts = 0 /\
           (tails[t].inst # 0 => inst[tails[t].inst].stage = "done")
    <2>1. CASE Drained(t)
      BY <2>1 DEF Drained
    <2>2. CASE CheckRecreated(t) \/ RemoveSink(t) \/ ForgetSink(t)
      BY <2>2 DEF CheckRecreated, RemoveSink, ForgetSink, TailMoves, RuntimeInv, DrainSound
    <2>3. CASE DrainTimesOut(t)
      BY <2>3, SMTT(60) DEF DrainTimesOut, RuntimeInv, RuntimeTypes
    <2>4. QED
      BY <2>1, <2>2, <2>3 DEF FinishDelete
  <1>9. RuntimeTypes'
    BY <1>3, <1>4, <1>7, SMTT(60) DEF RuntimeInv, RuntimeTypes
  <1>10. RuntimeRefs' /\ RoutedRuns'
    BY <1>3, <1>7 DEF RuntimeInv, RuntimeRefs, RoutedRuns, Instances
  <1>11. DrainSound'
    BY <1>3, <1>7, <1>8 DEF RuntimeInv, DrainSound
  <1>12. QED
    BY <1>9, <1>10, <1>11 DEF RuntimeInv

\* A work item moves on.
LEMMA JobKeeps == ASSUME RuntimeInv, NEW j \in Jobs, Process(j) PROVE RuntimeInv'
  <1>1. job \in [Jobs -> JobState] /\ job[j] \in JobState
    BY DEF RuntimeInv, RuntimeTypes
  <1>2. UNCHANGED <<phase, ctxDone, pending, inst, live, tails, timeouts, incarnation, desired>>
    BY DEF Process, WriterFor, GetState, Enqueue, EnqueueRefused, Settle, managerVars, crVars
  <1>3. \A q \in Jobs : q # j => job'[q] = job[q]
    BY <1>1 DEF Process, WriterFor, GetState, Enqueue, EnqueueRefused, Settle
  <1>4. /\ job' \in [Jobs -> JobState]
        /\ states' \in Seq(Nat) /\ state' \in Nat
        /\ IF job[j].at = "idle" THEN live # 0 /\ job'[j].inst = live ELSE job'[j].inst = job[j].inst
        /\ job'[j].at = "accepted" => job[j].at = "holding" /\ inst[job[j].inst].stage # "done"
    <2>1. CASE WriterFor(j)
      <3>1. live \in Nat
        BY ElementFacts, SMTT(60) DEF RuntimeInv, RuntimeTypes, RuntimeRefs, Instances
      <3>2. QED
        BY <1>1, <2>1, <3>1 DEF WriterFor, JobState, RuntimeInv, RuntimeTypes
    <2>2. CASE GetState(j)
      <3>1. job[j].inst \in Instances /\ inst \in Seq(Instance) /\ states \in Seq(Nat)
        BY <2>2 DEF GetState, RuntimeInv, RuntimeRefs, RuntimeTypes
      <3>2. inst[job[j].inst].incarnation \in Nat
        <4>1. inst[job[j].inst] \in Instance
          BY <3>1, ElementFacts DEF Instances
        <4>2. QED
          BY <4>1 DEF Instance
      <3>3. states' \in Seq(Nat)
        BY <2>2, <3>1, <3>2, AppendFacts DEF GetState
      <3>4. state' \in Nat
        BY <2>2, <3>1, FollowingNat DEF GetState, Following, RuntimeInv, RuntimeTypes
      <3>5. QED
        BY <1>1, <2>2, <3>3, <3>4 DEF GetState, JobState
    <2>3. CASE Enqueue(j) \/ EnqueueRefused(j) \/ Settle(j)
      <3>1. UNCHANGED <<state, states>> /\ states \in Seq(Nat) /\ state \in Nat
        BY <2>3 DEF Enqueue, EnqueueRefused, Settle, RuntimeInv, RuntimeTypes
      <3>2. PICK a \in {"accepted", "settled", "refused"} :
                /\ job' = [job EXCEPT ![j].at = a] /\ job[j].at # "idle"
                /\ a = "accepted" => job[j].at = "holding" /\ inst[job[j].inst].stage # "done"
        BY <2>3 DEF Enqueue, EnqueueRefused, Settle
      <3>3. [job[j] EXCEPT !.at = a] \in JobState
        BY <1>1 DEF JobState
      <3>4. QED
        BY <1>1, <3>1, <3>2, <3>3 DEF JobState
    <2>4. QED
      BY <2>1, <2>2, <2>3 DEF Process
  <1>5. RuntimeTypes'
    BY <1>2, <1>4 DEF RuntimeInv, RuntimeTypes
  <1>6. RuntimeRefs'
    BY <1>2, <1>3, <1>4 DEF RuntimeInv, RuntimeRefs, Instances
  <1>7. DrainSound'
    BY <1>2, <1>3, <1>4 DEF RuntimeInv, DrainSound
  <1>8. QED
    BY <1>2, <1>5, <1>6, <1>7 DEF RuntimeInv, RoutedRuns

\* The coordinator marks the sink; the process is shut down.
LEMMA ShutdownKeeps ==
    ASSUME RuntimeInv, MarkBootReconciled \/ Cancel \/ StopRouting \/ ManagerStopped
    PROVE  RuntimeInv'
  <1>1. /\ UNCHANGED <<pending, inst, tails, job, timeouts, states, state, incarnation, desired>>
        /\ live' \in {0, live} /\ (ctxDone' = ctxDone \/ ctxDone')
        /\ phase' \in {"new", "running", "stopping", "stopped"} /\ ctxDone' \in BOOLEAN
    BY DEF MarkBootReconciled, Cancel, StopRouting, ManagerStopped, managerVars, pipelineVars,
       crVars,
           RuntimeInv, RuntimeTypes
  <1>2. QED
    BY <1>1, SMTT(60) DEF RuntimeInv, RuntimeTypes, RuntimeRefs, RoutedRuns, DrainSound, Instances

LEMMA RuntimeStep == RuntimeInv /\ [Next]_vars => RuntimeInv'
  <1> SUFFICES ASSUME RuntimeInv, [Next]_vars PROVE RuntimeInv'
    OBVIOUS
  <1>1. CASE UNCHANGED vars
    BY <1>1 DEF vars, managerVars, pipelineVars, crVars, RuntimeInv, RuntimeTypes, RuntimeRefs,
                RoutedRuns, DrainSound, Instances
  <1>2. CASE Next
    BY <1>2, ManagerKeeps, InstanceKeeps, TailKeeps, JobKeeps, ShutdownKeeps DEF Next, ManagerStep
  <1>3. QED
    BY <1>1, <1>2

LEMMA RuntimeInit == Init => RuntimeInv
  <1> SUFFICES ASSUME Init PROVE RuntimeInv
    OBVIOUS
  <1>2. RuntimeTypes
    <2>1. NoJob \in JobState
      BY DEF NoJob, JobState
    <2>2. inst \in Seq(Instance) /\ tails \in Seq(TailState) /\ states \in Seq(Nat)
      BY SMTT(60) DEF Init
    <2>3. QED
      BY <2>1, <2>2 DEF Init, RuntimeTypes
  <1>3. RuntimeRefs /\ RoutedRuns /\ DrainSound
    BY SMTT(60) DEF Init, RuntimeRefs, RoutedRuns, DrainSound, NoJob
  <1>4. QED
    BY <1>2, <1>3 DEF RuntimeInv

\* Before the shutdown begins, work is routed only to an instance that was not told
\* to stop, however recycles, failing factories and deletions follow one another
\* (ensureLocked, swapLocked, Delete).
THEOREM RoutedToARunningSink == Spec => []RoutedRuns
  <1>1. RuntimeInv => RoutedRuns
    BY DEF RuntimeInv
  <1>2. QED
    BY <1>1, RuntimeInit, RuntimeStep, PTL DEF Spec

\* While no drain has timed out, a deletion evicts the name's state only after every
\* job that its own instance accepted is settled (Delete, finishDelete, drain).
THEOREM EvictionFollowsDrain == Spec => EvictsAfterOwnDrain
  <1> DEFINE Clean ==
        \A t \in DOMAIN tails : timeouts = 0 /\ RemoveSink(t) =>
            \A j \in Jobs : ~(job[j].at = "accepted" /\ job[j].inst = tails[t].inst)
  <1>1. ASSUME RuntimeInv, NEW t \in DOMAIN tails, timeouts = 0, RemoveSink(t), NEW j \in Jobs,
               job[j].at = "accepted" /\ job[j].inst = tails[t].inst
        PROVE  FALSE
    <2>1. tails[t].inst \in Instances
      BY <1>1 DEF RuntimeInv, RuntimeRefs
    <2>2. tails[t].inst # 0
      BY <1>1, <2>1, ElementFacts DEF RuntimeInv, RuntimeTypes, Instances
    <2>3. QED
      BY <1>1, <2>2 DEF RuntimeInv, DrainSound, RemoveSink, TailMoves
  <1>2. RuntimeInv => Clean
    BY <1>1
  <1>3. RuntimeInv /\ [Next]_vars => [Clean]_vars
    BY <1>2
  <1>4. QED
    BY <1>3, RuntimeInit, RuntimeStep, PTL DEF Spec, EvictsAfterOwnDrain

-----------------------------------------------------------------------------
\* The watch manager: the item in hand, and the states the informers have seen.
Seen == Object \cup {Gone, Unlisted}

LookedUp == [at : {"get"}, of : SUBSET Targets, cut : BOOLEAN, late : BOOLEAN]
Answered == [at : {"policy", "record"}, found : Object \cup {Gone}, cut : BOOLEAN, late : BOOLEAN]

WatchTypes ==
    /\ uids \in Nat /\ obj \in Object \cup {Gone} /\ obj.uid <= uids
    /\ indexer \in [Informers -> Seen] /\ \A i \in Informers : indexer[i].uid <= uids
    /\ known \in [Sinks -> Object \cup {Gone}] /\ \A s \in Sinks : known[s].uid <= uids
    /\ item \in [Sinks -> {NoItem} \cup LookedUp \cup Answered]
    /\ \A s \in Sinks : item[s] \in Answered => item[s].found.uid <= uids
    /\ table \subseteq Targets /\ pool \subseteq Informers /\ registry \subseteq Targets
    /\ loop.at = "install" => loop.desired \subseteq Targets
    /\ loop.at = "settle" => loop \in [at : {"settle"}, removed : SUBSET Targets]
    /\ loop.at = "stopped" => pool = {}

\* A state of the incarnation that lives; interests of which one has an informer that
\* saw this incarnation; a sink that has one, or is to be evicted.
Alive(o) == o # Gone /\ o.uid = obj.uid
Backed(interests) == \E t \in interests : t.informer \in pool /\ indexer[t.informer].uid = obj.uid
Covered(s) == Backed(LookupIdentity(s)) \/ Leaving(s) \/ loop.at = "stopped"

Told(s) == Alive(known[s]) /\ s \notin stray => Covered(s)

CutIsEvicted(s) == item[s] # NoItem /\ item[s].cut => known[s] = Gone

LookupSound(s) ==
    item[s] \in LookedUp =>
      /\ item[s].of # {} /\ \A t \in item[s].of : t.sink = s
      /\ item[s].cut \/ \A t \in item[s].of : t \in table \/ (loop.at = "settle" /\ t \in loop.removed)
      /\ Alive(known[s]) /\ s \notin stray /\ ~item[s].late => Backed(item[s].of) \/ loop.at = "stopped"

AnswerSound(s) ==
    item[s] \in Answered =>
      /\ Alive(item[s].found) /\ ~item[s].cut => Covered(s)
      /\ item[s].found = Gone /\ ~item[s].late /\ s \notin stray => ~Alive(known[s])

SinkSound(s) == Told(s) /\ CutIsEvicted(s) /\ LookupSound(s) /\ AnswerSound(s)

WatchInv == WatchTypes /\ \A s \in Sinks : SinkSound(s)

LEMMA SeenFacts ==
    /\ Gone.uid = 0 /\ Unlisted.uid = 0 /\ Gone # Unlisted
    /\ \A o \in Object : o.uid \in Nat \ {0} /\ o # Gone /\ o # Unlisted
  BY SMTT(60) DEF Gone, Unlisted, Object

LEMMA TargetFacts ==
    \A t \in Targets : t.sink \in Sinks /\ t.informer \in Informers
  BY DEF Targets

LEMMA ItemFacts ==
    /\ NoItem \notin LookedUp /\ NoItem \notin Answered /\ NoItem.at = "none"
    /\ \A x \in LookedUp : x.at = "get" /\ x \notin Answered /\ x.of \subseteq Targets /\ x.cut \in BOOLEAN
    /\ \A x \in Answered : x.at \in {"policy", "record"} /\ x.found \in Object \cup {Gone} /\ x.cut \in BOOLEAN
  BY SMTT(60) DEF NoItem, LookedUp, Answered

\* A step after which every running informer still runs and has seen as much.
LEMMA SeenStays ==
    ASSUME NEW s \in Sinks, SinkSound(s), WatchTypes,
           UNCHANGED <<table, known, item, stray, obj>>,
           UNCHANGED loop \/ (loop.at \notin {"settle", "stopped"} /\ loop'.at \notin {"settle", "stopped"}),
           \A i \in pool : i \in pool' /\ indexer'[i].uid \in {indexer[i].uid, obj.uid}
    PROVE  SinkSound(s)'
  <1>1. ASSUME NEW interests, Backed(interests) PROVE Backed(interests)'
    BY <1>1 DEF Backed
  <1>2. Covered(s) => Covered(s)'
    BY <1>1 DEF Covered, LookupIdentity, Leaving
  <1>3. Told(s)' /\ CutIsEvicted(s)'
    BY <1>2 DEF SinkSound, Told, CutIsEvicted, Alive
  <1>4. LookupSound(s)'
    BY <1>1 DEF SinkSound, LookupSound, Alive
  <1>5. AnswerSound(s)'
    BY <1>2 DEF SinkSound, AnswerSound, Alive
  <1>6. QED
    BY <1>3, <1>4, <1>5 DEF SinkSound

\* The registry, discovery, the plan and the report of the loop, and a delivery.
LEMMA PlanningKeeps ==
    ASSUME WatchInv,
           \/ \E t \in Offered : EditRegistry(t)
           \/ \E v \in Versions : KindAppears(v)
           \/ Plan \/ Report
           \/ \E i \in Informers : FanOut(i)
    PROVE  WatchInv'
  <1>1. /\ UNCHANGED <<table, pool, indexer, known, item, stray, obj, uids>> /\ registry' \subseteq Targets
    BY WatchAssumption DEF EditRegistry, KindAppears, Plan, Report, FanOut, poolVars, workVars, WatchInv, WatchTypes
  <1>2. \/ UNCHANGED loop
        \/ /\ loop.at \notin {"settle", "stopped"} /\ loop'.at \notin {"settle", "stopped"}
           /\ loop'.at = "install" => loop'.desired \subseteq Targets
    BY SMTT(60) DEF EditRegistry, KindAppears, Plan, Report, FanOut, Translate, WatchInv, WatchTypes, NoPass
  <1>3. WatchTypes'
    BY <1>1, <1>2 DEF WatchInv, WatchTypes
  <1>4. QED
    BY <1>1, <1>2, <1>3, SeenStays DEF WatchInv

\* An informer lists or catches up.
LEMMA InformerKeeps == ASSUME WatchInv, NEW i \in Informers, InformerSees(i) PROVE WatchInv'
  <1>1. /\ UNCHANGED <<registry, loop, table, pool, known, item, stray, obj, uids>>
        /\ indexer' = [indexer EXCEPT ![i] = obj]
    BY DEF InformerSees, workVars
  <1>2. \A j \in Informers : indexer'[j] \in {indexer[j], obj}
    BY <1>1 DEF WatchInv, WatchTypes
  <1>3. indexer' \in [Informers -> Seen]
    BY <1>1 DEF WatchInv, WatchTypes, Seen
  <1>4. WatchTypes'
    BY <1>1, <1>3 DEF WatchInv, WatchTypes
  <1>5. \A j \in pool : j \in pool' /\ indexer'[j].uid \in {indexer[j].uid, obj.uid}
    BY <1>1, <1>2 DEF WatchInv, WatchTypes
  <1>6. QED
    BY <1>1, <1>4, <1>5, SeenStays DEF WatchInv

\* The object changes: a state recorded or found before is of the same incarnation or
\* of none that lives.
LEMMA ObjectKeeps == ASSUME WatchInv, ChangeObject PROVE WatchInv'
  <1>1. UNCHANGED <<registry, loop, table, pool, indexer, known, item, stray>>
    BY DEF ChangeObject, poolVars, workVars
  <1>2. /\ uids' \in Nat /\ uids <= uids' /\ obj' \in Object \cup {Gone} /\ obj'.uid <= uids'
        /\ obj'.uid \in {0, obj.uid, uids + 1}
    <2>1. CASE obj = Gone /\ uids' = uids + 1 /\ \E l \in Labels : obj' = [uid |-> uids + 1, label |-> l]
      BY <2>1, SMTT(60) DEF WatchInv, WatchTypes, Object
    <2>2. CASE obj # Gone /\ UNCHANGED uids /\ \E l \in Labels \ {obj.label} : obj' = [obj EXCEPT !.label = l]
      BY <2>2, SMTT(60) DEF WatchInv, WatchTypes, Object
    <2>3. CASE obj' = Gone /\ UNCHANGED uids
      BY <2>3, SeenFacts, SMTT(60) DEF WatchInv, WatchTypes
    <2>4. QED
      BY <2>1, <2>2, <2>3 DEF ChangeObject
  <1>3. ASSUME NEW o \in Object \cup {Gone}, o.uid <= uids, Alive(o)' PROVE Alive(o) /\ obj'.uid = obj.uid
    <2>1. o # Gone /\ o.uid = obj'.uid /\ o.uid \in Nat \ {0}
      BY <1>3, SeenFacts DEF Alive
    <2>2. o.uid # uids + 1
      BY <1>3, <2>1, SMTT(60) DEF WatchInv, WatchTypes
    <2>3. QED
      BY <1>2, <2>1, <2>2 DEF Alive
  <1>4. \A s \in Sinks : known[s] \in Object \cup {Gone} /\ known[s].uid <= uids
    BY DEF WatchInv, WatchTypes
  <1>5. WatchTypes'
    <2>1. \A n \in Nat : n <= uids => n <= uids'
      BY <1>2, SMTT(60) DEF WatchInv, WatchTypes
    <2>2. \A o \in Object \cup {Gone} : o.uid \in Nat
      BY SeenFacts, SMTT(60)
    <2>3. \A s \in Sinks : item[s] \in Answered => item[s].found \in Object \cup {Gone}
      BY ItemFacts
    <2>4. \A o \in Seen : o.uid \in Nat
      BY SeenFacts, <2>2, SMTT(60) DEF Seen
    <2>5. \A i \in Informers : indexer[i].uid <= uids'
      BY <2>1, <2>4 DEF WatchInv, WatchTypes
    <2>6. QED
      BY <1>1, <1>2, <1>4, <2>1, <2>2, <2>3, <2>5 DEF WatchInv, WatchTypes
  <1>6. ASSUME NEW s \in Sinks PROVE SinkSound(s)'
    <2>1. SinkSound(s)
      BY DEF WatchInv
    <2>2. ASSUME obj'.uid = obj.uid, NEW interests, Backed(interests) PROVE Backed(interests)'
      BY <1>1, <2>2 DEF Backed
    <2>3. obj'.uid = obj.uid /\ Covered(s) => Covered(s)'
      BY <1>1, <2>2 DEF Covered, LookupIdentity, Leaving
    <2>4. Told(s)' /\ CutIsEvicted(s)'
      BY <1>1, <1>3, <1>4, <2>1, <2>3 DEF SinkSound, Told, CutIsEvicted
    <2>5. LookupSound(s)'
      BY <1>1, <1>3, <1>4, <2>1, <2>2 DEF SinkSound, LookupSound
    <2>6. AnswerSound(s)'
      <3>1. item[s] \in Answered => item[s].found \in Object \cup {Gone} /\ item[s].found.uid <= uids
        BY ItemFacts DEF WatchInv, WatchTypes
      <3>2. QED
        BY <1>1, <1>3, <1>4, <2>1, <2>3, <3>1 DEF SinkSound, AnswerSound
    <2>7. QED
      BY <2>4, <2>5, <2>6 DEF SinkSound
  <1>7. QED
    BY <1>5, <1>6 DEF WatchInv
\* The pass installs: an interest that goes is one to be evicted.
LEMMA InstallKeeps == ASSUME WatchInv, Install PROVE WatchInv'
  <1>1. /\ UNCHANGED <<registry, pool, indexer, known, item, stray, obj, uids>>
        /\ loop.at = "install" /\ table' = loop.desired
        /\ loop' = [at |-> "settle", removed |-> table \ loop.desired]
    BY DEF Install, poolVars
  <1>2. WatchTypes'
    BY <1>1 DEF WatchInv, WatchTypes
  <1>3. ASSUME NEW s \in Sinks PROVE SinkSound(s)'
    <2>1. SinkSound(s)
      BY DEF WatchInv
    <2>2. Covered(s) => Covered(s)'
      BY <1>1 DEF Covered, Backed, LookupIdentity, Leaving
    <2>3. Told(s)' /\ CutIsEvicted(s)'
      BY <1>1, <2>1, <2>2 DEF SinkSound, Told, CutIsEvicted, Alive
    <2>4. LookupSound(s)'
      BY <1>1, <2>1 DEF SinkSound, LookupSound, Alive, Backed
    <2>5. AnswerSound(s)'
      BY <1>1, <2>1, <2>2 DEF SinkSound, AnswerSound, Alive
    <2>6. QED
      BY <2>3, <2>4, <2>5 DEF SinkSound
  <1>4. QED
    BY <1>2, <1>3 DEF WatchInv

\* An eviction, which an item in hand of the sink does not notice.
LEMMA EvictionKeeps == ASSUME WatchInv, NEW t \in Targets, SettleRemoved(t) PROVE WatchInv'
  <1>1. /\ UNCHANGED <<registry, table, pool, indexer, obj, uids>>
        /\ loop.at = "settle" /\ t \in loop.removed
        /\ known' = [known EXCEPT ![t.sink] = Gone] /\ loop' = [loop EXCEPT !.removed = @ \ {t}]
        /\ item' = IF item[t.sink] = NoItem THEN item ELSE [item EXCEPT ![t.sink].cut = TRUE]
        /\ stray' = stray \ {t.sink} /\ t.sink \in Sinks
    BY TargetFacts DEF SettleRemoved, poolVars
  <1>2. /\ loop' \in [at : {"settle"}, removed : SUBSET Targets]
        /\ loop'.at = "settle" /\ loop'.removed = loop.removed \ {t}
    BY <1>1 DEF WatchInv, WatchTypes
  <1>3. /\ known' \in [Sinks -> Object \cup {Gone}] /\ known'[t.sink] = Gone
        /\ \A s \in Sinks : s # t.sink => known'[s] = known[s]
    BY <1>1 DEF WatchInv, WatchTypes
  <1>4. ASSUME NEW x \in LookedUp PROVE [x EXCEPT !.cut = TRUE] \in LookedUp
    BY DEF LookedUp
  <1>5. ASSUME NEW x \in Answered
        PROVE  [x EXCEPT !.cut = TRUE] \in Answered /\ [x EXCEPT !.cut = TRUE].found = x.found
               /\ [x EXCEPT !.cut = TRUE].late = x.late /\ [x EXCEPT !.cut = TRUE].cut
    BY DEF Answered
  <1>6. ASSUME NEW x \in LookedUp
        PROVE  [x EXCEPT !.cut = TRUE].of = x.of /\ [x EXCEPT !.cut = TRUE].cut
    BY DEF LookedUp
  <1>7. /\ \A s \in Sinks : s # t.sink => item'[s] = item[s]
        /\ item'[t.sink] = IF item[t.sink] = NoItem THEN NoItem ELSE [item[t.sink] EXCEPT !.cut = TRUE]
        /\ DOMAIN item' = Sinks
    BY <1>1 DEF WatchInv, WatchTypes
  <1>8. \/ item[t.sink] = NoItem /\ item'[t.sink] = NoItem
        \/ item[t.sink] \in LookedUp /\ item'[t.sink] = [item[t.sink] EXCEPT !.cut = TRUE] /\ item'[t.sink] \in LookedUp
        \/ item[t.sink] \in Answered /\ item'[t.sink] = [item[t.sink] EXCEPT !.cut = TRUE] /\ item'[t.sink] \in Answered
    <2>1. item[t.sink] \in {NoItem} \cup LookedUp \cup Answered
      BY <1>1 DEF WatchInv, WatchTypes
    <2>2. CASE item[t.sink] = NoItem
      BY <1>7, <2>2
    <2>3. CASE item[t.sink] \in LookedUp
      BY <1>4, <1>7, <2>3, ItemFacts
    <2>4. CASE item[t.sink] \in Answered
      <3>1. item'[t.sink] = [item[t.sink] EXCEPT !.cut = TRUE]
        BY <1>7, <2>4, ItemFacts
      <3>2. [item[t.sink] EXCEPT !.cut = TRUE] \in Answered
        BY <2>4 DEF Answered
      <3>3. QED
        BY <2>4, <3>1, <3>2
    <2>5. QED
      BY <2>1, <2>2, <2>3, <2>4
  <1>9. item' \in [Sinks -> {NoItem} \cup LookedUp \cup Answered]
    <2>1. \A s \in Sinks : item'[s] \in {NoItem} \cup LookedUp \cup Answered
      BY <1>7, <1>8 DEF WatchInv, WatchTypes
    <2>2. item' = [s \in Sinks |-> item'[s]]
      BY <1>1 DEF WatchInv, WatchTypes
    <2>3. QED
      BY <2>1, <2>2
  <1>10. WatchTypes'
    <2>1. \A s \in Sinks : known'[s].uid <= uids
      BY <1>3, SeenFacts, SMTT(60) DEF WatchInv, WatchTypes
    <2>2. ASSUME NEW s \in Sinks, item'[s] \in Answered PROVE item'[s].found.uid <= uids
      <3>1. s # t.sink => item'[s] = item[s]
        BY <1>7
      <3>2. s = t.sink => item[s] \in Answered /\ item'[s].found = item[s].found
        <4> SUFFICES ASSUME s = t.sink PROVE item[s] \in Answered /\ item'[s].found = item[s].found
          OBVIOUS
        <4>1. item[s] \in Answered /\ item'[s] = [item[s] EXCEPT !.cut = TRUE]
          BY <1>8, <2>2, ItemFacts
        <4>2. [item[s] EXCEPT !.cut = TRUE].found = item[s].found
          BY <4>1 DEF Answered
        <4>3. QED
          BY <4>1, <4>2
      <3>3. QED
        BY <2>2, <3>1, <3>2 DEF WatchInv, WatchTypes
    <2>3. QED
      BY <1>1, <1>2, <1>3, <1>9, <2>1, <2>2 DEF WatchInv, WatchTypes
  <1>11. ASSUME NEW s \in Sinks, s # t.sink PROVE SinkSound(s)'
    <2>1. SinkSound(s) /\ known'[s] = known[s] /\ item'[s] = item[s] /\ (s \in stray' <=> s \in stray)
      BY <1>1, <1>3, <1>7, <1>11 DEF WatchInv
    <2>2. Covered(s) => Covered(s)'
      BY <1>1, <1>2, <1>11 DEF Covered, Backed, LookupIdentity, Leaving
    <2>3. Told(s)' /\ CutIsEvicted(s)'
      BY <1>1, <2>1, <2>2 DEF SinkSound, Told, CutIsEvicted, Alive
    <2>4. LookupSound(s)'
      BY <1>1, <1>2, <1>11, <2>1 DEF SinkSound, LookupSound, Alive, Backed
    <2>5. AnswerSound(s)'
      BY <1>1, <2>1, <2>2 DEF SinkSound, AnswerSound, Alive
    <2>6. QED
      BY <2>3, <2>4, <2>5 DEF SinkSound
  <1>12. SinkSound(t.sink)'
    <2>1. Told(t.sink)' /\ CutIsEvicted(t.sink)'
      BY <1>3 DEF Told, CutIsEvicted, Alive
    <2>2. LookupSound(t.sink)'
      <3> SUFFICES ASSUME item'[t.sink] \in LookedUp PROVE LookupSound(t.sink)'
        BY DEF LookupSound
      <3>1. item[t.sink] \in LookedUp /\ item'[t.sink] = [item[t.sink] EXCEPT !.cut = TRUE]
        BY <1>8, ItemFacts
      <3>2. item'[t.sink].of = item[t.sink].of /\ item'[t.sink].cut
        BY <3>1, <1>6
      <3>3. ~Alive(known[t.sink])'
        BY <1>3 DEF Alive
      <3>4. QED
        BY <1>1, <3>1, <3>2, <3>3 DEF WatchInv, SinkSound, LookupSound
    <2>3. AnswerSound(t.sink)'
      <3> SUFFICES ASSUME item'[t.sink] \in Answered PROVE AnswerSound(t.sink)'
        BY DEF AnswerSound
      <3>1. item[t.sink] \in Answered /\ item'[t.sink] = [item[t.sink] EXCEPT !.cut = TRUE]
        BY <1>8, ItemFacts
      <3>2. item'[t.sink].cut /\ ~Alive(known[t.sink])'
        BY <3>1, <1>3, <1>5 DEF Alive
      <3>3. QED
        BY <3>2 DEF AnswerSound
    <2>4. QED
      BY <2>1, <2>2, <2>3 DEF SinkSound
  <1>13. QED
    BY <1>10, <1>11, <1>12 DEF WatchInv

\* Informers stop, but none an interest in the table names.
LEMMA StopKeeps == ASSUME WatchInv, StopInformers PROVE WatchInv'
  <1>1. /\ UNCHANGED <<registry, table, known, item, stray, obj, uids>>
        /\ loop.at = "settle" /\ loop.removed = {} /\ loop' = [at |-> "start"] /\ pool' = pool \ Unwanted
        /\ indexer' = [i \in Informers |-> IF i \in pool' THEN indexer[i] ELSE Unlisted]
    BY DEF StopInformers, workVars
  <1>2. WatchTypes'
    <2>1. indexer' \in [Informers -> Seen] /\ pool' \subseteq Informers
      BY <1>1 DEF WatchInv, WatchTypes, Seen
    <2>2. loop'.at = "start"
      BY <1>1
    <2>3. ASSUME NEW i \in Informers PROVE indexer'[i].uid <= uids
      <3>1. indexer[i].uid <= uids /\ 0 <= uids
        BY SMTT(60) DEF WatchInv, WatchTypes
      <3>2. QED
        BY <1>1, <3>1, SeenFacts
    <2>4. QED
      BY <1>1, <2>1, <2>2, <2>3 DEF WatchInv, WatchTypes
  <1>3. ASSUME NEW interests \in SUBSET table, Backed(interests) PROVE Backed(interests)'
    <2>1. PICK t \in interests : t.informer \in pool /\ indexer[t.informer].uid = obj.uid
      BY <1>3 DEF Backed
    <2>2. t.informer \in InformersOf(table) /\ t.informer \in Informers
      BY <1>3, TargetFacts DEF InformersOf, WatchInv, WatchTypes
    <2>3. t.informer \in pool' /\ indexer'[t.informer] = indexer[t.informer]
      BY <1>1, <2>1, <2>2 DEF Unwanted
    <2>4. QED
      BY <1>1, <2>1, <2>3 DEF Backed
  <1>4. ASSUME NEW s \in Sinks PROVE SinkSound(s)'
    <2>1. SinkSound(s)
      BY DEF WatchInv
    <2>2. Covered(s) => Covered(s)'
      <3>1. LookupIdentity(s) \in SUBSET table /\ LookupIdentity(s)' = LookupIdentity(s)
        BY <1>1 DEF LookupIdentity
      <3>2. Covered(s) => Backed(LookupIdentity(s))
        BY <1>1 DEF Covered, Leaving
      <3>3. QED
        BY <1>3, <3>1, <3>2 DEF Covered
    <2>3. Told(s)' /\ CutIsEvicted(s)'
      BY <1>1, <2>1, <2>2 DEF SinkSound, Told, CutIsEvicted, Alive
    <2>4. LookupSound(s)'
      <3> SUFFICES ASSUME item[s] \in LookedUp PROVE LookupSound(s)'
        BY <1>1 DEF LookupSound
      <3>1. ~item[s].cut => item[s].of \in SUBSET table
        BY <1>1, <2>1 DEF SinkSound, LookupSound
      <3>2. Alive(known[s]) => ~item[s].cut
        BY <2>1, ItemFacts DEF SinkSound, CutIsEvicted, Alive
      <3>3. Alive(known[s]) /\ Backed(item[s].of) => Backed(item[s].of)'
        BY <1>1, <1>3, <3>1, <3>2
      <3>4. loop'.at = "start" /\ loop.at # "stopped"
        BY <1>1
      <3>5. QED
        BY <1>1, <2>1, <3>1, <3>3, <3>4 DEF SinkSound, LookupSound, Alive
    <2>5. AnswerSound(s)'
      BY <1>1, <2>1, <2>2 DEF SinkSound, AnswerSound, Alive
    <2>6. QED
      BY <2>3, <2>4, <2>5 DEF SinkSound
  <1>5. QED
    BY <1>2, <1>4 DEF WatchInv

\* Informers start; all of them stop with the process.
LEMMA PoolKeeps == ASSUME WatchInv, StartInformers \/ StopAll PROVE WatchInv'
  <1>1. UNCHANGED <<registry, table, known, item, stray, obj, uids>>
    BY DEF StartInformers, StopAll, workVars
  <1>2. CASE StartInformers
    <2>1. loop.at = "start" /\ loop' = [at |-> "report"] /\ UNCHANGED indexer
      BY <1>2 DEF StartInformers
    <2>2. pool \subseteq pool' /\ pool' \subseteq pool \cup InformersOf(table)
      BY <1>2 DEF StartInformers, Missing
    <2>3. InformersOf(table) \subseteq Informers
      BY TargetFacts DEF InformersOf, WatchInv, WatchTypes
    <2>4. WatchTypes'
      BY <1>1, <2>1, <2>2, <2>3 DEF WatchInv, WatchTypes
    <2>5. loop.at \notin {"settle", "stopped"} /\ loop'.at \notin {"settle", "stopped"}
      BY <2>1
    <2>6. QED
      BY <1>1, <2>1, <2>2, <2>4, <2>5, SeenStays DEF WatchInv
  <1>3. CASE StopAll
    <2>1. loop = NoPass /\ loop' = [at |-> "stopped"] /\ pool' = {} /\ indexer' = [i \in Informers |-> Unlisted]
      BY <1>3 DEF StopAll
    <2>2. WatchTypes'
      BY <1>1, <2>1, SeenFacts, SMTT(60) DEF WatchInv, WatchTypes, Seen
    <2>3. loop'.at = "stopped" /\ loop.at # "settle"
      BY <2>1 DEF NoPass
    <2>4. ASSUME NEW s \in Sinks PROVE SinkSound(s)'
      BY <1>1, <2>3 DEF WatchInv, SinkSound, Told, CutIsEvicted, LookupSound, AnswerSound, Covered, Alive
    <2>5. QED
      BY <2>2, <2>4 DEF WatchInv
  <1>4. QED
    BY <1>2, <1>3

\* What a worker does with one item leaves the other sinks alone.
LEMMA OthersStay ==
    ASSUME NEW q \in Sinks, SinkSound(q), UNCHANGED <<loop, table, pool, indexer, obj>>,
           known'[q] = known[q], item'[q] = item[q], q \in stray' <=> q \in stray
    PROVE  SinkSound(q)'
  <1>1. Covered(q)' <=> Covered(q)
    BY DEF Covered, Backed, LookupIdentity, Leaving
  <1>2. Told(q)' /\ CutIsEvicted(q)'
    BY <1>1 DEF SinkSound, Told, CutIsEvicted, Alive
  <1>3. LookupSound(q)'
    BY DEF SinkSound, LookupSound, Alive, Backed
  <1>4. AnswerSound(q)'
    BY <1>1 DEF SinkSound, AnswerSound, Alive
  <1>5. QED
    BY <1>2, <1>3, <1>4 DEF SinkSound

\* An item is taken up, answered, or put back, and nothing is recorded yet.
LEMMA InHandKeeps ==
    ASSUME WatchInv, NEW s \in Sinks, NEW x \in {NoItem} \cup LookedUp \cup Answered,
           item' = [item EXCEPT ![s] = x],
           UNCHANGED <<registry, loop, table, pool, indexer, known, stray, obj, uids>>,
           x \in Answered => x.found.uid <= uids,
           (CutIsEvicted(s) /\ LookupSound(s) /\ AnswerSound(s))'
    PROVE  WatchInv'
  <1>1. /\ item' \in [Sinks -> {NoItem} \cup LookedUp \cup Answered] /\ item'[s] = x
        /\ \A q \in Sinks : q # s => item'[q] = item[q]
    BY DEF WatchInv, WatchTypes
  <1>2. WatchTypes'
    BY <1>1 DEF WatchInv, WatchTypes
  <1>3. Told(s)'
    BY DEF WatchInv, SinkSound, Told, Covered, Backed, LookupIdentity, Leaving, Alive
  <1>4. \A q \in Sinks : q # s => SinkSound(q)'
    BY <1>1, OthersStay DEF WatchInv
  <1>5. QED
    BY <1>2, <1>3, <1>4 DEF WatchInv, SinkSound

LEMMA PutBackKeeps ==
    ASSUME WatchInv, NEW s \in Sinks, item' = [item EXCEPT ![s] = NoItem],
           UNCHANGED <<registry, loop, table, pool, indexer, known, stray, obj, uids>>
    PROVE  WatchInv'
  <1>1. item'[s] = NoItem
    BY DEF WatchInv, WatchTypes
  <1>2. (CutIsEvicted(s) /\ LookupSound(s) /\ AnswerSound(s))'
    BY <1>1, ItemFacts DEF CutIsEvicted, LookupSound, AnswerSound
  <1>3. QED
    BY <1>2, ItemFacts, InHandKeeps

\* The interests are read: unless one was just deregistered, the state a sink was told
\* is backed by what was read.
LEMMA LookUpKeeps == ASSUME WatchInv, NEW s \in Sinks, LookUp(s) PROVE WatchInv'
  <1>1. UNCHANGED <<registry, loop, table, pool, indexer, known, stray, obj, uids>>
    BY DEF LookUp, beyond, poolVars
  <1>2. CASE LookupIdentity(s) = {}
    <2>1. UNCHANGED item
      BY <1>2 DEF LookUp
    <2>2. \A q \in Sinks : SinkSound(q)'
      BY <1>1, <2>1, OthersStay DEF WatchInv
    <2>3. QED
      BY <1>1, <2>1, <2>2 DEF WatchInv, WatchTypes
  <1>3. CASE LookupIdentity(s) # {}
    <2> DEFINE x == [at |-> "get", of |-> LookupIdentity(s), cut |-> FALSE, late |-> Leaving(s)]
    <2>1. item' = [item EXCEPT ![s] = x]
      BY <1>3 DEF LookUp
    <2>2. x.of = LookupIdentity(s) /\ ~x.cut /\ x.late = Leaving(s)
      OBVIOUS
    <2>3. x \in LookedUp
      BY DEF LookedUp, LookupIdentity, Leaving, WatchInv, WatchTypes
    <2> HIDE DEF x
    <2>4. item'[s] = x
      BY <2>1 DEF WatchInv, WatchTypes
    <2>5. LookupSound(s)'
      <3>1. Alive(known[s]) /\ s \notin stray /\ ~Leaving(s) => Backed(LookupIdentity(s)) \/ loop.at = "stopped"
        BY DEF WatchInv, SinkSound, Told, Covered
      <3>2. \A t \in LookupIdentity(s) : t.sink = s /\ t \in table
        BY DEF LookupIdentity
      <3>3. Backed(item[s].of)' <=> Backed(LookupIdentity(s))
        BY <1>1, <2>2, <2>4 DEF Backed
      <3>4. QED
        BY <1>1, <1>3, <2>2, <2>4, <3>1, <3>2, <3>3 DEF LookupSound, Alive, Backed
    <2>6. CutIsEvicted(s)' /\ AnswerSound(s)'
      BY <2>2, <2>3, <2>4, ItemFacts DEF CutIsEvicted, AnswerSound
    <2>7. QED
      BY <1>1, <2>1, <2>3, <2>5, <2>6, ItemFacts, InHandKeeps
  <1>4. QED
    BY <1>2, <1>3

LEMMA HeldFacts ==
    ASSUME NEW s \in Sinks, NEW o \in Held(s)
    PROVE  \E t \in item[s].of : t.informer \in pool /\ o = indexer[t.informer] /\ o.uid # 0
  BY DEF Held, InformersOf

\* No running informer of the interests has the object.
LEMMA NothingHeld ==
    ASSUME NEW s \in Sinks, Held(s) = {}, NEW i \in Informers, i \in InformersOf(item[s].of), i \in pool
    PROVE  indexer[i].uid = 0
  <1> DEFINE has(n) == {j \in InformersOf(item[s].of) \cap pool : j.ns = n /\ indexer[j].uid # 0}
  <1>1. Held(s) = IF has("own") # {} THEN {indexer[j] : j \in has("own")} ELSE {indexer[j] : j \in has("all")}
    BY DEF Held
  <1>2. has("own") = {} /\ has("all") = {}
    <2> HIDE DEF has
    <2> QED
      BY <1>1
  <1>3. i.ns \in {"own", "all"}
    BY WatchAssumption DEF Informers
  <1>4. QED
    BY <1>2, <1>3

\* The object is found: its informer serves the sink, or the sink is to be evicted.
LEMMA FoundKeeps ==
    ASSUME WatchInv, NEW s \in Sinks, Get(s), NEW o \in Held(s),
           item' = [item EXCEPT ![s] = [at |-> "policy", found |-> o, cut |-> @.cut, late |-> FALSE]]
    PROVE  WatchInv'
  <1> DEFINE x == [at |-> "policy", found |-> o, cut |-> item[s].cut, late |-> FALSE]
  <1>1. UNCHANGED <<registry, loop, table, pool, indexer, known, stray, obj, uids>> /\ item[s] \in LookedUp
    BY ItemFacts DEF Get, beyond, poolVars, WatchInv, WatchTypes
  <1>2. PICK t \in item[s].of : t.informer \in pool /\ o = indexer[t.informer] /\ o.uid # 0
    BY HeldFacts
  <1>3. o \in Object
    BY <1>1, <1>2, SeenFacts, ItemFacts, TargetFacts DEF WatchInv, WatchTypes, Seen
  <1>4. o.uid <= uids
    BY <1>1, <1>2, ItemFacts, TargetFacts DEF WatchInv, WatchTypes
  <1>5. item' = [item EXCEPT ![s] = x] /\ x.found = o /\ x.cut = item[s].cut
    BY DEF WatchInv, WatchTypes
  <1>6. x \in Answered
    BY <1>1, <1>3, ItemFacts DEF Answered
  <1> HIDE DEF x
  <1>7. item'[s] = x
    BY <1>5 DEF WatchInv, WatchTypes
  <1>8. AnswerSound(s)'
    <2>1. Alive(o) /\ ~item[s].cut => Covered(s)
      <3> SUFFICES ASSUME Alive(o), ~item[s].cut PROVE Covered(s)
        OBVIOUS
      <3>1. t.sink = s /\ (t \in table \/ (loop.at = "settle" /\ t \in loop.removed))
        BY <1>1, <1>2 DEF WatchInv, SinkSound, LookupSound
      <3>2. QED
        BY <1>2, <3>1 DEF Covered, Backed, LookupIdentity, Leaving, Alive
    <2>2. Covered(s) => Covered(s)'
      BY <1>1 DEF Covered, Backed, LookupIdentity, Leaving
    <2>3. QED
      BY <1>1, <1>3, <1>5, <1>7, <2>1, <2>2, SeenFacts DEF AnswerSound, Alive
  <1>9. CutIsEvicted(s)' /\ LookupSound(s)'
    BY <1>1, <1>5, <1>6, <1>7, ItemFacts DEF WatchInv, SinkSound, CutIsEvicted, LookupSound
  <1>10. QED
    BY <1>1, <1>4, <1>5, <1>6, <1>8, <1>9, InHandKeeps

\* The object is not found: the incarnation the sink was told of is gone.
LEMMA AbsentKeeps ==
    ASSUME WatchInv, NEW s \in Sinks, Get(s), Held(s) = {}, InformersOf(item[s].of) \subseteq pool,
           item' = [item EXCEPT ![s] = [at |-> "record", found |-> Gone, cut |-> @.cut, late |-> @.late]]
    PROVE  WatchInv'
  <1> DEFINE x == [at |-> "record", found |-> Gone, cut |-> item[s].cut, late |-> item[s].late]
  <1>1. UNCHANGED <<registry, loop, table, pool, indexer, known, stray, obj, uids>> /\ item[s] \in LookedUp
    BY ItemFacts DEF Get, beyond, poolVars, WatchInv, WatchTypes
  <1>2. item' = [item EXCEPT ![s] = x] /\ x.found = Gone /\ x.cut = item[s].cut /\ x.late = item[s].late
    BY DEF WatchInv, WatchTypes
  <1>3. x \in Answered
    BY <1>1 DEF Answered, LookedUp
  <1> HIDE DEF x
  <1>4. item'[s] = x
    BY <1>2 DEF WatchInv, WatchTypes
  <1>5. Alive(known[s]) /\ s \notin stray /\ ~item[s].late => FALSE
    <2> SUFFICES ASSUME Alive(known[s]), s \notin stray, ~item[s].late PROVE FALSE
      OBVIOUS
    <2>1. item[s].of # {} /\ item[s].of \subseteq Targets /\ (Backed(item[s].of) \/ loop.at = "stopped")
      BY <1>1, ItemFacts DEF WatchInv, SinkSound, LookupSound
    <2>2. loop.at # "stopped"
      <3>1. InformersOf(item[s].of) # {}
        BY <2>1 DEF InformersOf
      <3>2. QED
        BY <3>1 DEF WatchInv, WatchTypes
    <2>3. PICK t \in item[s].of : t.informer \in pool /\ indexer[t.informer].uid = obj.uid
      BY <2>1, <2>2 DEF Backed
    <2>4. obj.uid # 0
      BY SeenFacts DEF Alive, WatchInv, WatchTypes
    <2>5. indexer[t.informer].uid = 0
      BY <2>1, <2>3, TargetFacts, NothingHeld DEF InformersOf
    <2>6. QED
      BY <2>3, <2>4, <2>5
  <1>6. AnswerSound(s)'
    BY <1>1, <1>2, <1>4, <1>5 DEF AnswerSound, Alive
  <1>7. CutIsEvicted(s)' /\ LookupSound(s)'
    BY <1>1, <1>2, <1>3, <1>4, ItemFacts DEF WatchInv, SinkSound, CutIsEvicted, LookupSound
  <1>8. x.found.uid <= uids
    BY <1>2, SeenFacts, SMTT(60) DEF WatchInv, WatchTypes
  <1>9. QED
    BY <1>1, <1>2, <1>3, <1>6, <1>7, <1>8, InHandKeeps

LEMMA GetKeeps == ASSUME WatchInv, NEW s \in Sinks, Get(s) PROVE WatchInv'
  <1>1. UNCHANGED <<registry, loop, table, pool, indexer, known, stray, obj, uids>>
    BY DEF Get, beyond, poolVars
  <1>2. QED
    BY <1>1, FoundKeeps, AbsentKeeps, PutBackKeeps DEF Get, Retry

LEMMA PolicyKeeps == ASSUME WatchInv, NEW s \in Sinks, ResolvePolicy(s) PROVE WatchInv'
  <1> DEFINE x == [item[s] EXCEPT !.at = "record"]
  <1>1. UNCHANGED <<registry, loop, table, pool, indexer, known, stray, obj, uids>> /\ item[s] \in Answered
    BY ItemFacts DEF ResolvePolicy, beyond, poolVars, WatchInv, WatchTypes
  <1>2. CASE Retry(s)
    BY <1>1, <1>2, PutBackKeeps DEF Retry
  <1>3. CASE item' = [item EXCEPT ![s].at = "record"]
    <2>1. item' = [item EXCEPT ![s] = x]
      BY <1>3
    <2>2. x \in Answered
      BY <1>1 DEF Answered
    <2>3. x.found = item[s].found /\ x.cut = item[s].cut /\ x.late = item[s].late
      BY <1>1 DEF Answered
    <2> HIDE DEF x
    <2>4. item'[s] = x
      BY <2>1 DEF WatchInv, WatchTypes
    <2>5. Covered(s)' <=> Covered(s)
      BY <1>1 DEF Covered, Backed, LookupIdentity, Leaving
    <2>6. AnswerSound(s)'
      BY <1>1, <2>3, <2>4, <2>5 DEF WatchInv, SinkSound, AnswerSound, Alive
    <2>7. CutIsEvicted(s)' /\ LookupSound(s)'
      BY <1>1, <2>2, <2>3, <2>4, ItemFacts DEF WatchInv, SinkSound, CutIsEvicted, LookupSound
    <2>8. x.found.uid <= uids
      BY <1>1, <2>3 DEF WatchInv, WatchTypes
    <2>9. QED
      BY <1>1, <2>1, <2>2, <2>6, <2>7, <2>8, InHandKeeps
  <1>4. QED
    BY <1>2, <1>3 DEF ResolvePolicy

\* An answer is recorded: as a stray one when an eviction came between.
LEMMA ReserveKeeps == ASSUME WatchInv, NEW s \in Sinks, Reserve(s) PROVE WatchInv'
  <1>1. UNCHANGED <<registry, loop, table, pool, indexer, obj, uids>> /\ item[s] \in Answered
    BY ItemFacts DEF Reserve, beyond, poolVars, WatchInv, WatchTypes
  <1>2. /\ known' \in [Sinks -> Object \cup {Gone}] /\ known'[s] = item[s].found
        /\ \A q \in Sinks : q # s => known'[q] = known[q]
    BY <1>1, ItemFacts DEF Reserve, WatchInv, WatchTypes
  <1>3. /\ item' \in [Sinks -> {NoItem} \cup LookedUp \cup Answered] /\ item'[s] = NoItem
        /\ \A q \in Sinks : q # s => item'[q] = item[q]
    BY DEF Reserve, WatchInv, WatchTypes
  <1>4. WatchTypes'
    BY <1>1, <1>2, <1>3, ItemFacts DEF WatchInv, WatchTypes
  <1>5. s \notin stray' => ~item[s].cut
    BY DEF Reserve
  <1>6. Told(s)'
    <2>1. Alive(item[s].found) /\ ~item[s].cut => Covered(s)
      BY <1>1 DEF WatchInv, SinkSound, AnswerSound
    <2>2. Covered(s) => Covered(s)'
      BY <1>1 DEF Covered, Backed, LookupIdentity, Leaving
    <2>3. QED
      BY <1>1, <1>2, <1>5, <2>1, <2>2 DEF Told, Alive
  <1>7. CutIsEvicted(s)' /\ LookupSound(s)' /\ AnswerSound(s)'
    BY <1>3, ItemFacts DEF CutIsEvicted, LookupSound, AnswerSound
  <1>8. ASSUME NEW q \in Sinks, q # s PROVE SinkSound(q)'
    <2>1. q \in stray' <=> q \in stray
      BY <1>8 DEF Reserve
    <2>2. QED
      BY <1>1, <1>2, <1>3, <1>8, <2>1, OthersStay DEF WatchInv
  <1>9. QED
    BY <1>4, <1>6, <1>7, <1>8 DEF WatchInv, SinkSound

LEMMA WatchStep == ASSUME WatchInv, [WatchNext]_watchVars PROVE WatchInv'
  <1>1. CASE UNCHANGED watchVars
    <2>1. UNCHANGED <<registry, loop, table, pool, indexer, known, item, stray, obj, uids>>
      BY <1>1 DEF watchVars, poolVars, workVars
    <2>2. \A q \in Sinks : SinkSound(q)'
      BY <2>1, OthersStay DEF WatchInv
    <2>3. QED
      BY <2>1, <2>2 DEF WatchInv, WatchTypes
  <1>2. QED
    BY <1>1, PlanningKeeps, ObjectKeeps, InformerKeeps, InstallKeeps, EvictionKeeps, StopKeeps, PoolKeeps,
       LookUpKeeps, GetKeeps, PolicyKeeps, ReserveKeeps
       DEF WatchNext, ReconcilePool, ProcessObject

LEMMA WatchInitially == WatchInit => WatchInv
  <1> SUFFICES ASSUME WatchInit PROVE WatchInv
    OBVIOUS
  <1>1. WatchTypes
    BY SeenFacts, ItemFacts, SMTT(60) DEF WatchInit, WatchTypes, NoPass, Seen
  <1>2. ASSUME NEW s \in Sinks PROVE SinkSound(s)
    BY ItemFacts DEF WatchInit, SinkSound, Told, CutIsEvicted, LookupSound, AnswerSound, Alive
  <1>3. QED
    BY <1>1, <1>2 DEF WatchInv

\* A deletion is recorded only for an incarnation that is gone, whatever informers serve
\* the sink and whatever pass comes between the steps of a work item: neither a stopped
\* watch nor an informer that has not listed is taken for it (interestTable.replace,
\* EvictScope, Get), but for the two cases NoPhantomDeath names.
THEOREM DeathsAreReal == WatchSpec => NoPhantomDeath
  <1> DEFINE Real == \A s \in Sinks : known[s] # Gone /\ known'[s] = Gone /\ UNCHANGED loop
                                         => known[s].uid # obj.uid \/ s \in stray \/ item[s].late
  <1>1. ASSUME WatchInv, [WatchNext]_watchVars PROVE Real
    <2> SUFFICES ASSUME NEW s \in Sinks, known[s] # Gone, known'[s] = Gone, UNCHANGED loop
                 PROVE  known[s].uid # obj.uid \/ s \in stray \/ item[s].late
      OBVIOUS
    <2>1. ~UNCHANGED known
      OBVIOUS
    <2>2. \A t \in Targets : ~SettleRemoved(t)
      <3> SUFFICES ASSUME NEW t \in Targets, SettleRemoved(t) PROVE FALSE
        OBVIOUS
      <3>1. loop.at = "settle" /\ t \in loop.removed /\ loop' = [loop EXCEPT !.removed = @ \ {t}]
        BY DEF SettleRemoved
      <3>2. loop'.removed = loop.removed \ {t}
        BY <1>1, <3>1 DEF WatchInv, WatchTypes
      <3>3. QED
        BY <3>1, <3>2
    <2>3. PICK q \in Sinks : Reserve(q)
      BY <1>1, <2>1, <2>2 DEF WatchNext, ReconcilePool, EditRegistry, KindAppears, ChangeObject,
         InformerSees, FanOut, Plan, Install, StopInformers, StartInformers, Report, StopAll, watchVars,
         workVars, ProcessObject, LookUp, Get, ResolvePolicy
    <2>4. q = s
      BY <2>3, <1>1 DEF Reserve, WatchInv, WatchTypes
    <2>5. item[s] \in Answered /\ item[s].found = Gone
      BY <1>1, <2>3, <2>4, ItemFacts DEF Reserve, WatchInv, WatchTypes
    <2>6. QED
      BY <1>1, <2>5 DEF WatchInv, SinkSound, AnswerSound, Alive
  <1>2. WatchInv /\ [WatchNext]_watchVars => WatchInv'
    BY WatchStep
  <1>3. QED
    BY <1>1, <1>2, WatchInitially, PTL DEF WatchSpec, NoPhantomDeath

-----------------------------------------------------------------------------
\* The health of a sink.
Verdicts == {"ok", "SchemaInvalid", "Unreachable"}
Result == [result : Verdicts, by : Nat]
Statuses == {"Absent", "True", "False", "Unknown"}
Credentials == Secrets \cup {"resolved"}
Reasons == Credentials \cup {"", "SecretResolved", "CredentialsUnavailable", "ProbePending", "SchemaMatches",
                             "SchemaInvalid", "Unreachable", "Connected"}
Condition == [status : Statuses, reason : Reasons]
Resource == [exists : BOOLEAN, gen : Nat, incarnation : Nat, ready : Condition, observed : Nat]
Prober == [gen : Nat, incarnation : Nat, loop : {"probing", "posting", "waiting", "ended"},
           result : {Nothing} \cup Verdicts, cancelled : BOOLEAN, ddl : {"pending", "done"}]

\* Good news is on its way only after a probe succeeded: in a loop's hands, in the
\* channel, in the store, in a pass that has decided, in the CR.
LoopNews(i) == probers[i].loop = "posting" => probers[i].result \in Verdicts /\ (probers[i].result = "ok" => proved)
ResultNews(r) == r \in Result /\ (r.result = "ok" => proved)
ReadyNews(c) == c \in Condition /\ (c.status = "True" => proved)

HealthInv ==
    /\ secret \in Credentials /\ proved \in BOOLEAN /\ created \in Nat
    /\ probers \in Seq(Prober) /\ \A i \in DOMAIN probers : LoopNews(i)
    /\ results \in Seq(Result) /\ \A n \in DOMAIN results : ResultNews(results[n])
    /\ store = Nothing \/ ResultNews(store)
    /\ pass.at \in {"got", "declared", "decided"} => pass.gen \in Nat /\ pass.incarnation \in Nat
    /\ pass.at = "declared" => pass.cred \in Credentials
    /\ pass.at = "decided" => ReadyNews(pass.ready)
    /\ cr \in Resource /\ ReadyNews(cr.ready) /\ cache \in Resource

LEMMA CondFacts ==
    ASSUME NEW status \in Statuses, NEW reason \in Reasons
    PROVE  /\ Cond(status, reason) \in Condition
           /\ Cond(status, reason).status = status /\ Cond(status, reason).reason = reason
  BY DEF Cond, Condition

LEMMA VerdictFacts == Verdict \in Verdicts
  BY DEF Verdict, Verdicts

\* One prober changes.
LEMMA ProberFacts ==
    ASSUME probers \in Seq(Prober), NEW i \in Probers, NEW to \in {"probing", "posting", "waiting", "ended"},
           NEW result \in {Nothing} \cup Verdicts
    PROVE  /\ Loop(i, to, result) \in Seq(Prober) /\ DOMAIN Loop(i, to, result) = DOMAIN probers
           /\ Loop(i, to, result)[i].loop = to /\ Loop(i, to, result)[i].result = result
           /\ \A k \in DOMAIN probers : k # i => Loop(i, to, result)[k] = probers[k]
  <1> DEFINE x == [probers[i] EXCEPT !.loop = to, !.result = result]
  <1>1. probers[i] \in Prober
    BY SMTT(60) DEF Probers
  <1>2. x \in Prober /\ x.loop = to /\ x.result = result
    BY <1>1 DEF Prober
  <1>3. Loop(i, to, result) = [probers EXCEPT ![i] = x]
    BY DEF Loop
  <1> HIDE DEF x
  <1>4. QED
    BY <1>2, <1>3, SMTT(60) DEF Probers

\* A condition that is not True decides; Ready is True only if the probe said ok.
LEMMA ReadyFacts ==
    ASSUME NEW cred \in Credentials, store = Nothing \/ ResultNews(store)
    PROVE  ReadyNews(ReadyFor(<<CredentialsResolved(cred), SchemaValid(cred)>>))
  <1> DEFINE conds == <<CredentialsResolved(cred), SchemaValid(cred)>>
  <1> DEFINE bad == {i \in DOMAIN conds : conds[i].status # "True"}
  <1>1. CredentialsResolved(cred) \in Condition
    BY CondFacts DEF CredentialsResolved, Statuses, Reasons
  <1>2. SchemaValid(cred) \in Condition /\ (SchemaValid(cred).status = "True" => proved)
    <2>1. CASE cred # "resolved"
      BY <2>1, CondFacts DEF SchemaValid, Statuses, Reasons
    <2>2. CASE cred = "resolved" /\ store = Nothing
      BY <2>2, CondFacts DEF SchemaValid, Statuses, Reasons
    <2>3. CASE cred = "resolved" /\ store # Nothing
      <3>1. store.result \in Verdicts /\ (store.result = "ok" => proved)
        BY <2>3 DEF ResultNews, Result
      <3>2. CASE store.result = "ok"
        BY <2>3, <3>1, <3>2, CondFacts DEF SchemaValid, Statuses, Reasons
      <3>3. CASE store.result = "SchemaInvalid"
        BY <2>3, <3>3, CondFacts DEF SchemaValid, Statuses, Reasons
      <3>4. CASE store.result = "Unreachable"
        BY <2>3, <3>4, CondFacts DEF SchemaValid, Statuses, Reasons
      <3>5. QED
        BY <3>1, <3>2, <3>3, <3>4 DEF Verdicts
    <2>4. QED
      BY <2>1, <2>2, <2>3
  <1>3. /\ DOMAIN conds = {1, 2} /\ conds[1] = CredentialsResolved(cred) /\ conds[2] = SchemaValid(cred)
    BY SMTT(60)
  <1> HIDE DEF conds
  <1>4. CASE bad = {}
    <2>1. ReadyFor(conds) = Cond("True", "Connected")
      BY <1>4 DEF ReadyFor
    <2>2. SchemaValid(cred).status = "True"
      BY <1>3, <1>4
    <2>3. "True" \in Statuses /\ "Connected" \in Reasons
      BY DEF Statuses, Reasons
    <2>4. ReadyFor(conds) \in Condition
      BY <2>1, <2>3, CondFacts
    <2>5. QED
      BY <1>2, <2>2, <2>4 DEF conds, ReadyNews
  <1>5. CASE bad # {}
    <2> DEFINE first == CHOOSE i \in bad : \A k \in bad : i <= k
    <2>1. \E i \in bad : \A k \in bad : i <= k
      BY <1>3, <1>5, SMTT(60)
    <2>2. first \in bad
      BY <2>1
    <2>3. ReadyFor(conds) = Cond(IF conds[first].reason = "Unreachable" THEN "False" ELSE conds[first].status,
                                 conds[first].reason)
      BY <1>5 DEF ReadyFor
    <2> HIDE DEF first
    <2>4. conds[first] \in Condition /\ conds[first].status # "True"
      BY <1>1, <1>2, <1>3, <2>2
    <2>5. conds[first].status \in Statuses \ {"True"} /\ conds[first].reason \in Reasons
      BY <2>4 DEF Condition
    <2>6. QED
      BY <2>3, <2>5, CondFacts, SMTT(60) DEF conds, ReadyNews, Statuses
  <1>6. QED
    BY <1>4, <1>5

\* The world changes.
LEMMA WorldKeepsHealth ==
    ASSUME HealthInv, EditResource \/ ChangeReach \/ ChangeSecret \/ ChangeSchema \/ CacheSync \/ ResyncHealth
    PROVE  HealthInv'
  <1>1. UNCHANGED <<pass, probers, results, proved, store>>
    BY DEF EditResource, ChangeReach, ChangeSecret, ChangeSchema, CacheSync, ResyncHealth,
       runtimeVars, watcherVars
  <1>2. secret' \in Credentials /\ created' \in Nat
    BY SMTT(60) DEF Credentials, HealthInv, EditResource, CreateCR, EditSpec, DeleteCR, ChangeReach, ChangeSecret,
       ChangeSchema, CacheSync, ResyncHealth, resourceVars, worldVars
  <1>3. cr' \in Resource /\ ReadyNews(cr.ready)' /\ cache' \in Resource
    <2>1. NoCR \in Resource /\ NoCR.ready \in Condition /\ NoCR.ready.status # "True"
      BY CondFacts DEF NoCR, Unset, Resource, Statuses, Reasons
    <2>2. CASE EditResource
      <3>1. CASE CreateCR
        <4> DEFINE new == [NoCR EXCEPT !.exists = TRUE, !.gen = 1, !.incarnation = created']
        <4>1. cr' = new /\ created' \in Nat /\ UNCHANGED cache
          BY <1>2, <2>2, <3>1 DEF CreateCR, EditResource
        <4>2. new \in Resource /\ new.ready = NoCR.ready
          BY <2>1, <4>1 DEF Resource
        <4> HIDE DEF new
        <4>3. QED
          BY <2>1, <4>1, <4>2 DEF HealthInv, ReadyNews
      <3>2. CASE EditSpec
        <4> DEFINE new == [cr EXCEPT !.gen = cr.gen + 1]
        <4>1. cr' = new /\ cr \in Resource /\ UNCHANGED cache
          BY <2>2, <3>2 DEF EditSpec, EditResource, HealthInv
        <4>2. cr.gen + 1 \in Nat
          BY <4>1, SMTT(60) DEF Resource
        <4>3. new \in Resource /\ new.ready = cr.ready
          BY <4>1, <4>2 DEF Resource
        <4> HIDE DEF new
        <4>4. QED
          BY <1>1, <4>1, <4>3 DEF HealthInv, ReadyNews
      <3>3. CASE DeleteCR
        BY <1>1, <2>1, <2>2, <3>3 DEF DeleteCR, EditResource, HealthInv, ReadyNews
      <3>4. QED
        BY <2>2, <3>1, <3>2, <3>3 DEF EditResource
    <2>3. CASE ChangeReach \/ ChangeSecret \/ ChangeSchema \/ CacheSync \/ ResyncHealth
      BY <1>1, <2>3 DEF ChangeReach, ChangeSecret, ChangeSchema, CacheSync, ResyncHealth,
         resourceVars, HealthInv, ReadyNews
    <2>4. QED
      BY <2>2, <2>3
  <1>4. QED
    BY <1>1, <1>2, <1>3 DEF HealthInv, LoopNews, ResultNews, ReadyNews

\* A probe loop moves, or its context is cancelled.
LEMMA LoopKeepsHealth == ASSUME HealthInv, NEW i \in Probers, ProbeLoop(i) \/ Drain(i) PROVE HealthInv'
  <1>1. UNCHANGED <<resourceVars, cache, pass, secret, store>>
    BY DEF ProbeLoop, Drain, AutoCreateSchema, Probe, PostResult, ProbeAgain, LoopEnds, worldVars,
       watcherVars
  <1>2. probers \in Seq(Prober) /\ i \in DOMAIN probers /\ probers[i] \in Prober
    BY SMTT(60) DEF HealthInv, Probers
  <1>3. proved' \in BOOLEAN /\ (proved => proved')
    BY DEF HealthInv, ProbeLoop, Drain, AutoCreateSchema, Probe, PostResult, ProbeAgain, LoopEnds
  <1>4. probers' \in Seq(Prober) /\ \A k \in DOMAIN probers' : LoopNews(k)'
    <2>1. CASE AutoCreateSchema(i) \/ Drain(i)
      <3>1. CASE UNCHANGED probers
        BY <1>2, <1>3, <3>1 DEF HealthInv, LoopNews
      <3>2. CASE ~UNCHANGED probers
        <4>1. PICK x \in {[probers[i] EXCEPT !.ddl = "done"], [probers[i] EXCEPT !.cancelled = TRUE]} :
                 probers' = [probers EXCEPT ![i] = x]
          BY <2>1, <3>2 DEF AutoCreateSchema, Drain
        <4>2. x \in Prober /\ x.loop = probers[i].loop /\ x.result = probers[i].result
          BY <1>2 DEF Prober
        <4>3. probers' \in Seq(Prober) /\ DOMAIN probers' = DOMAIN probers /\ probers'[i] = x
                  /\ \A k \in DOMAIN probers : k # i => probers'[k] = probers[k]
          <5>1. x \in Prober /\ probers' = [probers EXCEPT ![i] = x]
            BY <4>1, <4>2
          <5>2. QED
            BY <1>2, <5>1, SMTT(60)
        <4>4. QED
          BY <1>3, <4>2, <4>3 DEF HealthInv, LoopNews
      <3>3. QED
        BY <3>1, <3>2
    <2>2. CASE \E to \in {"probing", "waiting", "ended"} : probers' = Loop(i, to, Nothing)
      <3>1. PICK to \in {"probing", "waiting", "ended"} : probers' = Loop(i, to, Nothing)
        BY <2>2
      <3>2. /\ probers' \in Seq(Prober) /\ DOMAIN probers' = DOMAIN probers
            /\ probers'[i].loop = to
            /\ \A k \in DOMAIN probers : k # i => probers'[k] = probers[k]
        BY <1>2, <3>1, ProberFacts, SMTT(60)
      <3>3. QED
        BY <1>3, <3>1, <3>2 DEF HealthInv, LoopNews
    <2>3. CASE probers' = Loop(i, "posting", Verdict) /\ (Verdict = "ok" => proved')
      <3>1. Verdict \in {Nothing} \cup Verdicts /\ i \in Probers
        BY VerdictFacts
      <3>2. /\ probers' \in Seq(Prober) /\ DOMAIN probers' = DOMAIN probers
            /\ probers'[i].loop = "posting" /\ probers'[i].result = Verdict
            /\ \A k \in DOMAIN probers : k # i => probers'[k] = probers[k]
        BY <1>2, <2>3, <3>1, ProberFacts, SMTT(60)
      <3>3. QED
        BY <1>3, <2>3, <3>2, VerdictFacts DEF HealthInv, LoopNews
    <2>4. QED
      BY <2>1, <2>2, <2>3 DEF ProbeLoop, Probe, PostResult, ProbeAgain, LoopEnds
  <1>5. results' \in Seq(Result) /\ \A n \in DOMAIN results' : ResultNews(results[n])'
    <2>1. CASE UNCHANGED results
      BY <1>3, <2>1 DEF HealthInv, ResultNews
    <2>2. CASE PostResult(i)
      <3> DEFINE r == [result |-> probers[i].result, by |-> i]
      <3>a. probers[i].loop = "posting" /\ results' = Append(results, r)
        BY <2>2 DEF PostResult
      <3>b. probers[i].result \in Verdicts /\ (probers[i].result = "ok" => proved)
        BY <1>2, <3>a DEF HealthInv, LoopNews
      <3>c. i \in Nat
        BY <1>2, SMTT(60)
      <3>1. r \in Result /\ r.result = probers[i].result
        BY <3>b, <3>c DEF Result
      <3>2. results' = Append(results, r) /\ (r.result = "ok" => proved)
        BY <3>a, <3>b, <3>1
      <3> HIDE DEF r
      <3>3. results' \in Seq(Result) /\ \A n \in DOMAIN results' : results'[n] = r \/ (n \in DOMAIN results /\ results'[n] = results[n])
        BY <3>1, <3>2, SMTT(60) DEF HealthInv
      <3>4. QED
        BY <1>3, <3>1, <3>2, <3>3 DEF HealthInv, ResultNews
    <2>3. QED
      BY <2>1, <2>2 DEF ProbeLoop, Drain, AutoCreateSchema, Probe, ProbeAgain, LoopEnds
  <1>6. QED
    BY <1>1, <1>3, <1>4, <1>5 DEF HealthInv, ResultNews, ReadyNews, resourceVars

\* The watcher records a verdict and wakes the reconciler.
LEMMA WatcherKeepsHealth == ASSUME HealthInv, ProbeWatcher PROVE HealthInv'
  <1>1. UNCHANGED <<resourceVars, cache, pass, secret, probers, proved>>
    BY DEF ProbeWatcher, Record, Wake, worldVars, runtimeVars
  <1>2. CASE Record
    <2>1. results \in Seq(Result) /\ results # <<>> /\ results' = Tail(results) /\ store' = Head(results)
      BY <1>2 DEF Record, HealthInv
    <2>2. 1 \in DOMAIN results /\ store' = results[1]
      BY <2>1, SMTT(60)
    <2>3. results' \in Seq(Result) /\ \A n \in DOMAIN results' : n + 1 \in DOMAIN results /\ results'[n] = results[n + 1]
      BY <2>1, SMTT(60)
    <2>4. ResultNews(store)'
      BY <1>1, <2>2 DEF HealthInv, ResultNews
    <2>5. \A n \in DOMAIN results' : ResultNews(results[n])'
      BY <1>1, <2>3 DEF HealthInv, ResultNews
    <2>6. QED
      BY <1>1, <2>3, <2>4, <2>5 DEF HealthInv, LoopNews, ReadyNews, resourceVars
  <1>3. CASE Wake
    <2>1. UNCHANGED <<results, store>>
      BY <1>3 DEF Wake, runtimeVars
    <2>2. QED
      BY <1>1, <2>1 DEF HealthInv, LoopNews, ResultNews, ReadyNews, resourceVars
  <1>4. QED
    BY <1>2, <1>3 DEF ProbeWatcher

\* A pass.
LEMMA PassKeepsHealth == ASSUME HealthInv, ReconcileSteps PROVE HealthInv'
  <1>1. UNCHANGED <<results, proved, secret, created, cache>> /\ (store' = store \/ store' = Nothing)
    BY DEF ReconcileSteps, BeginPass, WithdrawSink, Declare, DeclareRefused, Decide, WriteStatus,
       WriteConflicts,
       resourceVars, worldVars, runtimeVars, watcherVars
  <1>2. /\ pass'.at \in {"got", "declared", "decided"} => pass'.gen \in Nat /\ pass'.incarnation \in Nat
        /\ pass'.at = "declared" => pass'.cred \in Credentials
        /\ pass'.at = "decided" => ReadyNews(pass.ready)'
    <2>1. CASE BeginPass
      <3>1. cache \in Resource
        BY DEF HealthInv
      <3>2. CASE cache.exists
        BY <2>1, <3>1, <3>2 DEF BeginPass, Resource
      <3>3. CASE ~cache.exists
        BY <2>1, <3>3 DEF BeginPass
      <3>4. QED
        BY <3>2, <3>3
    <2>2. CASE WithdrawSink \/ DeclareRefused \/ WriteStatus \/ WriteConflicts
      BY <2>2, SMTT(60) DEF WithdrawSink, DeclareRefused, WriteStatus, WriteConflicts, Idle
    <2>3. CASE Declare
      BY <2>3 DEF Declare, HealthInv
    <2>4. CASE Decide
      <3> DEFINE ready == ReadyFor(<<CredentialsResolved(pass.cred), SchemaValid(pass.cred)>>)
      <3>1. ReadyNews(ready)
        BY <2>4, ReadyFacts DEF Decide, HealthInv
      <3>2. pass'.at = "decided" /\ pass'.ready = ready /\ pass'.gen = pass.gen /\ pass'.incarnation = pass.incarnation
        BY <2>4 DEF Decide
      <3>3. pass.gen \in Nat /\ pass.incarnation \in Nat
        BY <2>4 DEF Decide, HealthInv
      <3> HIDE DEF ready
      <3>4. QED
        BY <1>1, <3>1, <3>2, <3>3 DEF ReadyNews
    <2>5. QED
      BY <2>1, <2>2, <2>3, <2>4 DEF ReconcileSteps
  <1>3. probers' \in Seq(Prober) /\ \A k \in DOMAIN probers' : LoopNews(k)'
    <2>1. CASE UNCHANGED probers
      BY <1>1, <2>1 DEF HealthInv, LoopNews
    <2>2. CASE Declare /\ ~UNCHANGED probers
      <3> DEFINE x == [gen |-> pass.gen, incarnation |-> pass.incarnation, loop |-> "probing", result |-> Nothing,
                       cancelled |-> FALSE, ddl |-> IF autoCreate THEN "pending" ELSE "done"]
      <3>1. probers' = Append(probers, x)
        BY <2>2 DEF Declare
      <3>2. x \in Prober /\ x.loop = "probing"
        BY <2>2 DEF Declare, HealthInv, Prober
      <3> HIDE DEF x
      <3>3. probers' \in Seq(Prober) /\ \A k \in DOMAIN probers' : probers'[k] = x \/ (k \in DOMAIN probers /\ probers'[k] = probers[k])
        BY <3>1, <3>2, SMTT(60) DEF HealthInv
      <3>4. QED
        BY <1>1, <3>2, <3>3 DEF HealthInv, LoopNews
    <2>3. QED
      BY <2>1, <2>2 DEF ReconcileSteps, BeginPass, WithdrawSink, DeclareRefused, Decide,
         WriteStatus, WriteConflicts, runtimeVars
  <1>4. cr' \in Resource /\ ReadyNews(cr.ready)'
    <2>1. CASE UNCHANGED cr
      BY <1>1, <2>1 DEF HealthInv, ReadyNews
    <2>2. CASE WriteStatus
      <3>1. ReadyNews(pass.ready) /\ pass.gen \in Nat /\ cr \in Resource
        BY <2>2 DEF WriteStatus, HealthInv
      <3>2. cr' = [cr EXCEPT !.ready = pass.ready, !.observed = pass.gen]
        BY <2>2 DEF WriteStatus
      <3>3. cr' \in Resource /\ cr'.ready = pass.ready
        BY <3>1, <3>2 DEF Resource, ReadyNews
      <3>4. QED
        BY <1>1, <3>1, <3>3 DEF ReadyNews
    <2>3. QED
      BY <2>1, <2>2 DEF ReconcileSteps, BeginPass, WithdrawSink, Declare, DeclareRefused,
         Decide, WriteConflicts, resourceVars
  <1>5. QED
    BY <1>1, <1>2, <1>3, <1>4 DEF HealthInv, ResultNews

LEMMA HealthInitially == HealthInit => HealthInv
  <1> SUFFICES ASSUME HealthInit PROVE HealthInv
    OBVIOUS
  <1>1. NoCR \in Resource /\ ReadyNews(NoCR.ready)
    BY CondFacts DEF NoCR, Unset, Resource, Statuses, Reasons, ReadyNews
  <1>2. probers \in Seq(Prober) /\ DOMAIN probers = {} /\ results \in Seq(Result) /\ DOMAIN results = {}
    BY SMTT(60) DEF HealthInit
  <1>3. QED
    BY <1>1, <1>2 DEF HealthInit, HealthInv, Idle, Credentials

LEMMA HealthStep == HealthInv /\ [HealthNext]_healthVars => HealthInv'
  <1> SUFFICES ASSUME HealthInv, [HealthNext]_healthVars PROVE HealthInv'
    OBVIOUS
  <1>1. CASE UNCHANGED healthVars
    BY <1>1 DEF healthVars, resourceVars, worldVars, runtimeVars, watcherVars, HealthInv,
       LoopNews, ResultNews, ReadyNews
  <1>2. CASE HealthNext
    BY <1>2, WorldKeepsHealth, LoopKeepsHealth, WatcherKeepsHealth, PassKeepsHealth DEF HealthNext
  <1>3. QED
    BY <1>1, <1>2

\* A sink is reported ready only after a probe of it succeeded, for any number of
\* edits, outages, stale copies and probe loops (setHealthConditions, readyFor).
THEOREM ReadinessIsEarned == HealthSpec => []ReadyEarned
  <1>1. HealthInv => ReadyEarned
    BY DEF HealthInv, ReadyNews, ReadyEarned
  <1>2. QED
    BY <1>1, HealthInitially, HealthStep, PTL DEF HealthSpec
=============================================================================
