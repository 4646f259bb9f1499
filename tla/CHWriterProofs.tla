--------------------------- MODULE CHWriterProofs ---------------------------
(***************************************************************************)
(* The inductive invariant of the ClickHouse writer, what it implies, and  *)
(* the writer as an implementation of the contract of the sink, for every  *)
(* set of jobs, workers and users of the connection, every queue and batch *)
(* size and any number of failing attempts.                                *)
(*                                                                         *)
(* The argument: an accepted job is in exactly one place until its         *)
(* callback fires (HeldOnce), so the callback a worker fires is the job's  *)
(* first; and a worker that commits a batch without isolation holds rows   *)
(* that have all landed (Positions).                                       *)
(***************************************************************************)
EXTENDS CHWriter, TLAPS

\* The prover of a leaf that names none; SMT is named where arithmetic is needed.
USE ZenonT(60)

Outcome == [ok: BOOLEAN, late: BOOLEAN]

FlagsTyped ==
    late \in [Workers -> BOOLEAN] /\ ctxDone \in BOOLEAN /\ drainExpired \in BOOLEAN

\* The types of the fields, without the bounds.
WellTyped ==
    /\ call \in [Jobs -> {"idle", "sending", "accepted", "refused"}]
    /\ queue \in Seq(Jobs)
    /\ batch \in [Workers -> Seq(Jobs)]
    /\ at \in [Workers -> {"receiving", "sending", "committing", "isolating", "exited"}]
    /\ done \in [Workers -> Nat]
    /\ under \in [Workers -> Contexts]
    /\ settled \in [Jobs -> Seq(Outcome)]
    /\ durable \subseteq Jobs
    /\ user \in [Users -> {"idle", "using"}]
    /\ start \in {"running", "closing", "draining", "workersGone", "stopped"}
    /\ faults \in Nat
    /\ FlagsTyped

\* What a worker's position says of its batch.
Positions ==
    \A w \in Workers :
        /\ at[w] = "sending" => batch[w] # <<>>
        /\ at[w] \in {"committing", "isolating"} => done[w] < Len(batch[w])
        /\ at[w] = "committing" => \A i \in Unsettled(w) : batch[w][i] \in durable
        /\ at[w] = "exited" => batch[w] = <<>>

\* A job is settled at most once, and only after it was accepted.
SettledOnce ==
    \A j \in Jobs : Len(settled[j]) <= 1 /\ (settled[j] # <<>> => call[j] = "accepted")

\* What the shutdown has done by the step Start has reached.
Shutdown ==
    /\ Closed => \A j \in Jobs : call[j] # "sending"
    /\ \A w \in Workers : at[w] = "exited" => Closed /\ queue = <<>>
    /\ start \in {"workersGone", "stopped"} => \A w \in Workers : at[w] = "exited"
    /\ start = "stopped" => \A u \in Users : user[u] = "idle"

\* A flush that began before the cancellation uses the run context, one that
\* began after it does not.
ContextChosen == \A w \in Workers : under[w] = "run" <=> ~late[w]

WriterInv ==
    /\ WellTyped /\ Positions /\ SettledOnce /\ HeldOnce
    /\ Shutdown /\ ContextChosen /\ OnlyTheGuiltyFail

-----------------------------------------------------------------------------
\* The writer's initial state satisfies the invariant.
LEMMA WriterInit == Init => WriterInv
  <1> SUFFICES ASSUME Init PROVE WriterInv
    OBVIOUS
  <1>1. WellTyped
    <2>1. FlagsTyped
      BY DEF Init, FlagsTyped
    <2>2. QED
      BY <2>1, SMTT(60) DEF Init, WellTyped, Contexts
  <1>2. \A w \in Workers : Unsettled(w) = {}
    BY SMTT(60) DEF Init, Unsettled
  <1>3. Positions
    BY DEF Init, Positions
  <1>4. SettledOnce /\ OnlyTheGuiltyFail
    BY SMTT(60) DEF Init, SettledOnce, OnlyTheGuiltyFail
  <1>5. HeldOnce
    BY <1>2, SMTT(60) DEF Init, HeldOnce, Owed
  <1>6. Shutdown /\ ContextChosen
    BY DEF Init, Shutdown, ContextChosen, Closed
  <1>7. QED
    BY <1>1, <1>3, <1>4, <1>5, <1>6 DEF WriterInv

\* The rows a worker still owes depend on its own fields.
LEMMA UnsettledKept ==
    ASSUME NEW w \in Workers, batch'[w] = batch[w], at'[w] = at[w], done'[w] = done[w]
    PROVE  Unsettled(w)' = Unsettled(w)
  BY DEF Unsettled

\* Nothing changes hands when no row a worker owes changes.
LEMMA HeldOnceKept ==
    ASSUME HeldOnce, UNCHANGED <<call, queue, settled>>,
           \A w \in Workers : batch'[w] = batch[w] /\ Unsettled(w)' = Unsettled(w)
    PROVE  HeldOnce'
  BY SMTT(60) DEF HeldOnce, Owed

\* Closing comes before closed.
LEMMA ClosedIsClosing == Closed => Closing
  BY DEF Closed, Closing

\* A caller's step.
LEMMA EnqueueStep ==
    ASSUME WriterInv, NEW j \in Jobs, Enqueue(j)
    PROVE  WriterInv'
  <1>0. /\ WellTyped /\ Positions /\ SettledOnce /\ HeldOnce
        /\ Shutdown /\ ContextChosen /\ OnlyTheGuiltyFail
    BY DEF WriterInv
  <1>1. UNCHANGED <<batch, at, done, under, late, settled, durable, faults, user, start, ctxDone, drainExpired>>
    BY DEF Enqueue, BeginEnqueue, SendJob, GiveUpEnqueue, workerVars, rowVars, startVars
  <1>2. \A w \in Workers : batch'[w] = batch[w] /\ Unsettled(w)' = Unsettled(w)
    BY <1>1, UnsettledKept
  <1>3. /\ call' = [call EXCEPT ![j] = call'[j]]
        /\ call[j] # "accepted" /\ call'[j] \in {"sending", "accepted", "refused"}
        /\ call'[j] = "sending" => ~Closed
    BY <1>0, ClosedIsClosing DEF Enqueue, BeginEnqueue, SendJob, GiveUpEnqueue, WellTyped
  <1>4. settled[j] = <<>> /\ ~Owed(j)
    BY <1>0, <1>3 DEF SettledOnce, Owed
  <1>5. \/ queue' = queue /\ call'[j] # "accepted"
        \/ queue' = Append(queue, j) /\ call'[j] = "accepted" /\ ~Closed
    <2>1. CASE SendJob(j)
      BY <1>0, <2>1 DEF SendJob, WellTyped, Shutdown
    <2>2. CASE BeginEnqueue(j) \/ GiveUpEnqueue(j)
      BY <1>0, <2>2 DEF BeginEnqueue, GiveUpEnqueue, WellTyped
    <2>3. QED
      BY <2>1, <2>2 DEF Enqueue
  <1>6. WellTyped'
    <2>1. queue' \in Seq(Jobs)
      <3>1. queue \in Seq(Jobs)
        BY <1>0 DEF WellTyped
      <3>2. Append(queue, j) \in Seq(Jobs)
        BY <3>1, SMTT(60)
      <3>3. QED
        BY <1>5, <3>1, <3>2
    <2>2. call' \in [Jobs -> {"idle", "sending", "accepted", "refused"}]
      BY <1>0, <1>3 DEF WellTyped
    <2>3. FlagsTyped'
      BY <1>0, <1>1 DEF WellTyped, FlagsTyped
    <2>4. QED
      BY <1>0, <1>1, <2>1, <2>2, <2>3 DEF WellTyped
  <1>7. Positions' /\ ContextChosen' /\ OnlyTheGuiltyFail'
    BY <1>0, <1>1, <1>2 DEF Positions, ContextChosen, OnlyTheGuiltyFail
  <1>8. SettledOnce'
    BY <1>0, <1>1, <1>3, <1>4 DEF SettledOnce, WellTyped
  <1>9. Shutdown'
    BY <1>0, <1>1, <1>3, <1>5 DEF Shutdown, Closed, WellTyped
  <1>10. HeldOnce'
    <2>1. \A q \in Jobs \ {j} : Owed(q)' = Owed(q)
      BY <1>0, <1>1, <1>3 DEF Owed, WellTyped
    <2>2. CASE queue' = queue /\ call'[j] # "accepted"
      <3>1. ~Owed(j)'
        BY <2>2 DEF Owed
      <3>2. \A i \in DOMAIN queue : queue[i] \in Jobs \ {j}
        BY <1>0, <1>4, SMTT(60) DEF HeldOnce, WellTyped
      <3>3. \A w \in Workers : \A i \in Unsettled(w) : batch[w][i] \in Jobs \ {j}
        BY <1>0, <1>4, SMTT(60) DEF HeldOnce, WellTyped, Unsettled
      <3>4. QED
        BY <1>0, <1>2, <2>1, <2>2, <3>1, <3>2, <3>3, SMTT(60) DEF HeldOnce
    <2>3. CASE queue' = Append(queue, j) /\ call'[j] = "accepted"
      <3>1. Owed(j)'
        BY <1>1, <1>4, <2>3 DEF Owed
      <3>2. \A i \in DOMAIN queue : queue[i] \in Jobs \ {j}
        BY <1>0, <1>4, SMTT(60) DEF HeldOnce, WellTyped
      <3>3. \A w \in Workers : \A i \in Unsettled(w) : batch[w][i] \in Jobs \ {j}
        BY <1>0, <1>4, SMTT(60) DEF HeldOnce, WellTyped, Unsettled
      <3>4. /\ DOMAIN queue = 1 .. Len(queue) /\ Len(queue) \in Nat
            /\ DOMAIN queue' = 1 .. Len(queue) + 1
            /\ \A i \in DOMAIN queue : queue'[i] = queue[i]
            /\ queue'[Len(queue) + 1] = j
        BY <1>0, <2>3, SMTT(60) DEF WellTyped
      <3>5. QED
        BY <1>0, <1>2, <2>1, <3>1, <3>2, <3>3, <3>4, SMTT(60) DEF HeldOnce
    <2>4. QED
      BY <1>5, <2>2, <2>3
  <1>11. QED
    BY <1>6, <1>7, <1>8, <1>9, <1>10 DEF WriterInv

\* A flush chooses its context by whether the writer is cancelled.
LEMMA FlushEffect ==
    ASSUME WellTyped, ContextChosen, NEW w \in Workers, Flush(w),
           UNCHANGED <<ctxDone, drainExpired>>
    PROVE  /\ at' = [at EXCEPT ![w] = "sending"] /\ done' = [done EXCEPT ![w] = 0]
           /\ under' \in [Workers -> Contexts] /\ FlagsTyped' /\ ContextChosen'
  <1>1. attemptContext \in Contexts /\ (attemptContext = "run" <=> ~ctxDone)
    BY DEF attemptContext, Contexts
  <1>2. FlagsTyped'
    BY DEF Flush, WellTyped, FlagsTyped
  <1>3. \A v \in Workers : late'[v] = IF v = w THEN ctxDone ELSE late[v]
    BY DEF Flush, WellTyped, FlagsTyped
  <1>4. ContextChosen'
    BY <1>1, <1>3 DEF Flush, WellTyped, ContextChosen
  <1>5. QED
    BY <1>1, <1>2, <1>4 DEF Flush, WellTyped

\* A worker takes the next job from the queue.
LEMMA ReceiveStep ==
    ASSUME WriterInv, NEW w \in Workers, Receive(w)
    PROVE  WriterInv'
  <1>0. /\ WellTyped /\ Positions /\ SettledOnce /\ HeldOnce
        /\ Shutdown /\ ContextChosen /\ OnlyTheGuiltyFail
    BY DEF WriterInv
  <1>1. /\ at[w] = "receiving"
        /\ UNCHANGED <<call, settled, durable, faults, user, start, ctxDone, drainExpired>>
    BY DEF Receive, rowVars, startVars
  <1>2. /\ queue \in Seq(Jobs) /\ Len(queue) \in Nat /\ DOMAIN queue = 1 .. Len(queue)
        /\ Len(queue) > 0 /\ queue[1] \in Jobs /\ queue' \in Seq(Jobs)
        /\ DOMAIN queue' = 1 .. Len(queue) - 1
        /\ \A i \in 1 .. Len(queue) - 1 : queue'[i] = queue[i + 1]
    <2>1. queue \in Seq(Jobs) /\ queue # <<>> /\ queue' = Tail(queue)
      BY <1>0 DEF WellTyped, Receive
    <2>2. QED
      BY <2>1, SMTT(60)
  <1>3. /\ batch[w] \in Seq(Jobs) /\ Len(batch[w]) \in Nat
        /\ DOMAIN batch[w] = 1 .. Len(batch[w])
        /\ batch'[w] \in Seq(Jobs) /\ DOMAIN batch'[w] = 1 .. Len(batch[w]) + 1
        /\ \A i \in 1 .. Len(batch[w]) : batch'[w][i] = batch[w][i]
        /\ batch'[w][Len(batch[w]) + 1] = queue[1]
    <2>1. batch[w] \in Seq(Jobs) /\ batch'[w] = Append(batch[w], queue[1])
      BY <1>0, SMTT(60) DEF WellTyped, Receive
    <2>2. QED
      BY <1>2, <2>1, SMTT(60)
  <1>4. \A v \in Workers \ {w} : batch'[v] = batch[v]
    BY <1>0 DEF WellTyped, Receive
  <1>5. /\ at'[w] \in {"receiving", "sending"} /\ at' = [at EXCEPT ![w] = at'[w]]
        /\ \A v \in Workers \ {w} : done'[v] = done[v]
        /\ done' \in [Workers -> Nat] /\ under' \in [Workers -> Contexts]
        /\ FlagsTyped' /\ ContextChosen'
    <2>1. CASE Flush(w)
      <3>1. /\ at' = [at EXCEPT ![w] = "sending"] /\ done' = [done EXCEPT ![w] = 0]
            /\ under' \in [Workers -> Contexts] /\ FlagsTyped' /\ ContextChosen'
        BY <1>0, <1>1, <2>1, FlushEffect
      <3>2. QED
        BY <1>0, <3>1 DEF WellTyped
    <2>2. CASE UNCHANGED <<at, done, under, late>>
      BY <1>0, <1>1, <2>2 DEF WellTyped, FlagsTyped, ContextChosen
    <2>3. QED
      BY <2>1, <2>2 DEF Receive
  <1>6. WellTyped'
    <2>1. batch' \in [Workers -> Seq(Jobs)]
      BY <1>0, <1>3 DEF WellTyped, Receive
    <2>2. at' \in [Workers -> {"receiving", "sending", "committing", "isolating", "exited"}]
      BY <1>0, <1>5 DEF WellTyped
    <2>3. QED
      BY <1>0, <1>1, <1>2, <1>5, <2>1, <2>2 DEF WellTyped
  <1>7. /\ Unsettled(w) = 1 .. Len(batch[w]) /\ Unsettled(w)' = 1 .. Len(batch[w]) + 1
        /\ \A v \in Workers \ {w} : Unsettled(v)' = Unsettled(v)
    <2>1. \A v \in Workers \ {w} : at'[v] = at[v]
      BY <1>0, <1>5 DEF WellTyped
    <2>2. QED
      BY <1>1, <1>3, <1>4, <1>5, <2>1 DEF Unsettled
  <1>8. Positions'
    <2>1. batch'[w] # <<>>
      BY <1>3, SMTT(60)
    <2>2. QED
      BY <1>0, <1>1, <1>4, <1>5, <1>7, <2>1 DEF Positions, WellTyped
  <1>9. SettledOnce' /\ OnlyTheGuiltyFail'
    BY <1>0, <1>1 DEF SettledOnce, OnlyTheGuiltyFail
  <1>10. Shutdown'
    BY <1>0, <1>1, <1>2, <1>5, SMTT(60) DEF Shutdown, Closed, WellTyped
  <1>11. HeldOnce'
    <2>1. \A q \in Jobs : Owed(q)' <=> Owed(q)
      BY <1>1 DEF Owed
    \* What HeldOnce says before the step.
    <2>a. \A i \in DOMAIN queue : Owed(queue[i])
      BY <1>0 DEF HeldOnce
    <2>b. \A v \in Workers : \A i \in Unsettled(v) : Owed(batch[v][i])
      BY <1>0 DEF HeldOnce
    <2>c. \A i, k \in DOMAIN queue : queue[i] = queue[k] => i = k
      BY <1>0 DEF HeldOnce
    <2>d. \A u, v \in Workers : \A i \in Unsettled(u), k \in Unsettled(v) :
             batch[u][i] = batch[v][k] => u = v /\ i = k
      BY <1>0 DEF HeldOnce
    <2>e. \A i \in DOMAIN queue : \A v \in Workers : \A k \in Unsettled(v) : queue[i] # batch[v][k]
      BY <1>0 DEF HeldOnce
    <2>2. \A i \in DOMAIN queue' : i + 1 \in DOMAIN queue /\ queue'[i] = queue[i + 1] /\ i + 1 # 1
      BY <1>2, SMTT(60)
    <2>3. 1 \in DOMAIN queue
      BY <1>2, SMTT(60)
    <2>4. \A i \in Unsettled(w)' :
             \/ i \in Unsettled(w) /\ batch'[w][i] = batch[w][i]
             \/ i = Len(batch[w]) + 1 /\ batch'[w][i] = queue[1]
      BY <1>3, <1>7, SMTT(60)
    <2>6. (\A i \in DOMAIN queue : Owed(queue[i]))'
      BY <1>1, <2>a, <2>2 DEF Owed
    <2>7. (\A v \in Workers : \A i \in Unsettled(v) : Owed(batch[v][i]))'
      BY <1>1, <1>4, <1>7, <2>a, <2>b, <2>3, <2>4, SMTT(60) DEF Owed
    <2>8. (\A i, k \in DOMAIN queue : queue[i] = queue[k] => i = k)'
      <3> SUFFICES ASSUME NEW i \in DOMAIN queue', NEW k \in DOMAIN queue', queue'[i] = queue'[k]
                   PROVE  i = k
        OBVIOUS
      <3>1. i + 1 = k + 1 /\ i \in Nat /\ k \in Nat
        BY <1>2, <2>2, <2>c, SMTT(60)
      <3>2. QED
        BY <3>1, SMTT(60)
    <2>9. (\A u, v \in Workers : \A i \in Unsettled(u), k \in Unsettled(v) :
             batch[u][i] = batch[v][k] => u = v /\ i = k)'
      <3> SUFFICES ASSUME NEW u \in Workers, NEW v \in Workers, NEW i \in Unsettled(u)',
                          NEW k \in Unsettled(v)', batch'[u][i] = batch'[v][k]
                   PROVE  u = v /\ i = k
        OBVIOUS
      <3>1. CASE u # w
        BY <1>4, <1>7, <2>d, <2>e, <2>3, <2>4, <3>1, SMTT(60)
      <3>2. CASE u = w /\ v # w
        BY <1>4, <1>7, <2>d, <2>e, <2>3, <2>4, <3>2, SMTT(60)
      <3>3. CASE u = w /\ v = w
        BY <2>d, <2>e, <2>3, <2>4, <3>3, SMTT(60)
      <3>4. QED
        BY <3>1, <3>2, <3>3
    <2>10. (\A i \in DOMAIN queue : \A v \in Workers : \A k \in Unsettled(v) : queue[i] # batch[v][k])'
      BY <1>4, <1>7, <2>c, <2>e, <2>2, <2>3, <2>4, SMTT(60)
    <2>11. ASSUME NEW q \in Jobs, Owed(q)'
           PROVE  \/ \E i \in DOMAIN queue' : queue'[i] = q
                  \/ \E v \in Workers : \E i \in Unsettled(v)' : batch'[v][i] = q
      <3>1. CASE \E i \in DOMAIN queue : queue[i] = q
        <4>1. PICK i \in DOMAIN queue : queue[i] = q
          BY <3>1
        <4>2. CASE i = 1
          BY <1>3, <1>7, <4>1, <4>2, SMTT(60)
        <4>3. CASE i # 1
          <5>1. i - 1 \in DOMAIN queue' /\ queue'[i - 1] = q
            BY <1>2, <4>1, <4>3, SMTT(60)
          <5>2. QED
            BY <5>1
        <4>4. QED
          BY <4>2, <4>3
      <3>2. CASE \E v \in Workers : \E i \in Unsettled(v) : batch[v][i] = q
        BY <1>3, <1>4, <1>7, <3>2, SMTT(60)
      <3>3. QED
        BY <1>0, <2>1, <2>11, <3>1, <3>2 DEF HeldOnce
    <2>12. QED
      BY <2>6, <2>7, <2>8, <2>9, <2>10, <2>11 DEF HeldOnce
  <1>12. QED
    BY <1>5, <1>6, <1>8, <1>9, <1>10, <1>11 DEF WriterInv

\* A worker turns to its batch: the timer fires, or the channel is closed.
LEMMA FlushStep ==
    ASSUME WriterInv, NEW w \in Workers, BatchMaxWaitElapses(w) \/ ChannelClosed(w)
    PROVE  WriterInv'
  <1>0. /\ WellTyped /\ Positions /\ SettledOnce /\ HeldOnce
        /\ Shutdown /\ ContextChosen /\ OnlyTheGuiltyFail
    BY DEF WriterInv
  <1>1. /\ at[w] = "receiving"
        /\ UNCHANGED <<call, queue, batch, settled, durable, faults, user, start, ctxDone, drainExpired>>
    BY DEF BatchMaxWaitElapses, ChannelClosed, callVars, rowVars, startVars
  <1>2. /\ \/ at'[w] = "sending" /\ batch[w] # <<>>
           \/ at'[w] = "exited" /\ batch[w] = <<>> /\ Closed /\ queue = <<>>
        /\ at' = [at EXCEPT ![w] = at'[w]]
        /\ \A v \in Workers \ {w} : done'[v] = done[v]
        /\ done' \in [Workers -> Nat] /\ under' \in [Workers -> Contexts]
        /\ FlagsTyped' /\ ContextChosen'
    <2>1. CASE Flush(w) /\ batch[w] # <<>>
      <3>1. /\ at' = [at EXCEPT ![w] = "sending"] /\ done' = [done EXCEPT ![w] = 0]
            /\ under' \in [Workers -> Contexts] /\ FlagsTyped' /\ ContextChosen'
        BY <1>0, <1>1, <2>1, FlushEffect
      <3>2. QED
        BY <1>0, <2>1, <3>1 DEF WellTyped
    <2>2. CASE /\ at' = [at EXCEPT ![w] = "exited"] /\ UNCHANGED <<done, under, late>>
               /\ batch[w] = <<>> /\ Closed /\ queue = <<>>
      BY <1>0, <1>1, <2>2 DEF WellTyped, FlagsTyped, ContextChosen
    <2>3. QED
      BY <2>1, <2>2 DEF BatchMaxWaitElapses, ChannelClosed
  <1>3. at' \in [Workers -> {"receiving", "sending", "committing", "isolating", "exited"}]
    BY <1>0, <1>2 DEF WellTyped
  <1>4. WellTyped'
    BY <1>0, <1>1, <1>2, <1>3 DEF WellTyped
  <1>5. \A v \in Workers \ {w} : at'[v] = at[v]
    BY <1>0, <1>2 DEF WellTyped
  <1>6. \A v \in Workers : batch'[v] = batch[v] /\ Unsettled(v)' = Unsettled(v)
    BY <1>1, <1>2, <1>5 DEF Unsettled
  <1>7. HeldOnce'
    BY <1>0, <1>1, <1>6, HeldOnceKept
  <1>8. Positions'
    BY <1>0, <1>1, <1>2, <1>5, <1>6, SMTT(60) DEF Positions
  <1>9. SettledOnce' /\ OnlyTheGuiltyFail'
    BY <1>0, <1>1 DEF SettledOnce, OnlyTheGuiltyFail
  <1>10. Shutdown'
    BY <1>0, <1>1, <1>2, <1>5 DEF Shutdown, Closed
  <1>11. QED
    BY <1>2, <1>4, <1>7, <1>8, <1>9, <1>10 DEF WriterInv

\* A failing attempt never lowers the count of failures.
LEMMA FailsCounts ==
    ASSUME WellTyped, NEW w, NEW rows, Fails(w, rows)
    PROVE  faults' \in Nat /\ (faults > 0 => faults' > 0)
  BY SMTT(60) DEF Fails, WellTyped

\* A worker attempts its batch, and all, some or none of the rows land.
LEMMA AttemptStep ==
    ASSUME WriterInv, NEW w \in Workers, BatchSent(w) \/ BatchFailed(w)
    PROVE  WriterInv'
  <1>0. /\ WellTyped /\ Positions /\ SettledOnce /\ HeldOnce
        /\ Shutdown /\ ContextChosen /\ OnlyTheGuiltyFail
    BY DEF WriterInv
  <1>1. /\ at[w] = "sending"
        /\ UNCHANGED <<call, queue, batch, under, late, settled, user, start, ctxDone, drainExpired>>
    BY DEF BatchSent, BatchFailed, callVars, startVars
  <1>2. batch[w] \in Seq(Jobs) /\ Rows(w) \subseteq Jobs
    BY <1>0, SMTT(60) DEF WellTyped, Rows, Range
  <1>3. durable \subseteq durable' /\ durable' \subseteq Jobs
    BY <1>0, <1>2 DEF BatchSent, BatchFailed, WellTyped
  <1>4. faults' \in Nat /\ (faults > 0 => faults' > 0)
    <2>1. CASE BatchSent(w)
      BY <1>0, <2>1 DEF BatchSent, WellTyped
    <2>2. CASE BatchFailed(w)
      BY <1>0, <2>2, FailsCounts DEF BatchFailed
    <2>3. QED
      BY <2>1, <2>2
  <1>5. /\ at' = [at EXCEPT ![w] = at'[w]] /\ done' = [done EXCEPT ![w] = done'[w]]
        /\ done'[w] \in Nat
        /\ \/ at'[w] = "sending"
           \/ at'[w] = "isolating" /\ done'[w] = 0
           \/ at'[w] = "committing" /\ done'[w] = 0 /\ Rows(w) \subseteq durable'
    <2>1. CASE BatchSent(w)
      BY <1>0, <2>1 DEF BatchSent, WellTyped
    <2>2. CASE BatchFailed(w)
      BY <1>0, <2>2, SMTT(60) DEF BatchFailed, WellTyped
    <2>3. QED
      BY <2>1, <2>2
  <1>6. /\ at' \in [Workers -> {"receiving", "sending", "committing", "isolating", "exited"}]
        /\ done' \in [Workers -> Nat]
        /\ \A v \in Workers \ {w} : at'[v] = at[v] /\ done'[v] = done[v]
    BY <1>0, <1>5 DEF WellTyped
  <1>7. FlagsTyped'
    BY <1>0, <1>1 DEF WellTyped, FlagsTyped
  <1>8. WellTyped'
    BY <1>0, <1>1, <1>3, <1>4, <1>6, <1>7 DEF WellTyped
  <1>9. \A v \in Workers : batch'[v] = batch[v] /\ Unsettled(v)' = Unsettled(v)
    <2>1. DOMAIN batch[w] \subseteq Nat \ {0}
      BY <1>2, SMTT(60)
    <2>2. QED
      BY <1>1, <1>5, <1>6, <2>1, SMTT(60) DEF Unsettled
  <1>10. HeldOnce'
    BY <1>0, <1>1, <1>9, HeldOnceKept
  <1>11. Positions'
    <2>1. Len(batch[w]) > 0
      BY <1>0, <1>1, <1>2, SMTT(60) DEF Positions
    <2>2. \A i \in Unsettled(w) : batch[w][i] \in Rows(w)
      BY DEF Unsettled, Rows, Range
    <2>3. QED
      BY <1>0, <1>1, <1>3, <1>5, <1>6, <1>9, <2>1, <2>2, SMTT(60) DEF Positions
  <1>12. SettledOnce' /\ ContextChosen' /\ Shutdown'
    BY <1>0, <1>1, <1>5, <1>6, SMTT(60) DEF SettledOnce, ContextChosen, Shutdown, Closed
  <1>13. OnlyTheGuiltyFail'
    BY <1>0, <1>1, <1>4 DEF OnlyTheGuiltyFail
  <1>14. QED
    BY <1>8, <1>10, <1>11, <1>12, <1>13 DEF WriterInv

-----------------------------------------------------------------------------
\* The job whose callback a worker fires next.
Due(w) == batch[w][done[w] + 1]

\* The job of a worker's next callback is accepted and not settled.
LEMMA DueIsOwed ==
    ASSUME WriterInv, NEW w \in Workers, at[w] \in {"committing", "isolating"}
    PROVE  /\ done[w] \in Nat /\ done[w] + 1 \in Unsettled(w)
           /\ Due(w) \in Jobs /\ call[Due(w)] = "accepted" /\ settled[Due(w)] = <<>>
           /\ batch[w] \in Seq(Jobs) /\ Len(batch[w]) \in Nat
           /\ DOMAIN batch[w] = 1 .. Len(batch[w])
           /\ Unsettled(w) = done[w] + 1 .. Len(batch[w])
  <1>1. /\ done[w] \in Nat /\ batch[w] \in Seq(Jobs) /\ Len(batch[w]) \in Nat
        /\ DOMAIN batch[w] = 1 .. Len(batch[w]) /\ done[w] < Len(batch[w])
    BY SMTT(60) DEF WriterInv, WellTyped, Positions
  <1>2. done[w] + 1 \in Unsettled(w) /\ Unsettled(w) = done[w] + 1 .. Len(batch[w])
    BY <1>1, SMTT(60) DEF Unsettled
  <1>3. Due(w) \in Jobs
    BY <1>1, SMTT(60) DEF Due
  <1>4. Owed(Due(w))
    BY <1>2 DEF WriterInv, HeldOnce, Due
  <1>5. QED
    BY <1>1, <1>2, <1>3, <1>4 DEF Owed

\* Firing a callback moves the worker past one row, and touches no other worker.
LEMMA CommitEffect ==
    ASSUME WriterInv, NEW w \in Workers, at[w] \in {"committing", "isolating"},
           NEW ok \in BOOLEAN, Commit(w, ok)
    PROVE  /\ settled' = [settled EXCEPT ![Due(w)] = <<[ok |-> ok, late |-> late[w]]>>]
           /\ Unsettled(w)' = Unsettled(w) \ {done[w] + 1}
           /\ \A i \in Unsettled(w)' : batch'[w][i] = batch[w][i]
           /\ \/ at'[w] = "receiving"
              \/ at'[w] = at[w] /\ done'[w] < Len(batch'[w])
           /\ \A v \in Workers \ {w} :
                 batch'[v] = batch[v] /\ at'[v] = at[v] /\ done'[v] = done[v]
           /\ batch' \in [Workers -> Seq(Jobs)] /\ done' \in [Workers -> Nat]
           /\ at' \in [Workers -> {"receiving", "sending", "committing", "isolating", "exited"}]
           /\ UNCHANGED <<call, queue, under, late, user, start, ctxDone, drainExpired>>
  <1>0. WellTyped /\ settled[Due(w)] = <<>> /\ Due(w) \in Jobs
    BY DueIsOwed DEF WriterInv
  <1>1. UNCHANGED <<call, queue, under, late, user, start, ctxDone, drainExpired>>
    BY DEF Commit, callVars, startVars
  <1>2. settled' = [settled EXCEPT ![Due(w)] = <<[ok |-> ok, late |-> late[w]]>>]
    <2>1. settled' = [settled EXCEPT ![Due(w)] = Append(settled[Due(w)], [ok |-> ok, late |-> late[w]])]
      BY DEF Commit, Due
    <2>2. Append(<<>>, [ok |-> ok, late |-> late[w]]) = <<[ok |-> ok, late |-> late[w]]>>
      BY SMTT(60)
    <2>3. QED
      BY <1>0, <2>1, <2>2
  <1>3. CASE done[w] + 1 = Len(batch[w])
    <2>1. /\ batch' = [batch EXCEPT ![w] = <<>>] /\ at' = [at EXCEPT ![w] = "receiving"]
          /\ done' = [done EXCEPT ![w] = 0]
      BY <1>3 DEF Commit
    <2>2. /\ batch'[w] = <<>> /\ at'[w] = "receiving" /\ done'[w] = 0
          /\ \A v \in Workers \ {w} :
                batch'[v] = batch[v] /\ at'[v] = at[v] /\ done'[v] = done[v]
          /\ batch' \in [Workers -> Seq(Jobs)] /\ done' \in [Workers -> Nat]
          /\ at' \in [Workers -> {"receiving", "sending", "committing", "isolating", "exited"}]
      BY <1>0, <2>1, SMTT(60) DEF WellTyped
    <2>3. Unsettled(w)' = {} /\ Unsettled(w) = {done[w] + 1}
      BY <1>3, <2>2, DueIsOwed, SMTT(60) DEF Unsettled
    <2>4. QED
      BY <1>1, <1>2, <2>2, <2>3
  <1>4. CASE done[w] + 1 # Len(batch[w])
    <2>1. UNCHANGED <<batch, at>> /\ done' = [done EXCEPT ![w] = done[w] + 1]
      BY <1>4 DEF Commit
    <2>2. /\ done'[w] = done[w] + 1 /\ done' \in [Workers -> Nat]
          /\ \A v \in Workers \ {w} : done'[v] = done[v]
      BY <1>0, <2>1, SMTT(60) DEF WellTyped
    <2>3. Unsettled(w)' = Unsettled(w) \ {done[w] + 1}
      BY <2>1, <2>2, DueIsOwed, SMTT(60) DEF Unsettled
    <2>4. done'[w] < Len(batch'[w])
      BY <1>4, <2>1, <2>2, DueIsOwed, SMTT(60)
    <2>5. QED
      BY <1>0, <1>1, <1>2, <2>1, <2>2, <2>3, <2>4 DEF WellTyped
  <1>5. QED
    BY <1>3, <1>4

\* What the two ways of firing a callback have in common, and what they report.
LEMMA CallbackEffect ==
    ASSUME WriterInv, NEW w \in Workers, CommitSent(w) \/ IsolateRow(w)
    PROVE  /\ at[w] \in {"committing", "isolating"}
           /\ durable' \in {durable, durable \cup {Due(w)}}
           /\ faults' \in Nat /\ (faults > 0 => faults' > 0)
           /\ \E ok \in BOOLEAN :
                 /\ Commit(w, ok)
                 /\ ok => Due(w) \in durable'
                 /\ ~ok => Due(w) \in Poison \/ Dead(w) \/ faults' > 0
  <1>0. WellTyped /\ Positions
    BY DEF WriterInv
  <1>1. CASE CommitSent(w)
    <2>1. at[w] = "committing" /\ Commit(w, TRUE) /\ durable' = durable /\ faults' = faults
      BY <1>1 DEF CommitSent
    <2>2. Due(w) \in durable
      BY <1>0, <2>1, DueIsOwed DEF Positions, Due
    <2>3. QED
      BY <1>0, <2>1, <2>2 DEF WellTyped
  <1>2. CASE IsolateRow(w)
    <2>1. at[w] = "isolating"
      BY <1>2 DEF IsolateRow
    <2>2. CASE /\ durable' = durable \cup {Due(w)} /\ Commit(w, TRUE) /\ UNCHANGED faults
      BY <1>0, <2>1, <2>2 DEF WellTyped
    <2>3. CASE /\ Fails(w, {Due(w)}) /\ Commit(w, FALSE)
               /\ durable' \in {durable, durable \cup {Due(w)}}
      <3>1. Due(w) \in Poison \/ Dead(w) \/ faults' > 0
        BY <1>0, <2>3, SMTT(60) DEF Fails, WellTyped
      <3>2. QED
        BY <1>0, <2>1, <2>3, <3>1, FailsCounts
    <2>4. QED
      BY <1>2, <2>2, <2>3 DEF IsolateRow, Due
  <1>3. QED
    BY <1>1, <1>2

\* A worker fires a callback.
LEMMA CallbackStep ==
    ASSUME WriterInv, NEW w \in Workers, CommitSent(w) \/ IsolateRow(w)
    PROVE  WriterInv'
  <1>0. /\ WellTyped /\ Positions /\ SettledOnce /\ HeldOnce
        /\ Shutdown /\ ContextChosen /\ OnlyTheGuiltyFail
    BY DEF WriterInv
  <1>1. /\ at[w] \in {"committing", "isolating"}
        /\ durable' \in {durable, durable \cup {Due(w)}}
        /\ faults' \in Nat /\ (faults > 0 => faults' > 0)
    BY CallbackEffect
  <1>2. PICK ok \in BOOLEAN :
          Commit(w, ok) /\ (~ok => Due(w) \in Poison \/ Dead(w) \/ faults' > 0)
    BY CallbackEffect
  <1> DEFINE outcome == [ok |-> ok, late |-> late[w]]
  <1>3. /\ Due(w) \in Jobs /\ call[Due(w)] = "accepted" /\ settled[Due(w)] = <<>>
        /\ done[w] + 1 \in Unsettled(w)
    BY <1>1, DueIsOwed
  <1>4. /\ settled' = [settled EXCEPT ![Due(w)] = <<outcome>>]
        /\ UNCHANGED <<call, queue, under, late, user, start, ctxDone, drainExpired>>
    BY <1>1, <1>2, CommitEffect
  <1>5. /\ Unsettled(w)' = Unsettled(w) \ {done[w] + 1}
        /\ \A i \in Unsettled(w)' : batch'[w][i] = batch[w][i]
        /\ \A v \in Workers \ {w} :
              batch'[v] = batch[v] /\ at'[v] = at[v] /\ done'[v] = done[v]
    BY <1>1, <1>2, CommitEffect, SMTT(60)
  <1>6. /\ \/ at'[w] = "receiving"
           \/ at'[w] = at[w] /\ done'[w] < Len(batch'[w])
        /\ batch' \in [Workers -> Seq(Jobs)] /\ done' \in [Workers -> Nat]
        /\ at' \in [Workers -> {"receiving", "sending", "committing", "isolating", "exited"}]
    BY <1>1, <1>2, CommitEffect
  <1>7. \A v \in Workers \ {w} : Unsettled(v)' = Unsettled(v)
    BY <1>5, UnsettledKept
  <1>8. WellTyped'
    <2>1. FlagsTyped' /\ late[w] \in BOOLEAN
      BY <1>0, <1>4 DEF WellTyped, FlagsTyped
    <2>2. outcome \in Outcome
      BY <2>1 DEF Outcome
    <2>3. <<outcome>> \in Seq(Outcome)
      <3> HIDE DEF outcome
      <3>1. QED
        BY <2>2, SMTT(60)
    <2>4. settled' \in [Jobs -> Seq(Outcome)]
      <3> HIDE DEF outcome
      <3>1. QED
        BY <1>0, <1>4, <2>3 DEF WellTyped
    <2>5. durable' \subseteq Jobs
      BY <1>0, <1>1, <1>3 DEF WellTyped
    <2>6. QED
      BY <1>0, <1>1, <1>4, <1>6, <2>1, <2>4, <2>5 DEF WellTyped
  <1>9. Positions'
    <2> SUFFICES ASSUME NEW v \in Workers
                 PROVE  /\ at'[v] = "sending" => batch'[v] # <<>>
                        /\ at'[v] \in {"committing", "isolating"} => done'[v] < Len(batch'[v])
                        /\ at'[v] = "committing" => \A i \in Unsettled(v)' : batch'[v][i] \in durable'
                        /\ at'[v] = "exited" => batch'[v] = <<>>
      BY DEF Positions
    <2>1. CASE v = w
      BY <1>0, <1>1, <1>5, <1>6, <2>1 DEF Positions
    <2>2. CASE v # w
      BY <1>0, <1>1, <1>5, <1>7, <2>2, SMTT(60) DEF Positions
    <2>3. QED
      BY <2>1, <2>2
  <1>10. \A j \in Jobs : settled'[j] = IF j = Due(w) THEN <<outcome>> ELSE settled[j]
    BY <1>0, <1>4 DEF WellTyped
  <1>11. SettledOnce'
    <2>1. Len(<<outcome>>) <= 1
      BY SMTT(60)
    <2>2. QED
      BY <1>0, <1>3, <1>4, <1>10, <2>1 DEF SettledOnce
  <1>12. Shutdown' /\ ContextChosen'
    BY <1>0, <1>1, <1>4, <1>5, <1>6 DEF Shutdown, Closed, ContextChosen
  <1>13. OnlyTheGuiltyFail'
    <2> SUFFICES ASSUME NEW j \in Jobs, NEW i \in DOMAIN settled'[j]
                 PROVE  \/ settled'[j][i].ok \/ j \in Poison \/ faults' > 0
                        \/ IF settled'[j][i].late THEN drainExpired' ELSE ctxDone'
      BY DEF OnlyTheGuiltyFail
    <2>1. CASE j # Due(w)
      BY <1>0, <1>1, <1>4, <1>10, <2>1 DEF OnlyTheGuiltyFail
    <2>2. CASE j = Due(w)
      <3>1. settled'[j][i].ok = ok /\ settled'[j][i].late = late[w]
        BY <1>10, <2>2, SMTT(60)
      <3>2. Dead(w) => IF late[w] THEN drainExpired ELSE ctxDone
        BY <1>0 DEF Dead, ContextChosen
      <3>3. QED
        BY <1>2, <1>4, <2>2, <3>1, <3>2
    <2>3. QED
      BY <2>1, <2>2
  <1>14. HeldOnce'
    <2>a. \A i \in DOMAIN queue : Owed(queue[i]) /\ queue[i] # Due(w)
      BY <1>0, <1>3, SMTT(60) DEF HeldOnce, Due
    <2>b. \A v \in Workers : \A i \in Unsettled(v)' :
             i \in Unsettled(v) /\ batch'[v][i] = batch[v][i]
      BY <1>5, <1>7
    <2>c. \A v \in Workers : \A i \in Unsettled(v)' : Owed(batch[v][i]) /\ batch[v][i] # Due(w)
      BY <1>0, <1>3, <1>5, <1>7, SMTT(60) DEF HeldOnce, Due
    <2>d. \A v \in Workers : \A i \in Unsettled(v) : batch[v][i] # Due(w) => i \in Unsettled(v)'
      BY <1>5, <1>7 DEF Due
    <2>e. \A v \in Workers : \A i \in Unsettled(v) : batch[v][i] \in Jobs
      BY <1>0, SMTT(60) DEF WellTyped, Unsettled
    <2>f. \A i \in DOMAIN queue : queue[i] \in Jobs
      BY <1>0, SMTT(60) DEF WellTyped
    <2>1. (\A i \in DOMAIN queue : Owed(queue[i]))'
      BY <1>4, <1>10, <2>a, <2>f DEF Owed
    <2>2. (\A v \in Workers : \A i \in Unsettled(v) : Owed(batch[v][i]))'
      BY <1>4, <1>10, <2>b, <2>c, <2>e, SMTT(60) DEF Owed
    <2>3. (\A i, k \in DOMAIN queue : queue[i] = queue[k] => i = k)'
      BY <1>0, <1>4 DEF HeldOnce
    <2>4. (\A u, v \in Workers : \A i \in Unsettled(u), k \in Unsettled(v) :
             batch[u][i] = batch[v][k] => u = v /\ i = k)'
      BY <1>0, <2>b, SMTT(60) DEF HeldOnce
    <2>5. (\A i \in DOMAIN queue : \A v \in Workers : \A k \in Unsettled(v) : queue[i] # batch[v][k])'
      BY <1>0, <1>4, <2>b, SMTT(60) DEF HeldOnce
    <2>6. ASSUME NEW q \in Jobs, Owed(q)'
          PROVE  \/ \E i \in DOMAIN queue' : queue'[i] = q
                 \/ \E v \in Workers : \E i \in Unsettled(v)' : batch'[v][i] = q
      <3>1. q # Due(w)
        BY <1>10, <2>6, SMTT(60) DEF Owed
      <3>2. Owed(q)
        BY <1>4, <1>10, <2>6, <3>1 DEF Owed
      <3>3. \/ \E i \in DOMAIN queue : queue[i] = q
            \/ \E v \in Workers : \E i \in Unsettled(v) : batch[v][i] = q
        BY <1>0, <3>2 DEF HeldOnce
      <3>4. QED
        BY <1>4, <2>b, <2>d, <3>1, <3>3
    <2>7. QED
      BY <2>1, <2>2, <2>3, <2>4, <2>5, <2>6 DEF HeldOnce
  <1>15. QED
    BY <1>8, <1>9, <1>11, <1>12, <1>13, <1>14 DEF WriterInv

\* The users of the connection, the timers and Start.
LEMMA EnvironmentStep ==
    ASSUME WriterInv, (\E u \in Users : BeginUse(u) \/ EndUse(u)) \/ Cancel \/ ExpireDrain \/ Start
    PROVE  WriterInv'
  <1>0. /\ WellTyped /\ Positions /\ SettledOnce /\ HeldOnce
        /\ Shutdown /\ ContextChosen /\ OnlyTheGuiltyFail
    BY DEF WriterInv
  <1>1. UNCHANGED <<call, queue, batch, at, done, under, late, settled, durable, faults>>
    BY DEF BeginUse, EndUse, Cancel, ExpireDrain, Start, StopAccepting, CloseJobs, AwaitWorkers,
           CloseConn, StartMoves, callVars, workerVars, rowVars
  <1>2. \A v \in Workers : batch'[v] = batch[v] /\ Unsettled(v)' = Unsettled(v)
    BY <1>1, UnsettledKept
  <1>3. HeldOnce'
    BY <1>0, <1>1, <1>2, HeldOnceKept
  <1>4. Positions' /\ SettledOnce' /\ ContextChosen'
    BY <1>0, <1>1, <1>2 DEF Positions, SettledOnce, ContextChosen
  <1>5. /\ (ctxDone => ctxDone') /\ (drainExpired => drainExpired')
        /\ ctxDone' \in BOOLEAN /\ drainExpired' \in BOOLEAN
    BY <1>0 DEF WellTyped, FlagsTyped, BeginUse, EndUse, Cancel, ExpireDrain, Start, StopAccepting,
           CloseJobs, AwaitWorkers, CloseConn, StartMoves
  <1>6. /\ user' \in [Users -> {"idle", "using"}]
        /\ start' \in {"running", "closing", "draining", "workersGone", "stopped"}
    BY <1>0 DEF WellTyped, BeginUse, EndUse, Cancel, ExpireDrain, Start, StopAccepting,
           CloseJobs, AwaitWorkers, CloseConn, StartMoves
  <1>7. FlagsTyped'
    BY <1>0, <1>1, <1>5 DEF WellTyped, FlagsTyped
  <1>8. WellTyped'
    BY <1>0, <1>1, <1>6, <1>7 DEF WellTyped
  <1>9. OnlyTheGuiltyFail'
    BY <1>0, <1>1, <1>5 DEF OnlyTheGuiltyFail
  <1>10. Shutdown'
    <2>1. CASE \E u \in Users : BeginUse(u)
      BY <1>0, <1>1, <2>1 DEF BeginUse, Closing, Closed, Shutdown, WellTyped
    <2>2. CASE \E u \in Users : EndUse(u)
      BY <1>0, <1>1, <2>2 DEF EndUse, Closed, Shutdown, WellTyped
    <2>3. CASE Cancel \/ ExpireDrain
      BY <1>0, <1>1, <2>3 DEF Cancel, ExpireDrain, Closed, Shutdown
    <2>4. CASE Start
      BY <1>0, <1>1, <2>4 DEF Start, StopAccepting, CloseJobs, AwaitWorkers, CloseConn, StartMoves,
             Closed, Shutdown
    <2>5. QED
      BY <2>1, <2>2, <2>3, <2>4
  <1>11. QED
    BY <1>3, <1>4, <1>8, <1>9, <1>10 DEF WriterInv

\* Every step of the writer preserves the invariant.
LEMMA WriterStep == WriterInv /\ [Next]_vars => WriterInv'
  <1> SUFFICES ASSUME WriterInv, [Next]_vars PROVE WriterInv'
    OBVIOUS
  <1>1. CASE UNCHANGED vars
    <2>0. /\ WellTyped /\ Positions /\ SettledOnce /\ HeldOnce
          /\ Shutdown /\ ContextChosen /\ OnlyTheGuiltyFail
      BY DEF WriterInv
    <2>1. UNCHANGED <<call, queue, batch, at, done, under, late, settled, durable, faults, user,
                      start, ctxDone, drainExpired>>
      BY <1>1 DEF vars, callVars, workerVars, rowVars, startVars
    <2>2. \A w \in Workers : batch'[w] = batch[w] /\ Unsettled(w)' = Unsettled(w)
      BY <2>1, UnsettledKept
    <2>3. HeldOnce'
      BY <2>0, <2>1, <2>2, HeldOnceKept
    <2>4. WellTyped'
      BY <2>0, <2>1 DEF WellTyped, FlagsTyped
    <2>5. Positions' /\ SettledOnce'
      BY <2>0, <2>1, <2>2 DEF Positions, SettledOnce
    <2>6. Shutdown' /\ ContextChosen' /\ OnlyTheGuiltyFail'
      BY <2>0, <2>1 DEF Shutdown, Closed, ContextChosen, OnlyTheGuiltyFail
    <2>7. QED
      BY <2>3, <2>4, <2>5, <2>6 DEF WriterInv
  <1>2. CASE \E w \in Workers : Worker(w)
    BY <1>2, ReceiveStep, FlushStep, AttemptStep, CallbackStep DEF Worker
  <1>3. QED
    BY <1>1, <1>2, EnqueueStep, EnvironmentStep DEF Next

\* The invariant holds throughout.
THEOREM WriterIsSound == Spec => []WriterInv
  BY WriterInit, WriterStep, PTL DEF Spec

\* An accepted job is in exactly one place until its callback fires, and nowhere
\* afterwards (Enqueue, worker, flushBatch).
THEOREM JobsAreHeldOnce == Spec => []HeldOnce
  <1>1. WriterInv => HeldOnce
    BY DEF WriterInv
  <1>2. QED
    BY <1>1, WriterIsSound, PTL

\* One bad row does not doom its batch-mates, and a job flushed after the shutdown
\* began has a genuine chance (flushBatch's isolation phase, attemptContext).
THEOREM OthersDoNotFail == Spec => []OnlyTheGuiltyFail
  <1>1. WriterInv => OnlyTheGuiltyFail
    BY DEF WriterInv
  <1>2. QED
    BY <1>1, WriterIsSound, PTL

\* No send meets a closed channel, and the connection is closed last (Start).
THEOREM ConnectionClosedLast == Spec => []ClosedLast
  <1>1. WriterInv => ClosedLast
    <2>1. PICK w \in Workers : TRUE
      BY CHWriterAssumption
    <2>2. QED
      BY <2>1 DEF WriterInv, Shutdown, Positions, ClosedLast
  <1>2. QED
    BY <1>1, WriterIsSound, PTL

-----------------------------------------------------------------------------
\* The refinement: what each step does to a job's fate.

Fates == [j \in Jobs |-> Fate(j)]

\* A job's fate depends on its own call and its own callback.
LEMMA FateKept ==
    ASSUME NEW j \in Jobs, call'[j] = call[j], settled'[j] = settled[j]
    PROVE  Fate(j)' = Fate(j)
  BY DEF Fate, Owed

\* When one job's fate changes the others keep theirs.
LEMMA OneFateChanges ==
    ASSUME NEW j \in Jobs, \A q \in Jobs \ {j} : Fate(q)' = Fate(q)
    PROVE  Fates' = [Fates EXCEPT ![j] = Fate(j)']
  BY DEF Fates

\* An owed job's fate is that it was accepted.
LEMMA OwedIsAccepted ==
    ASSUME NEW j \in Jobs, Owed(j)
    PROVE  Fate(j) = "accepted"
  BY DEF Fate, Owed

\* Every step of the writer is a step of the contract or leaves it alone.
LEMMA StepKeepsContract ==
    ASSUME WriterInv, [Next]_vars
    PROVE  [Contract!Next]_(Contract!vars)
  <1>0. WellTyped /\ SettledOnce /\ HeldOnce
    BY DEF WriterInv
  <1>u. ASSUME UNCHANGED <<call, settled>> PROVE Fates' = Fates
    BY <1>u, FateKept DEF Fates
  <1>s. ASSUME UNCHANGED <<call, settled, durable>> PROVE UNCHANGED Contract!vars
    BY <1>s, <1>u DEF Contract!vars, Fates
  <1>1. ASSUME NEW j \in Jobs, Enqueue(j)
        PROVE  Contract!Next \/ UNCHANGED Contract!vars
    <2>1. durable' = durable /\ settled' = settled /\ \A q \in Jobs \ {j} : call'[q] = call[q]
      BY <1>0, <1>1 DEF Enqueue, BeginEnqueue, SendJob, GiveUpEnqueue, rowVars, WellTyped
    <2>2. /\ call[j] \in {"idle", "sending"} /\ call'[j] \in {"sending", "accepted", "refused"}
          /\ settled[j] = <<>>
      BY <1>0, <1>1 DEF Enqueue, BeginEnqueue, SendJob, GiveUpEnqueue, WellTyped, SettledOnce
    <2>3. Fates' = [Fates EXCEPT ![j] = Fate(j)']
      BY <2>1, FateKept, OneFateChanges
    <2>4. Fate(j) = "new" /\ Fates[j] = "new"
      BY <2>2 DEF Fate, Owed, Fates
    <2>5. CASE call'[j] = "sending"
      <3>1. Fate(j)' = "new"
        BY <2>1, <2>2, <2>5 DEF Fate, Owed
      <3>2. Fates' = Fates
        BY <2>3, <2>4, <3>1 DEF Fates
      <3>3. QED
        BY <2>1, <3>2 DEF Contract!vars, Fates
    <2>6. CASE call'[j] \in {"accepted", "refused"}
      <3>1. Fate(j)' = call'[j]
        BY <2>1, <2>2, <2>6 DEF Fate, Owed
      <3>2. Contract!Answer(j, call'[j])
        BY <2>1, <2>3, <2>4, <3>1 DEF Contract!Answer, Fates
      <3>3. QED
        BY <2>6, <3>2 DEF Contract!Next
    <2>7. QED
      BY <2>2, <2>5, <2>6
  <1>2. ASSUME NEW w \in Workers, BatchSent(w) \/ BatchFailed(w)
        PROVE  Contract!Next
    <2>1. UNCHANGED <<call, settled>> /\ at[w] = "sending"
      BY <1>2 DEF BatchSent, BatchFailed, callVars
    <2>2. \A j \in Rows(w) : j \in Jobs /\ Owed(j)
      <3>1. Unsettled(w) = DOMAIN batch[w] /\ batch[w] \in Seq(Jobs)
        BY <1>0, <2>1 DEF Unsettled, WellTyped
      <3>2. QED
        BY <1>0, <3>1, SMTT(60) DEF HeldOnce, Rows, Range
    <2>3. \A j \in Rows(w) : j \in Jobs /\ Fates[j] = "accepted"
      BY <2>2, OwedIsAccepted DEF Fates
    <2>4. PICK landed \in SUBSET Rows(w) : durable' = durable \cup landed
      BY <1>2 DEF BatchSent, BatchFailed
    <2>5. Contract!Land(landed)
      BY <1>u, <2>1, <2>3, <2>4 DEF Contract!Land, Fates
    <2>6. landed \in SUBSET Jobs
      BY <2>3, <2>4
    <2>7. QED
      BY <2>5, <2>6 DEF Contract!Next
  <1>3. ASSUME NEW w \in Workers, CommitSent(w) \/ IsolateRow(w)
        PROVE  Contract!Next
    <2>1. /\ at[w] \in {"committing", "isolating"}
          /\ durable' \in {durable, durable \cup {Due(w)}}
      BY <1>3, CallbackEffect
    <2>2. PICK ok \in BOOLEAN : Commit(w, ok) /\ (ok => Due(w) \in durable')
      BY <1>3, CallbackEffect
    <2>3. /\ settled' = [settled EXCEPT ![Due(w)] = <<[ok |-> ok, late |-> late[w]]>>]
          /\ call' = call
      BY <2>1, <2>2, CommitEffect
    <2>4. PICK j \in Jobs : j = Due(w) /\ Owed(j)
      BY <2>1, DueIsOwed DEF Owed
    <2> DEFINE outcome == IF ok THEN "ok" ELSE "failed"
    <2>5. settled'[j] = <<[ok |-> ok, late |-> late[w]]>> /\ \A q \in Jobs \ {j} : settled'[q] = settled[q]
      BY <1>0, <2>3, <2>4 DEF WellTyped
    <2>6. Fates' = [Fates EXCEPT ![j] = Fate(j)']
      BY <2>3, <2>5, FateKept, OneFateChanges
    <2>7. Fate(j)' = outcome
      <3>1. settled'[j] # <<>> /\ Len(settled'[j]) = 1 /\ (settled'[j][1].ok <=> ok)
        BY <2>5, SMTT(60)
      <3>2. QED
        BY <3>1, SMTT(60) DEF Fate, Owed
    <2>8. Fates[j] = "accepted"
      BY <2>4, OwedIsAccepted DEF Fates
    <2>9. durable' \in {durable, durable \cup {j}} /\ (outcome = "ok" => j \in durable')
      BY <2>1, <2>2, <2>4
    <2>10. Contract!Settle(j, outcome)
      BY <2>6, <2>7, <2>8, <2>9 DEF Contract!Settle, Fates
    <2>11. QED
      BY <2>10 DEF Contract!Next
  <1>4. CASE UNCHANGED vars
    BY <1>4, <1>s DEF vars, callVars, rowVars
  <1>5. ASSUME NEW w \in Workers, Receive(w) \/ BatchMaxWaitElapses(w) \/ ChannelClosed(w)
        PROVE  UNCHANGED Contract!vars
    <2>1. UNCHANGED <<call, settled, durable>>
      BY <1>5 DEF Receive, BatchMaxWaitElapses, ChannelClosed, callVars, rowVars
    <2>2. QED
      BY <1>s, <2>1
  <1>6. CASE (\E u \in Users : BeginUse(u) \/ EndUse(u)) \/ Cancel \/ ExpireDrain \/ Start
    <2>1. UNCHANGED <<call, settled, durable>>
      BY <1>6 DEF BeginUse, EndUse, Cancel, ExpireDrain, Start, StopAccepting, CloseJobs,
             AwaitWorkers, CloseConn, StartMoves, callVars, rowVars
    <2>2. QED
      BY <1>s, <2>1
  <1>7. QED
    BY <1>1, <1>2, <1>3, <1>4, <1>5, <1>6 DEF Next, Worker

\* The writer keeps the sink's contract: every commit callback fires at most once,
\* for accepted jobs only, and reports success only of a durable row (flushBatch:
\* "Every commit callback fires exactly once per job across all paths").
THEOREM WriterKeepsContract == Spec => KeepsContract
  <1>1. Init => Contract!Init
    BY SMTT(60) DEF Init, Contract!Init, Fate, Owed
  <1>2. WriterInv /\ [Next]_vars => [Contract!Next]_(Contract!vars)
    BY StepKeepsContract
  <1>3. QED
    BY <1>1, <1>2, WriterIsSound, PTL DEF Spec, KeepsContract, Contract!Spec
=============================================================================
