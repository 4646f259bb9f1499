--------------------------- MODULE WarmCoordinator ---------------------------
(***************************************************************************)
(* The lifecycle of warm runs and the boot reconciliation of scope epochs, *)
(* WarmCoordinator of internal/pipeline/warm.go, for one sink.             *)
(*                                                                         *)
(* The watch manager's loop starts and stops scopes, each start an epoch   *)
(* stamped at the beginning of the pass that installs it; the recorder     *)
(* writes the transitions to the scope log and calls WarmScope and         *)
(* StopScope; runs are goroutines of their own; the boot pass closes what  *)
(* an earlier process left open.  What a run reads and writes between its  *)
(* seed and its end is the matter of module Warm.                          *)
(***************************************************************************)
EXTENDS Naturals, Sequences, FiniteSets

CONSTANTS
    Scopes,
    MaxEpochs,   \* bound: starts of scopes
    MaxForgets,  \* bound: times the sink is deleted and created again
    MaxFails     \* bound: boot passes that fail half way

VARIABLES
    life,      \* ctx and stopped: "unset", "running", "stopping" or "ended"
    pending,   \* requests from before Start
    runs,      \* the epoch whose run is registered for a scope, 0 when there is none
    gor,       \* the goroutines
    served,    \* the manager's view: the epoch of a scope, 0 when it is not desired
    pass,      \* the manager's pass over one scope
    warmed,      \* scopes marked warm in the pipeline
    reader,    \* the sink: "away", "live" or "writeOnly"
    settled,   \* the Settled channel is closed
    boot,      \* the boot pass
    bootDone,
    owed,      \* the recorder's queue
    log,       \* per scope the row of the scope log with the greatest timestamp
    forget,    \* ForgetSink is still to be called for a sink that is gone
    now, epochs, forgets, fails

coordVars == <<life, pending, runs, gor>>
manVars == <<served, pass, epochs>>
bootVars == <<boot, bootDone, fails>>
logVars == <<owed, log>>
lifeVars == <<coordVars, manVars, warmed, reader, settled, bootVars, logVars, now, forgets, forget>>

Idle == [at |-> "idle"]

CoordTypeOK ==
    /\ runs \in [Scopes -> 0 .. now] /\ served \in [Scopes -> 0 .. now]
    /\ \A g \in gor : g.scope \in Scopes /\ g.at \in {"seed", "mark", "reconcile"}
    /\ pass.at \in {"idle", "replace", "start", "stop", "evict"}
    /\ boot.at \in {"idle", "check", "stamp"}
    /\ life \in {"unset", "ended"} => gor = {}

CoordInit ==
    /\ life = "unset" /\ pending = {} /\ runs = [s \in Scopes |-> 0] /\ gor = {}
    /\ served = [s \in Scopes |-> 0] /\ pass = Idle /\ epochs = 0
    /\ warmed = {} /\ reader \in {"away", "live", "writeOnly"} /\ settled = FALSE
    /\ boot = Idle /\ bootDone = FALSE /\ fails = 0
    /\ owed = <<>>
    /\ log \in [Scopes -> {[act |-> a, ts |-> 0] : a \in {"Started", "Stopped"}}]
    /\ now = 0 /\ forgets = 0 /\ forget = FALSE

Desired(s) == served[s] # 0

\* The scope's interest is out of the table and its run is still to be told.
Stopping(s) == pass.at = "stop" /\ pass.scope = s

-----------------------------------------------------------------------------
\* WarmScope, StopScope, ForgetSink and startLocked, as functions of the
\* coordinator's variables.
Goroutine(s, e) == [scope |-> s, epoch |-> e, cancelled |-> FALSE, at |-> "seed"]

Cancelled(which) == {IF g.scope \in which THEN [g EXCEPT !.cancelled = TRUE] ELSE g : g \in gor}

StartLocked(s, e) ==
    IF runs[s] >= e THEN UNCHANGED <<runs, gor>>
    ELSE /\ runs' = [runs EXCEPT ![s] = e]
         /\ gor' = Cancelled({s}) \cup {Goroutine(s, e)}

WarmScope(s, e) ==
    CASE life = "unset"   -> pending' = pending \cup {[scope |-> s, epoch |-> e]} /\ UNCHANGED <<runs, gor>>
      [] life = "running" -> StartLocked(s, e) /\ UNCHANGED pending
      [] OTHER            -> UNCHANGED <<pending, runs, gor>>

\* Mutant: the goroutine of a stopped scope goes on.
StopScopeForgetful(s) ==
    /\ runs' = [runs EXCEPT ![s] = 0]
    /\ pending' = {p \in pending : p.scope # s}
    /\ UNCHANGED gor

StopScope(s) ==
    /\ gor' = Cancelled({s})
    /\ runs' = [runs EXCEPT ![s] = 0]
    /\ pending' = {p \in pending : p.scope # s}

\* Start: what was held back is started.  Of several requests for a scope the one
\* with the greatest epoch survives.
Start ==
    /\ life = "unset"
    /\ life' = "running"
    /\ pending' = {}
    /\ LET newest == {p \in pending : \A q \in pending : q.scope = p.scope => q.epoch <= p.epoch}
       IN  /\ gor' = {[Goroutine(p.scope, p.epoch) EXCEPT !.cancelled = p \notin newest] : p \in pending}
           /\ runs' = [s \in Scopes |->
                         IF \E p \in newest : p.scope = s
                         THEN (CHOOSE p \in newest : p.scope = s).epoch ELSE 0]
    /\ UNCHANGED <<manVars, warmed, reader, settled, bootVars, logVars, now, forgets, forget>>

\* Start returns: every run is cancelled.
Stop ==
    /\ life = "running"
    /\ life' = "stopping"
    /\ boot' = Idle
    /\ gor' = Cancelled(Scopes)
    /\ runs' = [s \in Scopes |-> 0]
    /\ UNCHANGED <<pending, manVars, warmed, reader, settled, bootDone, fails, logVars, now, forgets, forget>>

\* wg.Wait
Ended ==
    /\ life = "stopping" /\ gor = {}
    /\ life' = "ended"
    /\ UNCHANGED <<pending, runs, gor, manVars, warmed, reader, settled, bootVars, logVars, now, forgets, forget>>

-----------------------------------------------------------------------------
\* The watch manager's reconcilePool for one scope: the pass is stamped, then the
\* interests are installed, then the recorder is told, and a stopped scope evicted.
BeginPass(s) ==
    /\ pass = Idle
    /\ Desired(s) \/ epochs < MaxEpochs
    /\ now' = now + 1
    /\ pass' = [at |-> "replace", scope |-> s, ts |-> now + 1]
    /\ epochs' = IF Desired(s) THEN epochs ELSE epochs + 1
    /\ UNCHANGED <<coordVars, served, warmed, reader, settled, bootVars, logVars, forgets, forget>>

\* table.replace
Replace ==
    /\ pass.at = "replace"
    /\ served' = [served EXCEPT ![pass.scope] = IF Desired(pass.scope) THEN 0 ELSE pass.ts]
    /\ pass' = [pass EXCEPT !.at = IF Desired(pass.scope) THEN "stop" ELSE "start"]
    /\ UNCHANGED <<coordVars, epochs, warmed, reader, settled, bootVars, logVars, now, forgets, forget>>

ScopeStarted ==
    /\ pass.at = "start"
    /\ owed' = Append(owed, [scope |-> pass.scope, act |-> "Started", ts |-> pass.ts])
    /\ WarmScope(pass.scope, pass.ts)
    /\ pass' = Idle
    /\ UNCHANGED <<life, served, epochs, warmed, reader, settled, bootVars, log, now, forgets, forget>>

ScopeStopped ==
    /\ pass.at = "stop"
    /\ owed' = Append(owed, [scope |-> pass.scope, act |-> "Stopped", ts |-> pass.ts])
    /\ StopScope(pass.scope)
    /\ pass' = [pass EXCEPT !.at = "evict"]
    /\ UNCHANGED <<life, served, epochs, warmed, reader, settled, bootVars, log, now, forgets, forget>>

EvictScope ==
    /\ pass.at = "evict"
    /\ warmed' = warmed \ {pass.scope}
    /\ pass' = Idle
    /\ UNCHANGED <<coordVars, served, epochs, reader, settled, bootVars, logVars, now, forgets, forget>>

\* The desired state has been quiet for the settle period.
Settle ==
    /\ ~settled /\ pass = Idle
    /\ settled' = TRUE
    /\ UNCHANGED <<coordVars, manVars, warmed, reader, bootVars, logVars, now, forgets, forget>>

-----------------------------------------------------------------------------
\* One step of a run.  A cancelled run notices it before it reads, and after it is
\* marked; MarkScopeWarm itself asks nobody.
RunStep(g) ==
    /\ UNCHANGED <<life, pending, runs, manVars, reader, settled, bootVars, logVars, now, forgets, forget>>
    /\ \/ /\ g.cancelled /\ g.at \in {"seed", "reconcile"}
          /\ gor' = gor \ {g} /\ UNCHANGED warmed
       \/ /\ ~g.cancelled /\ g.at = "seed" /\ reader = "live"
          /\ gor' = (gor \ {g}) \cup {[g EXCEPT !.at = "mark"]} /\ UNCHANGED warmed
       \/ /\ ~g.cancelled /\ g.at = "seed" /\ reader = "writeOnly"
          /\ gor' = gor \ {g} /\ UNCHANGED warmed
       \/ /\ g.at = "mark"
          /\ warmed' = warmed \cup {g.scope}
          /\ gor' = (gor \ {g}) \cup {[g EXCEPT !.at = "reconcile"]}
       \/ /\ ~g.cancelled /\ g.at = "reconcile"
          /\ gor' = gor \ {g} /\ UNCHANGED warmed

-----------------------------------------------------------------------------
LandRows(s, act, ts) == IF ts >= log[s].ts THEN [log EXCEPT ![s] = [act |-> act, ts |-> ts]] ELSE log

\* The recorder hands its oldest event over.
Flush ==
    /\ owed # <<>> /\ reader # "away"
    /\ log' = LET e == Head(owed) IN LandRows(e.scope, e.act, e.ts)
    /\ owed' = Tail(owed)
    /\ UNCHANGED <<coordVars, manVars, warmed, reader, settled, bootVars, now, forgets, forget>>

\* The scopes the log shows as open.
ActiveScopes == {s \in Scopes : log[s].act = "Started"}

BootRuns == life = "running" /\ settled

\* Mutant: a pass over scopes an earlier process left open is not made.
BootReadNothing ==
    /\ BootRuns /\ boot = Idle /\ ~bootDone /\ reader # "away"
    /\ boot' = [at |-> "check", todo |-> {}, inst |-> forgets]
    /\ UNCHANGED <<coordVars, manVars, warmed, reader, settled, bootDone, fails, logVars, now, forgets, forget>>

\* reconcileScopeEpochs, closeOrphanedScopes: the scopes the log shows as open.
BootRead ==
    /\ BootRuns /\ boot = Idle /\ ~bootDone /\ reader # "away"
    /\ boot' = [at |-> "check", inst |-> forgets,
                todo |-> IF reader = "live" THEN ActiveScopes ELSE {}]
    /\ UNCHANGED <<coordVars, manVars, warmed, reader, settled, bootDone, fails, logVars, now, forgets, forget>>

BootCheck(s) ==
    /\ boot.at = "check" /\ s \in boot.todo
    /\ boot' = IF Desired(s) THEN [boot EXCEPT !.todo = @ \ {s}]
               ELSE [at |-> "stamp", inst |-> boot.inst, todo |-> boot.todo \ {s}, scope |-> s]
    /\ UNCHANGED <<coordVars, manVars, warmed, reader, settled, bootDone, fails, logVars, now, forgets, forget>>

\* The Stopped row goes to the instance the pass began with.
BootStamp ==
    /\ boot.at = "stamp" /\ boot.inst = forgets
    /\ now' = now + 1
    /\ log' = LandRows(boot.scope, "Stopped", now + 1)
    /\ boot' = [at |-> "check", inst |-> boot.inst, todo |-> boot.todo]
    /\ UNCHANGED <<coordVars, manVars, warmed, reader, settled, bootDone, fails, owed, forgets, forget>>

\* The hand-over fails, as it does when the instance is gone: the sink is left
\* unmarked and tried again.
BootFails ==
    /\ boot.at = "stamp"
    /\ boot.inst = forgets => fails < MaxFails
    /\ fails' = IF boot.inst = forgets THEN fails + 1 ELSE fails
    /\ boot' = Idle
    /\ UNCHANGED <<coordVars, manVars, warmed, reader, settled, bootDone, logVars, now, forgets, forget>>

MarkBootReconciled ==
    /\ boot.at = "check" /\ boot.todo = {}
    /\ bootDone' = TRUE
    /\ boot' = Idle
    /\ UNCHANGED <<coordVars, manVars, warmed, reader, settled, fails, logVars, now, forgets, forget>>

Boot == BootRead \/ (\E s \in Scopes : BootCheck(s)) \/ BootStamp \/ BootFails \/ MarkBootReconciled

-----------------------------------------------------------------------------
\* The sink comes up, or is torn down (RemoveSink, then ForgetSink) and away.
SinkComes ==
    /\ reader = "away" /\ ~forget
    /\ reader' \in {"live", "writeOnly"}
    /\ UNCHANGED <<coordVars, manVars, warmed, settled, bootVars, logVars, now, forgets, forget>>

SinkGone ==
    /\ reader # "away" /\ forgets < MaxForgets
    /\ forgets' = forgets + 1
    /\ reader' = "away"
    /\ warmed' = {} /\ forget' = TRUE
    /\ UNCHANGED <<coordVars, manVars, settled, bootVars, logVars, now>>

ForgetSink ==
    /\ forget
    /\ forget' = FALSE
    /\ bootDone' = FALSE
    /\ gor' = Cancelled(Scopes)
    /\ runs' = [s \in Scopes |-> 0]
    /\ pending' = {}
    /\ UNCHANGED <<life, manVars, warmed, reader, settled, boot, fails, logVars, now, forgets>>

CoordNext ==
    \/ Start \/ Stop \/ Ended
    \/ \E s \in Scopes : BeginPass(s)
    \/ Replace \/ ScopeStarted \/ ScopeStopped \/ EvictScope \/ Settle
    \/ \E g \in gor : RunStep(g)
    \/ Flush \/ Boot
    \/ SinkComes \/ SinkGone \/ ForgetSink

CoordSpec == CoordInit /\ [][CoordNext]_lifeVars

\* The manager starts every runnable and its loop goes on, the registry falls quiet,
\* the sink comes up, runs and the boot pass are retried, the recorder flushes.
CoordFairness ==
    /\ WF_lifeVars(Start) /\ WF_lifeVars(Ended) /\ WF_lifeVars(Settle) /\ WF_lifeVars(SinkComes \/ ForgetSink)
    /\ WF_lifeVars(Replace \/ ScopeStarted \/ ScopeStopped \/ EvictScope)
    /\ WF_lifeVars(\E g \in gor : RunStep(g))
    /\ WF_lifeVars(Flush) /\ WF_lifeVars(Boot)

FairCoord == CoordSpec /\ CoordFairness

-----------------------------------------------------------------------------
\* A run that may still write is the registered one of the epoch that is served, but
\* for the moment in which the pass has taken the scope out of the table and not told
\* the coordinator yet: neither a stopped scope nor a superseded epoch keeps a run that
\* was not told (StopScope: "must be cancelled precisely so it cannot write those
\* rows").
LiveRunIsCurrent ==
    \A g \in gor : ~g.cancelled =>
        /\ runs[g.scope] = g.epoch
        /\ served[g.scope] = g.epoch \/ Stopping(g.scope)

\* A scope that stays served is warm in the end, whatever came before, unless the
\* sink cannot read its history or was deleted.
WarmedInTheEnd ==
    <>[](\A s \in Scopes :
            life = "running" /\ Desired(s) /\ reader = "live" /\ forgets = 0 => s \in warmed)

\* A scope nobody wants does not stay open in the log: what an earlier process left
\* open is closed by the boot pass, what this process opened by its own Stopped row.
\* For a sink that was deleted and created again see ForgottenIsUnmarked.
OrphansClosed ==
    <>[](life = "running" /\ reader = "live" /\ forgets = 0 =>
            \A s \in Scopes : ~Desired(s) => log[s].act = "Stopped")

\* Shutdown does not wait for a run for ever.
StopEnds == [](life = "stopping" => <>(life = "ended"))

-----------------------------------------------------------------------------
\* What the comments of the code say and TLC refutes with two starts of a scope,
\* the last with one sink that is forgotten; no run checks these.

\* A scope that is served, and whose transitions are all written, reads as open
\* (closeOrphanedScopes: "that nothing in this process wants any more").
ServedReadsOpen ==
    \A s \in Scopes : Desired(s) /\ owed = <<>> /\ pass = Idle => log[s].act = "Started"

\* A scope is not warm before the run of its epoch has seeded it (warm: "Until the
\* seed lands the scope is *not* marked warm").
WarmIsSeeded ==
    \A s \in warmed : Desired(s) =>
        ~\E g \in gor : g.scope = s /\ g.epoch = served[s] /\ g.at = "seed"

\* A sink that was forgotten has its boot pass run again (ForgetSink: "Clearing the
\* boot mark is the point").
ForgottenIsUnmarked == [][bootDone' /\ ~bootDone => reader # "away" \/ forget]_lifeVars
=============================================================================
