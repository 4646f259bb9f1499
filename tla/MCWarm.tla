------------------------------- MODULE MCWarm -------------------------------
(***************************************************************************)
(* Warm-up on small instances: what a run reads and writes (module Warm)   *)
(* and the lifecycle of runs (module WarmCoordinator).  The two share no   *)
(* variable: a behaviour is one of one of them, with the other at rest, in *)
(* a state in which it has nothing to do.                                  *)
(***************************************************************************)
EXTENDS Warm, WarmCoordinator

VARIABLE part

-----------------------------------------------------------------------------
\* The run is done and the object gone for good.
RunAtRest ==
    /\ obj = 0 /\ uids = MaxUID /\ rows = {} /\ inserted = 0 /\ clock = 0
    /\ up = TRUE /\ store = 0 /\ synced = TRUE /\ queued = FALSE
    /\ proc = NoProc /\ cache = NoEntry /\ ver = 0 /\ jobs = {}
    /\ warm = TRUE /\ run = [at |-> "done"] /\ started = TRUE /\ wasOpen = FALSE
    /\ crashes = MaxCrashes /\ timeouts = 0 /\ seen = FALSE /\ churned = FALSE

\* The coordinator has ended.
LifeAtRest ==
    /\ life = "ended" /\ pending = {} /\ runs = [s \in Scopes |-> 0] /\ gor = {}
    /\ served = [s \in Scopes |-> 0] /\ pass = Idle /\ epochs = 0
    /\ warmed = {} /\ reader = "live" /\ settled = TRUE
    /\ boot = Idle /\ bootDone = TRUE /\ fails = 0
    /\ owed = <<>> /\ log = [s \in Scopes |-> [act |-> "Stopped", ts |-> 0]]
    /\ now = 0 /\ forgets = 0 /\ forget = FALSE

WarmUpInit ==
    \/ part = "run" /\ Init /\ LifeAtRest
    \/ part = "life" /\ CoordInit /\ RunAtRest

WarmUpNext ==
    /\ \/ part = "run" /\ Next /\ UNCHANGED lifeVars
       \/ part = "life" /\ CoordNext /\ UNCHANGED vars
    /\ UNCHANGED part

WarmUpSpec ==
    /\ WarmUpInit
    /\ [][WarmUpNext]_<<part, vars, lifeVars>>
    /\ Fairness /\ CoordFairness
=============================================================================
