---------------------------- MODULE WatchManager ----------------------------
(***************************************************************************)
(* The watch manager, internal/watch/manager.go, with its informer pool    *)
(* (pool.go) and interest table (interest.go), for one object of one kind. *)
(*                                                                         *)
(* A target names a sink and an informer; an informer has a version of the *)
(* kind and a namespace, the object's own or all of them.  A pass of the   *)
(* loop moves table and pool towards the registry while informers deliver  *)
(* events and workers ask for the object.  A worker reads the interests,   *)
(* the indexers and the policy and records in steps of their own, so that  *)
(* a pass can come between any two of them; what it records is taken apart *)
(* in module Pipeline.  How the loop is woken is module Registry, the log  *)
(* of the transitions module ScopeRecorder.                                *)
(***************************************************************************)
EXTENDS Naturals, Sequences, FiniteSets

CONSTANTS
    Sinks, Versions,
    Namespaces,    \* a subset of {"own", "all"}
    Offered,       \* the targets rules may name
    Labels, NoLabels, \* what objects carry; NoLabels is the empty label map
    Selector,      \* what the rules of a sink select
    MaxTargetEdits,      \* bound: targets added to or removed from the registry
    MaxChanges,    \* bound: changes of the object
    MaxFails,      \* bound: informers that fail to start
    MayStop        \* whether the process may be shut down

Informers == [version : Versions, ns : Namespaces]
Targets == [sink : Sinks, informer : Informers]

ASSUME WatchAssumption == /\ MaxTargetEdits \in Nat /\ MaxChanges \in Nat /\ MaxFails \in Nat
                          /\ MayStop \in BOOLEAN
                          /\ Selector \in [Sinks -> SUBSET Labels]
                          /\ NoLabels \in Labels
                          /\ Namespaces \subseteq {"own", "all"} /\ Offered \subseteq Targets

VARIABLES
    registry,  \* the targets rules want
    mapped,    \* the versions discovery has answered for; the mapper keeps its answers
    loop,      \* the pass
    table,     \* the installed interests
    pool,      \* the running informers
    indexer,     \* their indexers
    events,    \* events not yet delivered to the handler
    started,   \* startedTargets
    queue,     \* the sinks the object is queued for
    item,      \* the work item a worker has in hand, per sink
    known,     \* the object's state as last recorded, per sink
    joined,    \* the sinks that joined a running informer, or were evicted beside one, and
               \* had no event since (history)
    stray,     \* the sinks whose state was recorded by an item older than the last eviction
               \* (history)
    obj, uids, \* the object in the API server and its incarnations so far
    targetEdits, changes, fails

poolVars == <<pool, indexer, events>>
workVars == <<queue, item, known, joined, stray>>
bounds == <<targetEdits, changes, fails>>
watchVars == <<registry, mapped, loop, table, poolVars, started, workVars, obj, uids, bounds>>

NoPass == [at |-> "idle"]
NoItem == [at |-> "none"]
Gone == [uid |-> 0, label |-> "gone"]
Unlisted == [uid |-> 0, label |-> "unlisted"]
Object == [uid : Nat \ {0}, label : Labels]

InformersOf(targets) == {t.informer : t \in targets}

WatchTypeOK ==
    /\ registry \subseteq Targets /\ table \subseteq Targets /\ started \subseteq Targets
    /\ mapped \subseteq Versions /\ pool \subseteq Informers /\ queue \subseteq Sinks
    /\ \A i \in Informers : indexer[i] \in Object \cup {Gone, Unlisted}
    /\ \A i \in Informers \ pool : indexer[i] = Unlisted /\ events[i] = <<>>
    /\ \A s \in Sinks : known[s] \in Object \cup {Gone}
    /\ \A s \in Sinks : item[s].at \in {"none", "get", "policy", "record"}
    /\ joined \subseteq Sinks /\ stray \subseteq Sinks
    /\ loop.at \in {"idle", "install", "settle", "start", "report", "stopped"}

WatchInit ==
    /\ registry = {} /\ mapped = {} /\ loop = NoPass /\ table = {}
    /\ pool = {} /\ indexer = [i \in Informers |-> Unlisted] /\ events = [i \in Informers |-> <<>>]
    /\ started = {} /\ queue = {} /\ known = [s \in Sinks |-> Gone]
    /\ item = [s \in Sinks |-> NoItem] /\ joined = {} /\ stray = {}
    /\ obj = Gone /\ uids = 0 /\ targetEdits = 0 /\ changes = 0 /\ fails = 0

-----------------------------------------------------------------------------
\* The surroundings.
EditRegistry(t) ==
    /\ targetEdits < MaxTargetEdits /\ targetEdits' = targetEdits + 1
    /\ registry' = IF t \in registry THEN registry \ {t} ELSE registry \cup {t}
    /\ UNCHANGED <<mapped, loop, table, poolVars, started, workVars, obj, uids, changes, fails>>

KindAppears(v) ==
    /\ v \notin mapped
    /\ mapped' = mapped \cup {v}
    /\ UNCHANGED <<registry, loop, table, poolVars, started, workVars, obj, uids, bounds>>

ChangeObject ==
    /\ changes < MaxChanges /\ changes' = changes + 1
    /\ \/ /\ obj = Gone /\ uids' = uids + 1
          /\ \E l \in Labels : obj' = [uid |-> uids + 1, label |-> l]
       \/ /\ obj # Gone /\ UNCHANGED uids
          /\ \E l \in Labels \ {obj.label} : obj' = [obj EXCEPT !.label = l]
       \/ obj # Gone /\ obj' = Gone /\ UNCHANGED uids
    /\ UNCHANGED <<registry, mapped, loop, table, poolVars, started, workVars, targetEdits, fails>>

\* An informer lists, or catches up with one or several changes: the indexer first,
\* then the notification.  A deletion found by a new list may have lost the object.
InformerSees(i) ==
    /\ i \in pool /\ indexer[i] # obj
    /\ indexer' = [indexer EXCEPT ![i] = obj]
    /\ LET prev == IF indexer[i] = Unlisted THEN Gone ELSE indexer[i]
       IN  \E lost \in IF obj = Gone THEN BOOLEAN ELSE {FALSE} :
             events' = IF prev = obj THEN events
                       ELSE [events EXCEPT ![i] = Append(@, [cur |-> obj, prev |-> prev, lost |-> lost])]
    /\ UNCHANGED <<registry, mapped, loop, table, pool, started, workVars, obj, uids, bounds>>

-----------------------------------------------------------------------------
\* The interest table: lookups by informer, by identity and by scope.
InterestsFor(i) == {t \in table : t.informer = i}

LookupIdentity(s) == {t \in table : t.sink = s}

\* ScopeDesired, once the given interests are installed.
ScopeDesired(interests, s, n) == \E t \in interests : t.sink = s /\ t.informer.ns = n

Matches(s, o) == o # Gone /\ o.label \in Selector[s]

\* fanOut: a deletion is matched by the last state, unless that was lost.
MatchesDelete(s, e) == e.lost \/ Matches(s, e.prev)

\* Mutant: new objects have no handler.
MatchesNoAdd(s, e) ==
    /\ e.prev # Gone
    /\ IF e.cur = Gone THEN MatchesDelete(s, e) ELSE Matches(s, e.cur) \/ Matches(s, e.prev)

\* matchesEither: an update is matched by either side.  The labels of an object that
\* has none are read as a nil map, which is taken for "no previous side".
MatchesEither(s, e) ==
    IF e.cur = Gone THEN MatchesDelete(s, e)
    ELSE Matches(s, e.cur) \/ (e.prev.label # NoLabels /\ Matches(s, e.prev))

FanOut(i) ==
    /\ events[i] # <<>>
    /\ queue' = queue \cup {t.sink : t \in {u \in InterestsFor(i) : MatchesEither(u.sink, Head(events[i]))}}
    /\ events' = [events EXCEPT ![i] = Tail(@)]
    /\ joined' = joined \ queue'
    /\ UNCHANGED <<registry, mapped, loop, table, pool, indexer, started, item, known, stray, obj, uids, bounds>>

-----------------------------------------------------------------------------
\* One pass of the loop.
Translate == {t \in registry : t.informer.version \in mapped}

\* A pass with nothing to do changes nothing and is left out.
Plan ==
    /\ loop = NoPass
    /\ table # Translate \/ started # Translate
    /\ loop' = [at |-> "install", desired |-> Translate]
    /\ UNCHANGED <<registry, mapped, table, poolVars, started, workVars, obj, uids, bounds>>

\* table.replace: from here on no reader sees what was removed.
Install ==
    /\ loop.at = "install"
    /\ table' = loop.desired
    /\ loop' = [at |-> "settle", removed |-> table \ loop.desired]
    /\ joined' = joined \cup {t.sink : t \in {u \in loop.desired \ table : u.informer \in pool}}
    /\ UNCHANGED <<registry, mapped, poolVars, started, queue, item, known, stray, obj, uids, bounds>>

\* ScopeStopped, then EvictScope: the prefix of either scope covers the object.
SettleRemoved(t) ==
    /\ loop.at = "settle" /\ t \in loop.removed
    /\ started' = started \ {t}
    /\ known' = [known EXCEPT ![t.sink] = Gone]
    /\ loop' = [loop EXCEPT !.removed = @ \ {t}]
    /\ joined' = IF LookupIdentity(t.sink) = {} THEN joined \ {t.sink} ELSE joined \cup {t.sink}
    /\ item' = IF item[t.sink] = NoItem THEN item ELSE [item EXCEPT ![t.sink].cut = TRUE]
    /\ stray' = stray \ {t.sink}
    /\ UNCHANGED <<registry, mapped, table, poolVars, queue, obj, uids, bounds>>

\* retain: the informers to stop, and those to start.
Unwanted == pool \ InformersOf(table)
Missing == InformersOf(table) \ pool

\* pool.retain: informers nobody wants are stopped and waited for.
StopInformers ==
    /\ loop.at = "settle" /\ loop.removed = {}
    /\ pool' = pool \ Unwanted
    /\ indexer' = [i \in Informers |-> IF i \in pool' THEN indexer[i] ELSE Unlisted]
    /\ events' = [i \in Informers |-> IF i \in pool' THEN events[i] ELSE <<>>]
    /\ loop' = [at |-> "start"]
    /\ UNCHANGED <<registry, mapped, table, started, workVars, obj, uids, bounds>>

\* pool.retain: missing ones are started; a failure is left to the next pass.
StartInformers ==
    /\ loop.at = "start"
    /\ \E failed \in SUBSET Missing :
          /\ fails + Cardinality(failed) <= MaxFails
          /\ fails' = fails + Cardinality(failed)
          /\ pool' = pool \cup (Missing \ failed)
    /\ loop' = [at |-> "report"]
    /\ UNCHANGED <<registry, mapped, table, indexer, events, started, workVars, obj, uids, targetEdits, changes>>

NewlyServing == {t \in table \ started : t.informer \in pool}

Report ==
    /\ loop.at = "report"
    /\ started' = started \cup NewlyServing
    /\ loop' = NoPass
    /\ UNCHANGED <<registry, mapped, table, poolVars, workVars, obj, uids, bounds>>

\* Start, cancelled: the informers stop, nothing is evicted or reported, and workers
\* may still be at their items.
StopAll ==
    /\ MayStop /\ loop = NoPass
    /\ pool' = {}
    /\ indexer' = [i \in Informers |-> Unlisted] /\ events' = [i \in Informers |-> <<>>]
    /\ loop' = [at |-> "stopped"]
    /\ UNCHANGED <<registry, mapped, table, started, workVars, obj, uids, bounds>>

ReconcilePool ==
    \/ Plan \/ Install
    \/ \E t \in Targets : SettleRemoved(t)
    \/ StopInformers \/ StartInformers \/ Report

-----------------------------------------------------------------------------
\* A work item.  beyond is what no worker changes.
beyond == <<registry, mapped, loop, table, poolVars, started, joined, obj, uids, bounds>>

\* The state a sink was told of is about to be evicted: its interest is deregistered.
Leaving(s) == loop.at = "settle" /\ \E t \in loop.removed : t.sink = s

\* Mutant: an object of a scope nobody watches is taken for deleted.
LookUpUnscoped(s) ==
    /\ s \in queue /\ item[s] = NoItem
    /\ queue' = queue \ {s}
    /\ item' = [item EXCEPT ![s] = [at |-> "get", of |-> LookupIdentity(s), cut |-> FALSE,
                                    late |-> LookupIdentity(s) # {} /\ Leaving(s)]]
    /\ UNCHANGED <<known, stray, beyond>>

\* Get: the interests, none of which drops the item.
LookUp(s) ==
    /\ s \in queue /\ item[s] = NoItem
    /\ queue' = queue \ {s}
    /\ item' = IF LookupIdentity(s) = {} THEN item
               ELSE [item EXCEPT ![s] = [at |-> "get", of |-> LookupIdentity(s), cut |-> FALSE,
                                         late |-> Leaving(s)]]
    /\ UNCHANGED <<known, stray, beyond>>

\* What the first running informer that has the object holds.
Held(s) ==
    LET serving == InformersOf(item[s].of) \cap pool
        has(n) == {i \in serving : i.ns = n /\ indexer[i].uid # 0}
    IN  IF has("own") # {} THEN {indexer[i] : i \in has("own")} ELSE {indexer[i] : i \in has("all")}

Retry(s) == queue' = queue \cup {s} /\ item' = [item EXCEPT ![s] = NoItem]

\* Get: the indexers.  An object found goes on to its policy; an informer that is not
\* running makes the item wait; otherwise the object is taken for deleted.
Get(s) ==
    /\ item[s].at = "get"
    /\ \/ \E o \in Held(s) :
             /\ item' = [item EXCEPT ![s] = [at |-> "policy", found |-> o, cut |-> @.cut, late |-> FALSE]]
             /\ UNCHANGED queue
       \/ /\ Held(s) = {} /\ InformersOf(item[s].of) \subseteq pool
          /\ item' = [item EXCEPT ![s] = [at |-> "record", found |-> Gone, cut |-> @.cut, late |-> @.late]]
          /\ UNCHANGED queue
       \/ Held(s) = {} /\ ~(InformersOf(item[s].of) \subseteq pool) /\ Retry(s)
    /\ UNCHANGED <<known, stray, beyond>>

\* processUpsert: without an interest there is no policy, and the item is retried.
ResolvePolicy(s) ==
    /\ item[s].at = "policy"
    /\ IF LookupIdentity(s) = {} THEN Retry(s)
       ELSE item' = [item EXCEPT ![s].at = "record"] /\ UNCHANGED queue
    /\ UNCHANGED <<known, stray, beyond>>

\* processUpsert's Reserve, emitDelete's ReserveDelete.
Reserve(s) ==
    /\ item[s].at = "record"
    /\ known' = [known EXCEPT ![s] = item[s].found]
    /\ stray' = IF item[s].cut THEN stray \cup {s} ELSE stray \ {s}
    /\ item' = [item EXCEPT ![s] = NoItem]
    /\ UNCHANGED <<queue, beyond>>

ProcessObject(s) == LookUp(s) \/ Get(s) \/ ResolvePolicy(s) \/ Reserve(s)

WatchNext ==
    \/ \E t \in Offered : EditRegistry(t)
    \/ \E v \in Versions : KindAppears(v)
    \/ ChangeObject
    \/ \E i \in Informers : InformerSees(i) \/ FanOut(i)
    \/ ReconcilePool \/ StopAll
    \/ \E s \in Sinks : ProcessObject(s)

WatchSpec == WatchInit /\ [][WatchNext]_watchVars

\* The loop ticks, the kind gets installed, informers list and deliver, workers run.
WatchFairness ==
    /\ WF_watchVars(ReconcilePool)
    /\ \A v \in Versions : WF_watchVars(KindAppears(v))
    /\ \A i \in Informers : WF_watchVars(InformerSees(i)) /\ WF_watchVars(FanOut(i))
    /\ \A s \in Sinks : WF_watchVars(ProcessObject(s))

FairWatch == WatchSpec /\ WatchFairness

-----------------------------------------------------------------------------
\* A deletion is recorded only for an incarnation that is gone: neither a stopped
\* watch nor an informer that has not listed is taken for it (interestTable.replace:
\* what "keeps "we stopped watching" from ever being recorded as "it was deleted"").
\* It is not claimed of a state recorded by an item that was in hand while its scope
\* was evicted (PipelineFalseDelete), nor for an item that found the other of two
\* overlapping scopes while the first was deregistered and not yet evicted.
NoPhantomDeath ==
    [][\A s \in Sinks : known[s] # Gone /\ known'[s] = Gone /\ UNCHANGED loop
            => known[s].uid # obj.uid \/ s \in stray \/ item[s].late]_watchVars

\* Outside a pass everything reported as started is installed and has a running
\* informer (ScopeRecorder: a recorded Started "is never a promise the data plane
\* failed to keep").
StartedIsServed == loop = NoPass => started \subseteq table /\ InformersOf(started) \subseteq pool

Quiet == /\ loop = NoPass /\ table = registry /\ queue = {} /\ \A s \in Sinks : item[s] = NoItem
         /\ \A i \in pool : indexer[i] = obj /\ events[i] = <<>>

\* When nothing is under way, what a sink was last told of an object is how it is,
\* or a state its rules do not select: the change that takes an object out of a
\* selector is recorded (matchesEither).  A state recorded past an eviction is left out.
LeaverFollowed == Quiet => \A s \in Sinks \ stray : Matches(s, known[s]) => known[s] = obj

\* The pool reaches the registry, through failed starts and kinds that come late,
\* unless the process stops.
WatchConverges ==
    <>[](\/ loop.at = "stopped"
         \/ table = registry /\ started = registry /\ pool = InformersOf(registry))

\* Whatever a rule selects is recorded in the end, unless the process stops or the
\* sink joined an informer whose initial list had gone out (LabelSelector: "Nil
\* selects every object of this kind in scope").
SelectedIsRecorded ==
    <>[](\/ loop.at = "stopped"
         \/ \A s \in Sinks \ joined :
                (\E t \in registry : t.sink = s) /\ Matches(s, obj) => known[s] = obj)

-----------------------------------------------------------------------------
\* What the comments of the code say and TLC refutes; no run checks these.

\* An object that is gone does not stay recorded as living (eventTargetOf: "an object
\* that stays "alive" in the sink forever").
DeathRecorded == Quiet /\ obj = Gone => \A s \in Sinks : known[s] = Gone

\* A baseline is dropped with the last interest that covers it (reconcilePool:
\* "Scopes that vanished are deregistered by that same installation and only *then*
\* evicted").
EvictsTheVanished ==
    [][\A s \in Sinks : known[s] # Gone /\ known'[s] = Gone /\ loop' # loop
            => LookupIdentity(s) = {}]_watchVars

\* A pass leaves every scope a rule names desired (ScopeDesired: "true from the
\* moment a rule names the scope, whether or not the informer serving it has managed
\* to come up yet").
NamedIsDesired ==
    loop = NoPass /\ table = Translate =>
        \A t \in registry : ScopeDesired(table, t.sink, t.informer.ns)
=============================================================================
