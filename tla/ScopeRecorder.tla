--------------------------- MODULE ScopeRecorder ---------------------------
(***************************************************************************)
(* The recorder of watch-scope epochs, internal/watch/scope_recorder.go.   *)
(* The watch manager reports interest-level edges on its own goroutine;    *)
(* the recorder counts them per (sink, scope), queues one event per        *)
(* scope-level edge and hands the queue to the sinks' scope writers from a *)
(* goroutine of its own.  Reports fall between any two steps of that       *)
(* goroutine: the queue may overflow while its head is being handed over.  *)
(***************************************************************************)
EXTENDS Naturals, Sequences, FiniteSets, Functions

CONSTANTS
    Sinks,
    Scopes,
    Targets,         \* informer targets; several may serve one scope
    QueueLimit,      \* ScopeEpochRecorder.queueLimit
    MaxTransitions   \* bound: scope-level edges

ASSUME ScopeRecorderAssumption ==
    /\ QueueLimit \in Nat \ {0}
    /\ MaxTransitions \in Nat

VARIABLES
    active,    \* the targets holding each (sink, scope)
    warming,   \* the epoch start each scope's warm-up was asked for with, 0 for none
    pending,   \* the queue of events
    dropped,   \* events lost to overflow and not reported yet
    wake,      \* whether the wake channel holds a token
    loop,      \* "waiting", "flushing", "handing", "calling", "popping", "stopped"
    next,      \* the head the flush read
    final,     \* the context is done and the last flush is running
    live,      \* the sinks with a live scope-log writer
    handed,    \* per sink, the events its writer accepted, in order
    happened,  \* every scope-level edge, in order
    lost,      \* the events overflows have removed from the queue
    reported   \* how many of them the flush loop has logged

queueVars == <<active, warming, pending, dropped, lost, wake, happened>>
loopVars == <<loop, next, final, handed, reported>>
vars == <<queueVars, loopVars, live>>

Keys == Sinks \X Scopes

ScopeEvent == [sink: Sinks, scope: Scopes, action: {"Started", "Stopped"}, ts: 1 .. MaxTransitions]

NoEvent == [ts |-> 0]

TypeOK ==
    /\ active \in [Keys -> SUBSET Targets]
    /\ pending \in Seq(ScopeEvent) /\ Len(pending) <= QueueLimit
    /\ loop \in {"waiting", "flushing", "handing", "calling", "popping", "stopped"}
    /\ warming \in [Keys -> 0 .. MaxTransitions]
    /\ next \in ScopeEvent \cup {NoEvent}
    /\ \A s \in Sinks : handed[s] \in Seq(ScopeEvent)

Init ==
    /\ active = [k \in Keys |-> {}]
    /\ warming = [k \in Keys |-> 0]
    /\ pending = <<>>
    /\ dropped = 0
    /\ wake = FALSE
    /\ loop = "waiting"
    /\ next = NoEvent
    /\ final = FALSE
    /\ live = {}
    /\ handed = [s \in Sinks |-> <<>>]
    /\ happened = <<>>
    /\ lost = {}
    /\ reported = 0

-----------------------------------------------------------------------------
\* enqueueLocked and signal: on overflow the oldest events go.
EnqueueEvent(event) ==
    LET queued == Append(pending, event)
        overflow == IF Len(queued) > QueueLimit THEN Len(queued) - QueueLimit ELSE 0
    IN  /\ pending' = SubSeq(queued, overflow + 1, Len(queued))
        /\ dropped' = dropped + overflow
        /\ lost' = lost \cup Range(SubSeq(pending, 1, overflow))
        /\ happened' = Append(happened, event)
        /\ wake' = TRUE

EventFor(k, action) == [sink |-> k[1], scope |-> k[2], action |-> action, ts |-> Len(happened) + 1]

\* A second target of a scope that is held queues nothing.  The warm-up is given
\* the instant the Started row carries.
ScopeStarted(k, t) ==
    /\ Len(happened) < MaxTransitions
    /\ active' = [active EXCEPT ![k] = @ \cup {t}]
    /\ IF t \notin active[k] /\ active'[k] = {t}
       THEN /\ EnqueueEvent(EventFor(k, "Started"))
            /\ warming' = [warming EXCEPT ![k] = Len(happened) + 1]
       ELSE UNCHANGED <<warming, pending, dropped, lost, happened, wake>>
    /\ UNCHANGED <<loopVars, live>>

\* Mutant: a stop is believed although its start was never reported.
ScopeStoppedUnheld(k, t) ==
    /\ Len(happened) < MaxTransitions
    /\ active' = [active EXCEPT ![k] = @ \ {t}]
    /\ IF active'[k] = {}
       THEN /\ EnqueueEvent(EventFor(k, "Stopped"))
            /\ warming' = [warming EXCEPT ![k] = 0]
       ELSE UNCHANGED <<warming, pending, dropped, lost, happened, wake>>
    /\ UNCHANGED <<loopVars, live>>

\* The informer of a target may have failed to come up: its stop is reported
\* although its start never was.
ScopeStopped(k, t) ==
    /\ Len(happened) < MaxTransitions
    /\ active' = [active EXCEPT ![k] = @ \ {t}]
    /\ IF t \in active[k] /\ active'[k] = {}
       THEN /\ EnqueueEvent(EventFor(k, "Stopped"))
            /\ warming' = [warming EXCEPT ![k] = 0]
       ELSE UNCHANGED <<warming, pending, dropped, lost, happened, wake>>
    /\ UNCHANGED <<loopVars, live>>

-----------------------------------------------------------------------------
\* Mutant: only a wake-up starts a flush.
BeginFlushWoken ==
    /\ loop = "waiting"
    /\ wake
    /\ wake' = FALSE
    /\ loop' = "flushing"
    /\ reported' = reported + dropped
    /\ dropped' = 0
    /\ UNCHANGED <<active, warming, pending, lost, happened, next, final, handed, live>>

\* The loop is woken, or its ticker fires; flush begins with reportDrops.
BeginFlush ==
    /\ loop = "waiting"
    /\ wake' \in (IF wake THEN BOOLEAN ELSE {FALSE})
    /\ loop' = "flushing"
    /\ reported' = reported + dropped
    /\ dropped' = 0
    /\ UNCHANGED <<active, warming, pending, lost, happened, next, final, handed, live>>

\* The context is cancelled: one more flush, with a context of its own, if
\* anything is queued.
Shutdown ==
    /\ loop = "waiting"
    /\ final' = TRUE
    /\ IF pending = <<>> THEN loop' = "stopped" /\ UNCHANGED <<reported, dropped>>
       ELSE loop' = "flushing" /\ reported' = reported + dropped /\ dropped' = 0
    /\ UNCHANGED <<active, warming, pending, lost, wake, happened, next, handed, live>>

\* flush returns; the last one ends the recorder.
Return ==
    /\ loop' = IF final THEN "stopped" ELSE "waiting"
    /\ next' = NoEvent

ReadHead ==
    /\ loop = "flushing"
    /\ IF pending = <<>> THEN Return
       ELSE loop' = "handing" /\ next' = Head(pending)
    /\ UNCHANGED <<queueVars, final, handed, reported, live>>

\* ScopeEventWriterFor.  No live writer: this event and everything behind it stay
\* queued.
LookUpWriter ==
    /\ loop = "handing"
    /\ IF next.sink \in live THEN loop' = "calling" /\ UNCHANGED next ELSE Return
    /\ UNCHANGED <<queueVars, final, handed, reported, live>>

\* EnqueueScopeEvent fails; the event stays the head.
Refused ==
    /\ loop = "calling"
    /\ Return
    /\ UNCHANGED <<queueVars, final, handed, reported, live>>

Accepted ==
    /\ loop = "calling"
    /\ handed' = [handed EXCEPT ![next.sink] = Append(@, next)]
    /\ loop' = "popping"
    /\ UNCHANGED <<queueVars, next, final, reported, live>>

\* The head is popped unless an overflow has dropped it meanwhile.
Pop ==
    /\ loop = "popping"
    /\ pending' = IF pending # <<>> /\ Head(pending) = next THEN Tail(pending) ELSE pending
    /\ loop' = "flushing"
    /\ next' = NoEvent
    /\ UNCHANGED <<active, warming, dropped, lost, wake, happened, final, handed, reported, live>>

\* A sink's instance comes up, or goes away for a recycle or for good.
SinkComes(s) == s \notin live /\ live' = live \cup {s} /\ UNCHANGED <<queueVars, loopVars>>

SinkGoes(s) == s \in live /\ live' = live \ {s} /\ UNCHANGED <<queueVars, loopVars>>

Flush == ReadHead \/ LookUpWriter \/ Refused \/ Accepted \/ Pop

Next ==
    \/ \E k \in Keys, t \in Targets : ScopeStarted(k, t) \/ ScopeStopped(k, t)
    \/ BeginFlush
    \/ Shutdown
    \/ Flush
    \/ \E s \in Sinks : SinkComes(s) \/ SinkGoes(s)

Spec == Init /\ [][Next]_vars

-----------------------------------------------------------------------------
\* The edges of a scope, by their place in what happened.
Edges(k) == {i \in DOMAIN happened : happened[i].sink = k[1] /\ happened[i].scope = k[2]}

Consecutive(k, i, j) == i < j /\ \A m \in Edges(k) : m <= i \/ j <= m

Alternates(k) ==
    /\ \A i \in Edges(k) : (\A m \in Edges(k) : i <= m) => happened[i].action = "Started"
    /\ \A i, j \in Edges(k) : Consecutive(k, i, j) => happened[i].action # happened[j].action
    /\ \A i \in Edges(k) : (\A m \in Edges(k) : m <= i) =>
          /\ happened[i].action = "Started" <=> active[k] # {}
          /\ active[k] # {} => warming[k] = happened[i].ts
    /\ Edges(k) = {} => active[k] = {}
    /\ active[k] = {} => warming[k] = 0

\* Exactly one Started row when a scope gains its first interest and exactly one
\* Stopped row when it loses its last, however the targets of the scope come, go
\* and fail to come: a scope's edges alternate, its last edge says whether it is
\* held, and a held scope is warmed for the epoch of that edge (ScopeStarted,
\* ScopeStopped).
EpochsAlternate == \A k \in Keys : Alternates(k)

Handed == UNION {Range(handed[s]) : s \in Sinks}

\* No edge is lost silently: one that is neither queued nor handed over was
\* dropped, and is counted, also when the overflow hits the very event that is
\* being handed over (enqueueLocked, flush, reportDrops).
LossReported ==
    /\ Range(happened) \ (Handed \cup Range(pending)) \subseteq lost
    /\ Cardinality(lost) = dropped + reported

\* A sink receives the edges of its scopes in the order they happened, each once,
\* past refusals, recycles and overflows.
HandedInOrder ==
    \A s \in Sinks : \A i, j \in DOMAIN handed[s] : i < j => handed[s][i].ts < handed[s][j].ts
=============================================================================
