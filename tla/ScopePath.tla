----------------------------- MODULE ScopePath ------------------------------
(***************************************************************************)
(* A watch-scope epoch on its way from the watch manager's report to       *)
(* watch_scopes: the recorder (ScopeRecorder) and the scope-event writer   *)
(* of one sink (ScopeWriter), composed at EnqueueScopeEvent.  That sink's  *)
(* instance lives once: it is routed, unrouted and cancelled, in any order *)
(* with the recorder's steps.  The other sinks take or refuse an event in  *)
(* one step, and come and go as instances are recycled.                    *)
(***************************************************************************)
EXTENDS ScopeRecorder

CONSTANTS
    Logged,         \* the sink whose writer is composed
    Serving,        \* which targets can serve which (sink, scope)
    QueueSize, BatchMaxRows, RetryQueueMax,
    MaxMishaps      \* bound: calls given up, instances replaced, flushes failed

ASSUME ScopePathAssumption ==
    /\ Logged \in Sinks /\ Serving \in [Keys -> SUBSET Targets]
    /\ QueueSize \in Nat \ {0} /\ BatchMaxRows \in Nat \ {0} /\ RetryQueueMax \in Nat
    /\ MaxMishaps \in Nat

VARIABLES
    sending, accepted, queue, batch, flight, retries, landed, overflowed, worker, last,
    late, start, ctxDone, drainFailed, faults,
    ended,          \* "none", "sink": the composed instance is, "process"; bound: one end
    mishaps

writerVars == <<sending, accepted, queue, batch, flight, retries, landed, overflowed, worker,
                last, late, start, ctxDone, drainFailed, faults>>
pathVars == <<vars, writerVars, ended, mishaps>>

Writer == INSTANCE ScopeWriter WITH Events <- 1 .. MaxTransitions, lost <- overflowed,
                               MaxFaults <- MaxMishaps

PathInit == Init /\ Writer!Init /\ ended = "none" /\ mishaps = 0

-----------------------------------------------------------------------------
Mishap == mishaps + faults < MaxMishaps /\ mishaps' = mishaps + 1

\* EnqueueScopeEvent of the composed sink, past its closing check.
Call ==
    /\ loop = "calling" /\ next.sink = Logged
    /\ Writer!BeginEnqueueScopeEvent
    /\ UNCHANGED <<vars, ended, mishaps>>

CallSends == Accepted /\ next.sink = Logged /\ Writer!SendScopeEvent(next.ts) /\ UNCHANGED <<ended, mishaps>>

CallGivesUp ==
    /\ Refused /\ next.sink = Logged
    /\ Writer!GiveUpScopeEvent
    /\ Mishap /\ UNCHANGED ended

CallRefused ==
    /\ Refused /\ next.sink = Logged
    /\ start # "running" /\ ~sending
    /\ UNCHANGED <<writerVars, ended, mishaps>>

CallElsewhere ==
    /\ loop = "calling" /\ next.sink # Logged
    /\ \/ Accepted /\ UNCHANGED mishaps
       \/ Refused /\ Mishap
    /\ UNCHANGED <<writerVars, ended>>

FlushStep ==
    \/ (ReadHead \/ LookUpWriter \/ Pop) /\ UNCHANGED <<writerVars, ended, mishaps>>
    \/ Call \/ CallSends \/ CallGivesUp \/ CallRefused \/ CallElsewhere

\* startLocked and swapLocked; the composed instance is routed once.
Routed(s) ==
    /\ SinkComes(s)
    /\ s = Logged => ended # "sink"
    /\ UNCHANGED <<writerVars, ended, mishaps>>

\* The instance is replaced or its sink deleted: it is unrouted before it drains.
Unrouted(s) ==
    /\ SinkGoes(s)
    /\ IF s = Logged THEN ended = "none" /\ ended' = "sink" /\ UNCHANGED mishaps
       ELSE Mishap /\ UNCHANGED ended
    /\ UNCHANGED writerVars

\* The process is told to stop; the recorder and the sinks learn of it apart.
Stop ==
    /\ ended = "none" /\ ended' = "process"
    /\ UNCHANGED <<vars, writerVars, mishaps>>

Reports == \E k \in Keys : \E t \in Serving[k] : ScopeStarted(k, t) \/ ScopeStopped(k, t)

WriterStep ==
    /\ Writer!Worker \/ Writer!StopAccepting \/ Writer!CloseScopeEvents
    /\ mishaps + faults' <= MaxMishaps
    /\ UNCHANGED <<vars, ended, mishaps>>

Cancel == ended # "none" /\ Writer!Cancel /\ UNCHANGED <<vars, ended, mishaps>>

PathNext ==
    \/ (Reports \/ BeginFlush \/ (ended = "process" /\ Shutdown)) /\ UNCHANGED <<writerVars, ended, mishaps>>
    \/ FlushStep
    \/ \E s \in Sinks : Routed(s) \/ Unrouted(s)
    \/ WriterStep
    \/ Stop \/ Cancel

PathSteps == PathInit /\ [][PathNext]_pathVars

(***************************************************************************)
(* The recorder's goroutine keeps running and its ticker keeps firing; the *)
(* writer's worker keeps running, its ticker keeps firing and an attempt   *)
(* always ends.  Nothing is assumed of reports, routing and cancellation.  *)
(***************************************************************************)
PathSpec ==
    /\ PathSteps
    /\ WF_pathVars(BeginFlush /\ UNCHANGED <<writerVars, ended, mishaps>>)
    /\ WF_pathVars(FlushStep)
    /\ WF_pathVars(WriterStep)

-----------------------------------------------------------------------------
EdgesOf(s) == {e.ts : e \in {f \in Range(happened) : f.sink = s}}

Stamps(events) == {e.ts : e \in events}

\* A scope event happens once and cannot be derived again.  Every edge of the
\* sink's scopes is queued in the recorder, is held by the writer, is written, or
\* went in an overflow that is reported, at the recorder's queue or at the
\* writer's retry queue; and the writer holds only what the recorder handed over
\* (flush pops only what was accepted; queueScopeRetries, takeScopeRetries).
NoEpochForgotten ==
    /\ EdgesOf(Logged) \subseteq
           Stamps(Range(pending)) \cup Stamps(lost) \cup Writer!Kept \cup Writer!Landed \cup overflowed
    /\ accepted = Stamps(Range(handed[Logged]))

\* Scope events of one scope land in the order they happened as long as no flush
\* failed and the writer is not cancelled, past overflows, refusals and recycles
\* of other sinks; so the table's epochs are those that happened (scopeWorker:
\* "Scope events for one scope must land in the order they happened").
LandsInOrder ==
    faults = 0 /\ ~ctxDone =>
        \A m, n \in DOMAIN landed : \A i \in DOMAIN landed[m].batch, j \in DOMAIN landed[n].batch :
            m < n \/ (m = n /\ i < j) => landed[m].batch[i] < landed[n].batch[j]

\* Once every sink is routed for good the recorder's queue drains, through the
\* ticker alone if need be, and the sink's epochs reach watch_scopes, also when
\* nothing new arrives to carry a retry: every edge that happened is written or
\* went in an overflow, unless the process stops first.
EdgesLand ==
    <>[](live = Sinks /\ ~ctxDone) =>
        []<>(\/ loop = "stopped"
             \/ /\ pending = <<>>
                /\ EdgesOf(Logged) \subseteq Writer!Landed \cup overflowed \cup Stamps(lost))

\* The writer holds a scope event in one place, so a failed flush neither doubles
\* nor drops one (queueScopeRetries, takeScopeRetries).
HeldOnce == Writer!HeldOnce

\* When the writer's worker has left and no flush of the drain failed, every event it
\* accepted was written or went in an overflow (scopeWorker on the closed channel).
NoneStranded == Writer!NoneStranded

\* Queue, batch and retries keep to their bounds (scopeBatchMaxRows,
\* scopeRetryQueueMax), past failed flushes and retries.
WriterTypeOK == Writer!TypeOK
=============================================================================
