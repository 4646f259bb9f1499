---------------------------- MODULE ScopeWriter ----------------------------
(***************************************************************************)
(* The scope-event path of the ClickHouse writer,                          *)
(* internal/sink/clickhouse/scopewriter.go: one worker drains one queue    *)
(* into batches, and keeps the events of a batch that could not be written *)
(* on a retry queue.  The recorder hands the events over one at a time, in *)
(* order; an event is a number, in the order they happened.  The shutdown  *)
(* is Start's (writer.go).                                                 *)
(***************************************************************************)
EXTENDS Naturals, Sequences, FiniteSets, Functions

CONSTANTS
    Events,         \* a set of numbers
    QueueSize,      \* scopeQueueSize
    BatchMaxRows,   \* scopeBatchMaxRows
    RetryQueueMax,  \* scopeRetryQueueMaxLen
    MaxFaults       \* bound: flushes that fail through the backend

VARIABLES
    sending,   \* whether a call of EnqueueScopeEvent is past the closing check
    accepted,  \* the events handed over
    queue,     \* CHWriter.scopeEvents
    batch,     \* what the worker has gathered
    flight,    \* the batch being flushed
    retries,   \* CHWriter.scopeRetries
    landed,    \* the inserts that brought rows to watch_scopes: a batch, and which of it arrived
    lost,      \* the events an overflow of the retry queue removed
    worker,    \* "receiving", "flushing", "exited"
    last,      \* the worker's last flush, after which it returns
    late,      \* the flush began after the cancellation
    start,     \* "running", "closing", "draining"
    ctxDone,
    drainFailed,  \* a flush that began after the cancellation failed
    faults

callVars == <<sending, accepted>>
startVars == <<start, ctxDone>>
ghostVars == <<landed, lost, drainFailed, faults>>
vars == <<callVars, queue, batch, flight, retries, worker, last, late, startVars, ghostVars>>

TypeOK ==
    /\ sending \in BOOLEAN /\ last \in BOOLEAN /\ late \in BOOLEAN
    /\ accepted \subseteq Events
    /\ queue \in Seq(Events) /\ Len(queue) <= QueueSize
    /\ batch \in Seq(Events) /\ Len(batch) < BatchMaxRows
    /\ retries \in Seq(Events) /\ Len(retries) <= RetryQueueMax
    /\ worker \in {"receiving", "flushing", "exited"}

Init ==
    /\ sending = FALSE
    /\ accepted = {}
    /\ queue = <<>> /\ batch = <<>> /\ flight = <<>> /\ retries = <<>>
    /\ landed = <<>>
    /\ lost = {}
    /\ worker = "receiving"
    /\ last = FALSE /\ late = FALSE
    /\ start = "running"
    /\ ctxDone = FALSE
    /\ drainFailed = FALSE
    /\ faults = 0

-----------------------------------------------------------------------------
\* The closing check and inflight.Add; a closing writer refuses.
BeginEnqueueScopeEvent ==
    /\ ~sending
    /\ start = "running"
    /\ sending' = TRUE
    /\ UNCHANGED <<accepted, queue, batch, flight, retries, worker, last, late, startVars, ghostVars>>

SendScopeEvent(e) ==
    /\ sending /\ Len(queue) < QueueSize
    /\ sending' = FALSE
    /\ accepted' = accepted \cup {e}
    /\ queue' = Append(queue, e)
    /\ UNCHANGED <<batch, flight, retries, worker, last, late, startVars, ghostVars>>

\* The caller's context or the timeout ends the call; the event stays with the
\* recorder, which tries again.
GiveUpScopeEvent ==
    /\ sending
    /\ sending' = FALSE
    /\ UNCHANGED <<accepted, queue, batch, flight, retries, worker, last, late, startVars, ghostVars>>

-----------------------------------------------------------------------------
BeginFlush(events) ==
    /\ flight' = events
    /\ batch' = <<>>
    /\ worker' = "flushing"
    /\ late' = ctxDone

\* Mutant: a batch is gathered newest first.
ReceiveScopeEventFirst ==
    /\ worker = "receiving" /\ queue # <<>>
    /\ queue' = Tail(queue)
    /\ LET gathered == <<Head(queue)>> \o batch
       IN  IF Len(gathered) >= BatchMaxRows THEN BeginFlush(gathered)
           ELSE batch' = gathered /\ UNCHANGED <<flight, worker, late>>
    /\ UNCHANGED <<callVars, retries, last, startVars, ghostVars>>

ReceiveScopeEvent ==
    /\ worker = "receiving" /\ queue # <<>>
    /\ queue' = Tail(queue)
    /\ LET gathered == Append(batch, Head(queue))
       IN  IF Len(gathered) >= BatchMaxRows THEN BeginFlush(gathered)
           ELSE batch' = gathered /\ UNCHANGED <<flight, worker, late>>
    /\ UNCHANGED <<callVars, retries, last, startVars, ghostVars>>

BatchMaxWaitElapses ==
    /\ worker = "receiving" /\ batch # <<>>
    /\ BeginFlush(batch)
    /\ UNCHANGED <<callVars, queue, retries, last, startVars, ghostVars>>

\* takeScopeRetries, prepended to the batch.
RetryTick ==
    /\ worker = "receiving" /\ retries # <<>>
    /\ BeginFlush(retries \o batch)
    /\ retries' = <<>>
    /\ UNCHANGED <<callVars, queue, last, startVars, ghostVars>>

\* The channel is closed and drained: batch, then retries, are flushed once.
ChannelClosed ==
    /\ worker = "receiving"
    /\ start = "draining" /\ queue = <<>>
    /\ retries' = <<>>
    /\ last' = TRUE
    /\ IF batch \o retries = <<>> THEN worker' = "exited" /\ UNCHANGED <<flight, batch, late>>
       ELSE BeginFlush(batch \o retries)
    /\ UNCHANGED <<callVars, queue, startVars, ghostVars>>

-----------------------------------------------------------------------------
\* The events in watch_scopes.
Landed == UNION {insert.rows : insert \in Range(landed)}

\* An insert that brings nothing new leaves no trace among them.
Land(rows) ==
    landed' = IF rows \subseteq Landed THEN landed ELSE Append(landed, [batch |-> flight, rows |-> rows])

Return ==
    /\ worker' = IF last THEN "exited" ELSE "receiving"
    /\ flight' = <<>>
    /\ late' = FALSE

\* flushScopeBatch: one of the attempts succeeds.
FlushSucceeds ==
    /\ worker = "flushing"
    /\ ~(ctxDone /\ ~late)
    /\ Land(Range(flight))
    /\ Return
    /\ UNCHANGED <<callVars, queue, batch, retries, last, startVars, lost, drainFailed, faults>>

\* Mutant: a batch that failed replaces what is waiting.
QueueScopeRetriesReplaces(events) ==
    /\ retries' = events
    /\ lost' = lost

queueScopeRetries(events) ==
    LET queued == retries \o events
        overflow == IF Len(queued) > RetryQueueMax THEN Len(queued) - RetryQueueMax ELSE 0
    IN  /\ retries' = SubSeq(queued, overflow + 1, Len(queued))
        /\ lost' = lost \cup Range(SubSeq(queued, 1, overflow))

\* Every attempt failed: the backend is unreachable, or the writer was cancelled
\* in the middle.  Some or all of it may have landed although the answer is lost.
FlushFails ==
    /\ worker = "flushing"
    /\ \/ faults < MaxFaults /\ faults' = faults + 1
       \/ ctxDone /\ ~late /\ UNCHANGED faults
    /\ \E some \in SUBSET Range(flight) : Land(some)
    /\ queueScopeRetries(flight)
    /\ drainFailed' = (drainFailed \/ late)
    /\ Return
    /\ UNCHANGED <<callVars, queue, batch, last, startVars>>

Worker ==
    \/ ReceiveScopeEvent \/ BatchMaxWaitElapses \/ RetryTick \/ ChannelClosed
    \/ FlushSucceeds \/ FlushFails

-----------------------------------------------------------------------------
Cancel ==
    /\ ~ctxDone
    /\ ctxDone' = TRUE
    /\ UNCHANGED <<callVars, queue, batch, flight, retries, worker, last, late, start, ghostVars>>

StopAccepting ==
    /\ ctxDone /\ start = "running"
    /\ start' = "closing"
    /\ UNCHANGED <<callVars, queue, batch, flight, retries, worker, last, late, ctxDone, ghostVars>>

CloseScopeEvents ==
    /\ start = "closing" /\ ~sending
    /\ start' = "draining"
    /\ UNCHANGED <<callVars, queue, batch, flight, retries, worker, last, late, ctxDone, ghostVars>>

Next ==
    \/ BeginEnqueueScopeEvent \/ GiveUpScopeEvent
    \/ \E e \in Events \ accepted : SendScopeEvent(e)
    \/ Worker
    \/ Cancel \/ StopAccepting \/ CloseScopeEvents

Spec == Init /\ [][Next]_vars

\* The worker keeps running, its ticker keeps firing, an attempt always ends.
Fairness == WF_vars(Worker)

-----------------------------------------------------------------------------
\* Where an event that was accepted and not written can still be.
Kept == Range(queue) \cup Range(batch) \cup Range(flight) \cup Range(retries)

\* An event is never in two places of the worker at once.
HeldOnce == IsInjective(flight \o retries \o batch \o queue)

\* A shutdown strands no epoch that was only waiting on a retry: when the worker
\* has left and no flush of the drain failed, every accepted event was written.
NoneStranded ==
    worker = "exited" /\ ~drainFailed => accepted \subseteq Landed \cup lost
=============================================================================
