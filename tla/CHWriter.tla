------------------------------ MODULE CHWriter ------------------------------
(***************************************************************************)
(* The ClickHouse writer, internal/sink/clickhouse/writer.go: callers hand *)
(* jobs to a bounded queue, workers gather them into batches, send each    *)
(* batch with retries, fall back to one attempt per row, and settle every  *)
(* job through its commit callback; Start shuts all of it down in a fixed  *)
(* order and closes the connection last.                                   *)
(*                                                                         *)
(* A goroutine is interrupted wherever another one can see or change what  *)
(* it works on: between the closing check of Enqueue and its send, between *)
(* two attempts, between two callbacks and between the steps of Start.     *)
(* Timers and deadlines may pass at any time.                              *)
(***************************************************************************)
EXTENDS Naturals, Sequences, FiniteSets, Functions

CONSTANTS
    Jobs,          \* one Enqueue call each
    Poison,        \* the jobs whose row the backend rejects
    Workers,       \* CHWriter.workers
    Users,         \* callers that share the connection: probes, state reads, DDL
    QueueSize,     \* capacity of CHWriter.jobs
    BatchMaxRows,  \* CHWriter.batchMaxRows
    MaxAttempts,   \* bound: attempts of a batch before the backoff gives up
    MaxFaults      \* bound: attempts that fail through no fault of a row

ASSUME CHWriterAssumption ==
    /\ Poison \subseteq Jobs
    /\ Workers # {}
    /\ QueueSize \in Nat \ {0} /\ BatchMaxRows \in Nat \ {0}
    /\ MaxAttempts \in Nat \ {0} /\ MaxFaults \in Nat

VARIABLES
    call,         \* each Enqueue call: "idle", "sending", "accepted", "refused"
    queue,        \* CHWriter.jobs
    batch,        \* each worker's batch
    at,           \* each worker: "receiving", "sending", "committing", "isolating", "exited"
    done,         \* rows of the worker's batch that are settled, attempts while sending
    under,        \* the context of each worker's flush: "run", "background", "drain"
    late,         \* the worker's flush began after the cancellation
    settled,      \* what each job's callback was called with, and whether late
    durable,      \* the jobs whose row ClickHouse holds
    user,         \* each user of the connection: "idle", "using"
    start,        \* how far Start has come
    ctxDone,      \* the writer's context is cancelled
    drainExpired, \* shutdownDrainTimeout has passed since
    faults

callVars == <<call, queue>>
workerVars == <<batch, at, done, under, late>>
rowVars == <<settled, durable, faults>>
startVars == <<user, start, ctxDone, drainExpired>>
vars == <<callVars, workerVars, rowVars, startVars>>

StartSteps == <<"running", "closing", "draining", "workersGone", "stopped">>

\* CHWriter.closing is set, the channel is closed.
Closing == start # "running"
Closed == start \notin {"running", "closing"}

Contexts == {"run", "background", "drain"}

TypeOK ==
    /\ call \in [Jobs -> {"idle", "sending", "accepted", "refused"}]
    /\ queue \in Seq(Jobs) /\ Len(queue) <= QueueSize
    /\ batch \in [Workers -> Seq(Jobs)] /\ \A w \in Workers : Len(batch[w]) <= BatchMaxRows
    /\ at \in [Workers -> {"receiving", "sending", "committing", "isolating", "exited"}]
    /\ under \in [Workers -> Contexts]
    /\ durable \subseteq Jobs
    /\ user \in [Users -> {"idle", "using"}]
    /\ start \in Range(StartSteps)

Init ==
    /\ call = [j \in Jobs |-> "idle"]
    /\ queue = <<>>
    /\ batch = [w \in Workers |-> <<>>]
    /\ at = [w \in Workers |-> "receiving"]
    /\ done = [w \in Workers |-> 0]
    /\ under = [w \in Workers |-> "run"]
    /\ late = [w \in Workers |-> FALSE]
    /\ settled = [j \in Jobs |-> <<>>]
    /\ durable = {}
    /\ user = [u \in Users |-> "idle"]
    /\ start = "running"
    /\ ctxDone = FALSE
    /\ drainExpired = FALSE
    /\ faults = 0

-----------------------------------------------------------------------------
\* Enqueue: the closing check and inflight.Add, under the lock.
BeginEnqueue(j) ==
    /\ call[j] = "idle"
    /\ call' = [call EXCEPT ![j] = IF Closing THEN "refused" ELSE "sending"]
    /\ UNCHANGED <<queue, workerVars, rowVars, startVars>>

SendJob(j) ==
    /\ call[j] = "sending"
    /\ Len(queue) < QueueSize
    /\ queue' = Append(queue, j)
    /\ call' = [call EXCEPT ![j] = "accepted"]
    /\ UNCHANGED <<workerVars, rowVars, startVars>>

\* The caller's context or the enqueue timeout fires first.
GiveUpEnqueue(j) ==
    /\ call[j] = "sending"
    /\ call' = [call EXCEPT ![j] = "refused"]
    /\ UNCHANGED <<queue, workerVars, rowVars, startVars>>

Enqueue(j) == BeginEnqueue(j) \/ SendJob(j) \/ GiveUpEnqueue(j)

-----------------------------------------------------------------------------
\* Mutant: the cancelled context is used for the drain too.
AttemptContextCancelled == "run"

\* Between the cancellation and the swap under the lock, drainCtx is still the
\* background context.
attemptContext ==
    IF ~ctxDone THEN "run" ELSE IF Closing THEN "drain" ELSE "background"

Flush(w) ==
    /\ at' = [at EXCEPT ![w] = "sending"]
    /\ done' = [done EXCEPT ![w] = 0]
    /\ under' = [under EXCEPT ![w] = attemptContext]
    /\ late' = [late EXCEPT ![w] = ctxDone]

Receive(w) ==
    /\ at[w] = "receiving"
    /\ queue # <<>>
    /\ queue' = Tail(queue)
    /\ batch' = [batch EXCEPT ![w] = Append(@, Head(queue))]
    /\ IF Len(batch'[w]) >= BatchMaxRows THEN Flush(w) ELSE UNCHANGED <<at, done, under, late>>
    /\ UNCHANGED <<call, rowVars, startVars>>

\* The timer is armed while the batch holds a job.
BatchMaxWaitElapses(w) ==
    /\ at[w] = "receiving"
    /\ batch[w] # <<>>
    /\ Flush(w)
    /\ UNCHANGED <<callVars, batch, rowVars, startVars>>

\* Mutant: a worker leaves its partial batch behind.
ChannelClosedNoFlush(w) ==
    /\ at[w] = "receiving"
    /\ Closed /\ queue = <<>>
    /\ at' = [at EXCEPT ![w] = "exited"]
    /\ UNCHANGED <<callVars, batch, done, under, late, rowVars, startVars>>

\* The channel is closed and drained: what is left is flushed, then the worker
\* returns.
ChannelClosed(w) ==
    /\ at[w] = "receiving"
    /\ Closed /\ queue = <<>>
    /\ IF batch[w] # <<>> THEN Flush(w)
       ELSE at' = [at EXCEPT ![w] = "exited"] /\ UNCHANGED <<done, under, late>>
    /\ UNCHANGED <<callVars, batch, rowVars, startVars>>

-----------------------------------------------------------------------------
\* The context of the flush no longer lets an attempt succeed.
Dead(w) ==
    \/ under[w] = "run" /\ ctxDone
    \/ under[w] = "drain" /\ drainExpired

Rows(w) == Range(batch[w])

\* An attempt to insert rows fails: a row is rejected, the context is done, or
\* the backend or the network fails.
Fails(w, rows) ==
    \/ (rows \cap Poison # {} \/ Dead(w)) /\ UNCHANGED faults
    \/ faults < MaxFaults /\ faults' = faults + 1

\* sendBatchOnce returns nil.
BatchSent(w) ==
    /\ at[w] = "sending"
    /\ Rows(w) \cap Poison = {} /\ ~Dead(w)
    /\ durable' = durable \cup Rows(w)
    /\ at' = [at EXCEPT ![w] = "committing"]
    /\ done' = [done EXCEPT ![w] = 0]
    /\ UNCHANGED <<callVars, batch, under, late, settled, faults, startVars>>

\* sendBatchOnce returns an error: nothing, some or all of the rows landed.  The
\* backoff retries the batch while its context lives, for a bounded time.
BatchFailed(w) ==
    /\ at[w] = "sending"
    /\ Fails(w, Rows(w))
    /\ \E landed \in SUBSET (Rows(w) \ Poison) : durable' = durable \cup landed
    /\ \/ /\ done[w] + 1 < MaxAttempts /\ ~Dead(w)
          /\ done' = [done EXCEPT ![w] = @ + 1]
          /\ UNCHANGED at
       \/ /\ done' = [done EXCEPT ![w] = 0]
          /\ at' = [at EXCEPT ![w] = "isolating"]
    /\ UNCHANGED <<callVars, batch, under, late, settled, startVars>>

\* The callback of the batch's next job; after the last one the worker receives
\* again, with an empty batch.
Commit(w, ok) ==
    LET j == batch[w][done[w] + 1]
    IN  /\ settled' = [settled EXCEPT ![j] = Append(@, [ok |-> ok, late |-> late[w]])]
        /\ IF done[w] + 1 = Len(batch[w])
           THEN /\ batch' = [batch EXCEPT ![w] = <<>>]
                /\ at' = [at EXCEPT ![w] = "receiving"]
                /\ done' = [done EXCEPT ![w] = 0]
           ELSE /\ done' = [done EXCEPT ![w] = @ + 1]
                /\ UNCHANGED <<batch, at>>
        /\ UNCHANGED <<callVars, under, late, startVars>>

CommitSent(w) ==
    /\ at[w] = "committing"
    /\ Commit(w, TRUE)
    /\ UNCHANGED <<durable, faults>>

\* Mutant: the isolation phase reports what the batch's retries suggest.
IsolateRowLies(w) ==
    LET j == batch[w][done[w] + 1]
    IN  /\ at[w] = "isolating"
        /\ Commit(w, TRUE)
        /\ Fails(w, {j}) /\ UNCHANGED durable

\* flushBatch, the isolation phase: each row is attempted once on its own.
IsolateRow(w) ==
    LET j == batch[w][done[w] + 1]
    IN  /\ at[w] = "isolating"
        /\ \/ /\ j \notin Poison /\ ~Dead(w)
              /\ durable' = durable \cup {j}
              /\ Commit(w, TRUE)
              /\ UNCHANGED faults
           \/ /\ Fails(w, {j})
              /\ durable' \in {durable} \cup (IF j \in Poison THEN {} ELSE {durable \cup {j}})
              /\ Commit(w, FALSE)

Worker(w) ==
    \/ Receive(w) \/ BatchMaxWaitElapses(w) \/ ChannelClosed(w)
    \/ BatchSent(w) \/ BatchFailed(w) \/ CommitSent(w) \/ IsolateRow(w)

-----------------------------------------------------------------------------
\* Probe, LastKnownStates, startAutoCreate: otherUsers.Add under the closing check.
BeginUse(u) ==
    /\ user[u] = "idle"
    /\ ~Closing
    /\ user' = [user EXCEPT ![u] = "using"]
    /\ UNCHANGED <<callVars, workerVars, rowVars, start, ctxDone, drainExpired>>

EndUse(u) ==
    /\ user[u] = "using"
    /\ user' = [user EXCEPT ![u] = "idle"]
    /\ UNCHANGED <<callVars, workerVars, rowVars, start, ctxDone, drainExpired>>

Cancel ==
    /\ ~ctxDone
    /\ ctxDone' = TRUE
    /\ UNCHANGED <<callVars, workerVars, rowVars, user, start, drainExpired>>

ExpireDrain ==
    /\ Closing /\ ~drainExpired
    /\ drainExpired' = TRUE
    /\ UNCHANGED <<callVars, workerVars, rowVars, user, start, ctxDone>>

StartMoves(from, to) ==
    /\ start = from
    /\ start' = to
    /\ UNCHANGED <<callVars, workerVars, rowVars, user, ctxDone, drainExpired>>

\* closing is set and drainCtx swapped, under the lock.
StopAccepting == ctxDone /\ StartMoves("running", "closing")

\* Mutant: the channel is closed while senders are still under way.
CloseJobsAtOnce == StartMoves("closing", "draining")

\* inflight.Wait, then close(jobs).
CloseJobs == (\A j \in Jobs : call[j] # "sending") /\ StartMoves("closing", "draining")

AwaitWorkers == (\A w \in Workers : at[w] = "exited") /\ StartMoves("draining", "workersGone")

\* otherUsers.Wait, then conn.Close.
CloseConn == (\A u \in Users : user[u] = "idle") /\ StartMoves("workersGone", "stopped")

Start == StopAccepting \/ CloseJobs \/ AwaitWorkers \/ CloseConn

Next ==
    \/ \E j \in Jobs : Enqueue(j)
    \/ \E w \in Workers : Worker(w)
    \/ \E u \in Users : BeginUse(u) \/ EndUse(u)
    \/ Cancel
    \/ ExpireDrain
    \/ Start

Spec == Init /\ [][Next]_vars

(***************************************************************************)
(* Every goroutine keeps running; an Enqueue call ends because its timer   *)
(* does, a use of the connection because its context does.  Nothing is     *)
(* assumed of the cancellation, and nothing of the backend: a failed       *)
(* attempt is a step too.                                                  *)
(***************************************************************************)
Fairness ==
    /\ \A j \in Jobs : WF_vars(GiveUpEnqueue(j) \/ SendJob(j))
    /\ \A w \in Workers : WF_vars(Worker(w))
    /\ \A u \in Users : WF_vars(EndUse(u))
    /\ WF_vars(Start)

FairSpec == Spec /\ Fairness

-----------------------------------------------------------------------------
\* No send meets a closed channel, and nothing uses a closed connection: when
\* Start has closed it, no caller is still sending, the queue is drained, every
\* worker has left with an empty batch and no probe or state read is under way
\* (the order of Start's steps, the closing checks).
ClosedLast ==
    /\ Closed => \A j \in Jobs : call[j] # "sending"
    /\ start = "stopped" =>
        /\ queue = <<>>
        /\ \A w \in Workers : at[w] = "exited" /\ batch[w] = <<>>
        /\ \A u \in Users : user[u] = "idle"

\* The rows of a worker's batch whose callback has not fired.
Unsettled(w) ==
    {i \in DOMAIN batch[w] : at[w] \in {"committing", "isolating"} => i > done[w]}

Owed(j) == call[j] = "accepted" /\ settled[j] = <<>>

\* An accepted job is in exactly one place until its callback fires, and nowhere
\* afterwards: once in the queue or once, not yet settled, in the batch of one
\* worker.  Neither the hand-over to a worker nor the way from the batch attempt
\* to the isolation phase loses or doubles it (Enqueue, worker, flushBatch).
HeldOnce ==
    /\ \A i \in DOMAIN queue : Owed(queue[i])
    /\ \A w \in Workers : \A i \in Unsettled(w) : Owed(batch[w][i])
    /\ \A i, k \in DOMAIN queue : queue[i] = queue[k] => i = k
    /\ \A v, w \in Workers : \A i \in Unsettled(v), k \in Unsettled(w) :
           batch[v][i] = batch[w][k] => v = w /\ i = k
    /\ \A i \in DOMAIN queue : \A w \in Workers : \A k \in Unsettled(w) : queue[i] # batch[w][k]
    /\ \A j \in Jobs : Owed(j) =>
           \/ \E i \in DOMAIN queue : queue[i] = j
           \/ \E w \in Workers : \E i \in Unsettled(w) : batch[w][i] = j

\* One bad row does not doom its batch-mates, and a job that is flushed after the
\* shutdown began has a genuine chance: a job settled as failed is itself
\* rejected, or an attempt failed through the backend, or the writer was cancelled
\* in the middle of its flush, or, for a flush that began after the cancellation,
\* the drain's time was up (flushBatch's isolation phase, attemptContext).
OnlyTheGuiltyFail ==
    \A j \in Jobs : \A i \in DOMAIN settled[j] :
        \/ settled[j][i].ok
        \/ j \in Poison
        \/ faults > 0
        \/ IF settled[j][i].late THEN drainExpired ELSE ctxDone

-----------------------------------------------------------------------------
\* A job's fate as its caller and its callback tell it; a job settled twice has
\* no fate of the contract.
Fate(j) ==
    CASE settled[j] # <<>> -> IF Len(settled[j]) > 1 THEN "twice"
                              ELSE IF settled[j][1].ok THEN "ok" ELSE "failed"
      [] Owed(j) -> "accepted"
      [] call[j] = "refused" /\ settled[j] = <<>> -> "refused"
      [] OTHER -> "new"

Contract == INSTANCE WriteContract WITH fate <- [j \in Jobs |-> Fate(j)], durable <- durable

\* The writer keeps the sink's contract: every commit callback fires at most once,
\* for accepted jobs only, and reports success only of a durable row, whatever the
\* attempts, the isolation phase and the shutdown do (flushBatch: "Every commit
\* callback fires exactly once per job across all paths").
KeepsContract == Contract!Spec

\* An accepted job's callback fires, also when the shutdown overtakes it.
SettlesAccepted == Contract!AcceptedIsSettled

\* Once its context is cancelled the writer stops and closes its connection.
Stops == ctxDone ~> start = "stopped"
=============================================================================
