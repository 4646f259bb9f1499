-------------------------- MODULE PipelineHistory --------------------------
(***************************************************************************)
(* What the durable rows of an object add up to while nothing fails, and   *)
(* the inductive invariant behind it.                                      *)
(*                                                                         *)
(* Versions of a key's slot start again at 1 once a Deleted                *)
(* acknowledgement has emptied it (Reserve), so an older write that is     *)
(* still in flight then carries a version that a newer entry will get, and *)
(* its late Commit takes that entry for its own.  The statements end where *)
(* this becomes possible (reissued).                                       *)
(***************************************************************************)
EXTENDS Pipeline, Functions

-----------------------------------------------------------------------------
(***************************************************************************)
(* Properties.                                                             *)
(***************************************************************************)

\* No write has failed, the scope has been watched without a break, and no slot
\* was emptied under a write.
Undisturbed == faults = 0 /\ passes = 0 /\ ~reissued

\* In an undisturbed history a quiet key's latest row is the state its object has
\* now, or a Deleted row: writes that settle out of order and keys that come back
\* while they do lose nothing (processUpsert).
RecordedUndisturbed == Undisturbed => RecordedWhenQuiet

\* The rows of one object up to and including r.
HistoryTo(r) == {x \in rows : x.key = r.key /\ x.uid = r.uid /\ x.ts <= r.ts}

DiffOnly(r) == r.type = "Modified" /\ ~r.full

\* Replaying the undisturbed history of a quiet key works: the state a diff patches
\* is the state of the object's previous row (docs/SCHEMA.md, "Reconstructing
\* state").
ReplayChain ==
    \A r \in rows : Undisturbed /\ DiffOnly(r) /\ Observed(r.key) /\ Quiet(r.key) =>
        \E p \in HistoryTo(r) \ {r} :
            /\ p.hash = r.base
            /\ \A x \in HistoryTo(r) \ {r} : x.ts <= p.ts

\* S has at most n elements: they can be numbered from 1 to n.
Numbered(S, n) == ExistsInjection(S, 1 .. n)

\* Such a reconstruction starts from a row with the full state and applies fewer
\* than CheckpointEvery patches (checkpointDue; the size trigger only shortens a
\* run).
PatchRunBounded ==
    \A r \in rows :
        Undisturbed /\ DiffOnly(r) /\ Observed(r.key) /\ Quiet(r.key) /\ CheckpointEvery > 0 =>
            \E p \in HistoryTo(r) :
                /\ p.full
                /\ Numbered({x \in HistoryTo(r) : x.ts > p.ts}, CheckpointEvery - 1)

-----------------------------------------------------------------------------
(***************************************************************************)
(* The inductive invariant behind them.  It speaks of the records issued   *)
(* for a key, durable or not, which no settlement changes.  The operators  *)
(* on a set R of such records come first.                                  *)
(***************************************************************************)
Newest(R, r) == \A x \in R : x.ts <= r.ts

LastIs(R, uid, hash) ==
    \E r \in R : Newest(R, r) /\ r.type # "Deleted" /\ r.uid = uid /\ r.hash = hash

LastDeleted(R) == \A r \in R : Newest(R, r) => r.type = "Deleted"

\* The object has a full record in R and at most n after it.
Since(R, p) == {x \in R : x.uid = p.uid /\ x.ts > p.ts}

RunAtMost(R, uid, n) ==
    \E p \in R :
        p.uid = uid /\ p.full /\ Numbered(Since(R, p), n)

\* The record a diff patches is the object's one right before it, ...
DiffBased(R, r) ==
    \E p \in R :
        /\ p.uid = r.uid /\ p.ts < r.ts /\ p.hash = r.base
        /\ \A x \in R : x.uid = r.uid /\ x # r /\ x.ts <= r.ts => x.ts <= p.ts

\* ... and a full one is not far back.
Between(R, p, r) == {x \in R : x.uid = r.uid /\ p.ts < x.ts /\ x.ts <= r.ts}

DiffBounded(R, r) ==
    CheckpointEvery > 0 =>
        \E p \in R :
            /\ p.uid = r.uid /\ p.full /\ p.ts <= r.ts
            /\ Numbered(Between(R, p, r), CheckpointEvery - 1)

DiffsTrue(R) == \A r \in R : DiffOnly(r) => DiffBased(R, r) /\ DiffBounded(R, r)

Issued(k) == RowsOf(k) \cup {RowOf(j) : j \in Unsettled(k)}

\* Timestamps come from the clock.
Stamped(k) == \A r \in Issued(k) : r.ts \in Nat /\ r.ts <= clock

\* The slot describes the record issued last.
SlotTrue(k) ==
    IF Present(cache[k]) /\ ~cache[k].pending
    THEN /\ LastIs(Issued(k), cache[k].uid, cache[k].hash)
         /\ RunAtMost(Issued(k), cache[k].uid, cache[k].run)
    ELSE LastDeleted(Issued(k))

\* A write in flight has a version no newer entry has: its Commit leaves the slot as
\* it is, unless it is the Deleted write of the claim.
VersionHeld(cur, j) ==
    j.kind # "closeOut" =>
        /\ j.version <= cur.version
        /\ j.version = cur.version =>
              IF j.kind = "upsert"
              THEN cur = [j.entry EXCEPT !.version = j.version]
              ELSE cur.pending

VersionsHeld(k) == \A j \in Unsettled(k) : VersionHeld(cache[k], j)

\* A diff about to be reserved patches the record issued last, and does not make a
\* checkpoint due.
DiffReady(R, w) ==
    /\ LastIs(R, w.obj.uid, w.job.base)
    /\ 0 < w.job.entry.run /\ RunAtMost(R, w.obj.uid, w.job.entry.run - 1)
    /\ CheckpointEvery > 0 => w.job.entry.run < CheckpointEvery

\* What a Process call holds agrees with the object it read.
CallTrue(R, w) ==
    /\ w.pc = "reserve" =>
          /\ w.job.uid = w.obj.uid /\ w.job.hash = w.obj.hash
          /\ w.job.entry.uid = w.obj.uid /\ w.job.entry.hash = w.obj.hash
          /\ w.job.full \/ DiffReady(R, w)
    /\ w.pc = "enqueue" =>
          IF w.job.kind = "delete" THEN w.obj.uid = 0 /\ LastDeleted(R)
                                   ELSE LastIs(R, w.obj.uid, w.obj.hash)

Settled(R, obj) == IF obj.uid = 0 THEN LastDeleted(R) ELSE LastIs(R, obj.uid, obj.hash)

\* What is not queued has been read, and what was read and is not being processed
\* has been issued.
SeenTrue(k) ==
    /\ k \notin listed =>
          k \notin dirty /\ work[k].pc = "idle" /\ Issued(k) = {} /\ ~Present(cache[k])
    /\ k \in listed /\ k \notin dirty =>
          IF work[k].pc = "idle" THEN Settled(Issued(k), live[k]) ELSE work[k].obj = live[k]

KeyTrue(k) ==
    /\ Stamped(k) /\ SlotTrue(k) /\ VersionsHeld(k) /\ CallTrue(Issued(k), work[k])
    /\ SeenTrue(k) /\ DiffsTrue(Issued(k))

\* No baseline is kept of an Event, so no diff of one is written.
Whole(j) == ~DiffOnly(j) /\ ~j.entry.json

EventTrue(k) ==
    /\ ~cache[k].json
    /\ Whole(work[k].job)
    /\ \A j \in jobs : j.key = k => Whole(j)
    /\ \A r \in RowsOf(k) : ~DiffOnly(r)

KeysTrue ==
    /\ scope = "active" /\ \A k \in Keys : closeOuts[k] = {}
    /\ \A k \in Keys : IF k \in EphemeralKeys THEN EventTrue(k) ELSE KeyTrue(k)

HistoryInv == Undisturbed => KeysTrue
=============================================================================
