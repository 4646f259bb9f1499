----------------------- MODULE PipelineHistoryProofs ------------------------
(***************************************************************************)
(* HistoryInv is an invariant of the write path, and with it the rows of   *)
(* an undisturbed history add up: RecordedUndisturbed, ReplayChain and     *)
(* PatchRunBounded hold for every set of keys and every bound.             *)
(*                                                                         *)
(* The argument: a record is issued with a timestamp of its own by one of  *)
(* three steps (ClaimDelete, ClaimOldIncarnation, ReserveVersion), each of *)
(* which leaves the slot describing it.  Enqueueing and settling move the  *)
(* record and leave the set of issued records as it is; a Commit leaves    *)
(* the slot as it is, too, because it finds its own entry or a newer       *)
(* version there.  So what a call reads from the slot is the last record   *)
(* issued, which is what it has to compare, to diff and to delete.         *)
(***************************************************************************)
EXTENDS PipelineHistory, PipelineSafetyProofs

\* The prover of a leaf that names none; SMT is named where arithmetic is needed.
USE ZenonT(60)

-----------------------------------------------------------------------------
(***************************************************************************)
(* What one more record, newer than the others, does to a set of records.  *)
(***************************************************************************)
Older(R, c) == \A r \in R : r.ts \in Nat /\ r.ts <= c

\* The new record is the only newest one.
LEMMA NewestAdded ==
    ASSUME NEW R, NEW n, NEW c \in Nat, Older(R, c), n.ts = c + 1
    PROVE  /\ Newest(R \cup {n}, n)
           /\ \A r \in R : ~Newest(R \cup {n}, r)
           /\ n \notin R
  BY SMTT(60) DEF Older, Newest

\* A Deleted record ends the history, any other one is its last state.
LEMMA LastAdded ==
    ASSUME NEW R, NEW n, NEW c \in Nat, Older(R, c), n.ts = c + 1
    PROVE  /\ n.type = "Deleted" => LastDeleted(R \cup {n})
           /\ n.type # "Deleted" => LastIs(R \cup {n}, n.uid, n.hash)
  BY NewestAdded DEF LastDeleted, LastIs

\* An empty set needs no numbers, one more element needs one more, and more numbers
\* than needed do no harm.
LEMMA Numbering ==
    ASSUME NEW S, NEW m \in Nat
    PROVE  /\ Numbered({}, m)
           /\ Numbered(S, m) => \A x : Numbered(S \cup {x}, m + 1)
           /\ Numbered(S, m) => \A n \in Nat : m <= n => Numbered(S, n)
  <1>1. Numbered({}, m)
    <2>1. [x \in {} |-> 1] \in Injection({}, 1 .. m)
      BY SMTT(60) DEF Injection, IsInjective
    <2>2. QED
      BY <2>1 DEF Numbered, ExistsInjection
  <1>2. ASSUME Numbered(S, m), NEW x PROVE Numbered(S \cup {x}, m + 1)
    <2>1. PICK f \in [S -> 1 .. m] : \A a, b \in S : f[a] = f[b] => a = b
      BY <1>2, SMTT(60) DEF Numbered, ExistsInjection, Injection, IsInjective
    <2> DEFINE g == [y \in S \cup {x} |-> IF y \in S THEN f[y] ELSE m + 1]
    <2>2. g \in [S \cup {x} -> 1 .. (m + 1)]
      BY <2>1, SMTT(60)
    <2>3. \A a, b \in S \cup {x} : g[a] = g[b] => a = b
      BY <2>1, SMTT(60)
    <2>4. g \in Injection(S \cup {x}, 1 .. (m + 1))
      BY <2>2, <2>3 DEF Injection, IsInjective
    <2>5. QED
      BY <2>4 DEF Numbered, ExistsInjection
  <1>3. ASSUME Numbered(S, m), NEW n \in Nat, m <= n PROVE Numbered(S, n)
    <2>1. PICK f \in [S -> 1 .. m] : \A a, b \in S : f[a] = f[b] => a = b
      BY <1>3 DEF Numbered, ExistsInjection, Injection, IsInjective
    <2>2. f \in [S -> 1 .. n]
      BY <1>3, <2>1, SMTT(60)
    <2>3. f \in Injection(S, 1 .. n)
      BY <2>1, <2>2, SMTT(60) DEF Injection, IsInjective
    <2>4. QED
      BY <2>3 DEF Numbered, ExistsInjection
  <1>4. QED
    BY <1>1, <1>2, <1>3

\* A full record starts a run, any other one makes its object's run longer.
LEMMA RunAdded ==
    ASSUME NEW R, NEW n, NEW c \in Nat, Older(R, c), n.ts = c + 1, NEW m \in Nat
    PROVE  /\ n.full => RunAtMost(R \cup {n}, n.uid, m)
           /\ RunAtMost(R, n.uid, m) => RunAtMost(R \cup {n}, n.uid, m + 1)
  <1>1. ASSUME n.full PROVE RunAtMost(R \cup {n}, n.uid, m)
    <2>1. Since(R \cup {n}, n) = {}
      BY SMTT(60) DEF Since, Older
    <2>2. Numbered(Since(R \cup {n}, n), m)
      BY <2>1, Numbering
    <2>3. QED
      BY <1>1, <2>2 DEF RunAtMost
  <1>2. ASSUME RunAtMost(R, n.uid, m) PROVE RunAtMost(R \cup {n}, n.uid, m + 1)
    <2>1. PICK p \in R : p.uid = n.uid /\ p.full /\ Numbered(Since(R, p), m)
      BY <1>2 DEF RunAtMost
    <2>2. Since(R \cup {n}, p) = Since(R, p) \cup {n}
      BY <2>1, SMTT(60) DEF Since, Older
    <2>3. Numbered(Since(R \cup {n}, p), m + 1)
      <3> DEFINE S == Since(R, p)
      <3>1. Numbered(S, m)
        BY <2>1
      <3> HIDE DEF S
      <3>2. Numbered(S \cup {n}, m + 1)
        BY <3>1, Numbering
      <3>3. QED
        BY <2>2, <3>2 DEF S
    <2>4. QED
      BY <2>1, <2>3 DEF RunAtMost
  <1>3. QED
    BY <1>1, <1>2

\* The diffs of R keep their bases, and the new record has one when it is a diff of
\* the last state within the run's bound.
LEMMA DiffsAdded ==
    ASSUME NEW R, NEW n, NEW c \in Nat, Older(R, c), n.ts = c + 1, DiffsTrue(R), NEW m \in Nat,
           DiffOnly(n) => /\ LastIs(R, n.uid, n.base) /\ RunAtMost(R, n.uid, m)
                          /\ CheckpointEvery > 0 => m + 1 < CheckpointEvery
    PROVE  DiffsTrue(R \cup {n})
  <1> DEFINE S == R \cup {n}
  <1>1. ASSUME NEW r \in R, DiffOnly(r) PROVE DiffBased(S, r) /\ DiffBounded(S, r)
    <2>1. DiffBased(R, r) /\ DiffBounded(R, r)
      BY <1>1 DEF DiffsTrue
    <2>2. ~(n.ts <= r.ts)
      BY SMTT(60) DEF Older
    <2>3. DiffBased(S, r)
      BY <2>1, <2>2 DEF DiffBased
    <2>4. ASSUME NEW p \in R PROVE Between(S, p, r) = Between(R, p, r)
      BY <2>2 DEF Between
    <2>5. DiffBounded(S, r)
      BY <2>1, <2>4 DEF DiffBounded
    <2>6. QED
      BY <2>3, <2>5
  <1>2. ASSUME DiffOnly(n) PROVE DiffBased(S, n) /\ DiffBounded(S, n)
    <2>1. PICK p \in R : Newest(R, p) /\ p.uid = n.uid /\ p.hash = n.base
      BY <1>2 DEF LastIs
    <2>2. p.ts < n.ts
      BY SMTT(60) DEF Older
    <2>3. DiffBased(S, n)
      BY <2>1, <2>2 DEF DiffBased, Newest
    <2>4. ASSUME CheckpointEvery > 0
          PROVE  \E f \in S : /\ f.uid = n.uid /\ f.full /\ f.ts <= n.ts
                              /\ Numbered(Between(S, f, n), CheckpointEvery - 1)
      <3>1. RunAtMost(S, n.uid, m + 1)
        BY <1>2, RunAdded
      <3>2. PICK f \in S : f.uid = n.uid /\ f.full /\ Numbered(Since(S, f), m + 1)
        BY <3>1 DEF RunAtMost
      <3>3. \A x \in S : x.ts <= n.ts
        BY NewestAdded DEF Newest
      <3>4. Between(S, f, n) = Since(S, f)
        <4>1. \A x \in S : x.ts > f.ts <=> f.ts < x.ts
          BY SMTT(60) DEF Older
        <4>2. QED
          BY <3>2, <3>3, <4>1 DEF Between, Since
      <3>5. m + 1 \in Nat /\ CheckpointEvery - 1 \in Nat /\ m + 1 <= CheckpointEvery - 1
        BY <1>2, <2>4, ConstantsAssumption, SMTT(60)
      <3>6. Numbered(Between(S, f, n), CheckpointEvery - 1)
        BY <3>2, <3>4, <3>5, Numbering
      <3>7. QED
        BY <3>2, <3>3, <3>6
    <2>5. DiffBounded(S, n)
      BY <2>4 DEF DiffBounded
    <2>6. QED
      BY <2>3, <2>5
  <1>3. QED
    BY <1>1, <1>2 DEF DiffsTrue

-----------------------------------------------------------------------------
(***************************************************************************)
(* What a step does to the records of one key.                             *)
(***************************************************************************)
LEMMA IssuedKept ==
    ASSUME NEW k \in Keys, rows' = rows, Unsettled(k)' = Unsettled(k)
    PROVE  Issued(k)' = Issued(k)
  BY DEF Issued, RowsOf

\* A step that issues nothing and leaves the slot alone keeps all but what depends
\* on the call and on what was seen.
LEMMA KeyMoved ==
    ASSUME NEW k \in Keys, KeyTrue(k), TypeOK, TypeOK',
           Issued(k)' = Issued(k), Unsettled(k)' \subseteq Unsettled(k),
           cache'[k] = cache[k], clock <= clock',
           CallTrue(Issued(k), work'[k]), SeenTrue(k)'
    PROVE  KeyTrue(k)'
  <1>1. Stamped(k)'
    <2>1. clock \in Nat /\ clock' \in Nat
      BY DEF TypeOK
    <2>2. QED
      BY <2>1, SMTT(60) DEF KeyTrue, Stamped
  <1>2. SlotTrue(k)'
    BY DEF KeyTrue, SlotTrue
  <1>3. VersionsHeld(k)'
    BY DEF KeyTrue, VersionsHeld
  <1>4. CallTrue(Issued(k), work[k])' /\ DiffsTrue(Issued(k))'
    BY DEF KeyTrue
  <1>5. QED
    BY <1>1, <1>2, <1>3, <1>4 DEF KeyTrue

\* A step that does not concern the key.
LEMMA KeyUntouched ==
    ASSUME NEW k \in Keys, KeyTrue(k), TypeOK, TypeOK',
           Issued(k)' = Issued(k), Unsettled(k)' \subseteq Unsettled(k),
           cache'[k] = cache[k], work'[k] = work[k], live'[k] = live[k], clock <= clock',
           k \in dirty' <=> k \in dirty, k \in listed' <=> k \in listed
    PROVE  KeyTrue(k)'
  <1>1. SeenTrue(k)'
    BY DEF KeyTrue, SeenTrue
  <1>2. CallTrue(Issued(k), work'[k])
    BY DEF KeyTrue
  <1>3. QED
    BY <1>1, <1>2, KeyMoved

\* The records of a key are jobs.
LEMMA UnsettledJobs ==
    ASSUME TypeOK, NEW k \in Keys PROVE Unsettled(k) \subseteq Job
  BY LocalsType DEF Unsettled, TypeOK

InHandAt == {"closeOut", "enqueue"}

\* A call that has no record in hand, before and after the step.
LEMMA UnsettledSame ==
    ASSUME NEW k \in Keys, jobs' = jobs, work[k].pc \notin InHandAt, work'[k].pc \notin InHandAt
    PROVE  Unsettled(k)' = Unsettled(k)
  BY DEF Unsettled, InHandAt

\* A call that hands its record to the sink.
LEMMA UnsettledAccepted ==
    ASSUME NEW k \in Keys, jobs' = jobs \cup {work[k].job}, work[k].job.key = k,
           work[k].pc \in InHandAt, work'[k].pc \notin InHandAt
    PROVE  Unsettled(k)' = Unsettled(k)
  BY DEF Unsettled, InHandAt

\* A call that issues the record j.
LEMMA RecordIssued ==
    ASSUME NEW k \in Keys, jobs' = jobs, rows' = rows, NEW j, work'[k].job = j,
           work[k].pc \notin InHandAt, work'[k].pc \in InHandAt
    PROVE  Unsettled(k)' = Unsettled(k) \cup {j} /\ Issued(k)' = Issued(k) \cup {RowOf(j)}
  <1>1. Unsettled(k)' = Unsettled(k) \cup {j}
    BY DEF Unsettled, InHandAt
  <1>2. {RowOf(x) : x \in Unsettled(k) \cup {j}} = {RowOf(x) : x \in Unsettled(k)} \cup {RowOf(j)}
    OBVIOUS
  <1>3. QED
    BY <1>1, <1>2 DEF Issued, RowsOf

LEMMA RowFields ==
    ASSUME NEW j
    PROVE  /\ RowOf(j).ts = j.ts /\ RowOf(j).type = j.type /\ RowOf(j).uid = j.uid
           /\ RowOf(j).hash = j.hash /\ RowOf(j).base = j.base /\ RowOf(j).full = j.full
           /\ RowOf(j).key = j.key /\ (DiffOnly(RowOf(j)) <=> DiffOnly(j))
  BY DEF RowOf, DiffOnly

\* A step that issues j and leaves the slot describing it.
LEMMA KeyIssued ==
    ASSUME NEW k \in Keys, KeyTrue(k), TypeOK, TypeOK', NEW j \in Job, j.ts = clock + 1,
           clock' = clock + 1, jobs' = jobs, rows' = rows,
           work'[k].job = j, work'[k].obj = work[k].obj,
           work[k].pc \notin InHandAt \cup {"idle"}, work'[k].pc \in InHandAt,
           listed' = listed, dirty' = dirty, live' = live,
           cache'[k].version = cache[k].version + 1, VersionHeld(cache'[k], j),
           NEW m \in Nat,
           DiffOnly(j) => /\ LastIs(Issued(k), j.uid, j.base) /\ RunAtMost(Issued(k), j.uid, m)
                          /\ CheckpointEvery > 0 => m + 1 < CheckpointEvery,
           SlotTrue(k)', CallTrue(Issued(k), work[k])'
    PROVE  KeyTrue(k)'
  <1>0. clock \in Nat /\ Older(Issued(k), clock)
    BY DEF KeyTrue, Stamped, Older, TypeOK
  <1>1. Unsettled(k)' = Unsettled(k) \cup {j} /\ Issued(k)' = Issued(k) \cup {RowOf(j)}
    BY RecordIssued
  <1>2. Stamped(k)'
    BY <1>0, <1>1, RowFields, SMTT(60) DEF Stamped, Older
  <1>3. VersionsHeld(k)'
    <2>1. cache[k] \in CacheEntry /\ cache[k].version \in Nat
      BY LocalsType DEF CacheEntry
    <2>2. ASSUME NEW x \in Unsettled(k) PROVE VersionHeld(cache'[k], x)
      <3>1. VersionHeld(cache[k], x) /\ x.version \in Nat
        BY <2>2, UnsettledJobs DEF KeyTrue, VersionsHeld, Job
      <3>2. QED
        BY <2>1, <3>1, SMTT(60) DEF VersionHeld
    <2>3. QED
      BY <1>1, <2>2 DEF VersionsHeld
  <1>4. DiffsTrue(Issued(k)')
    <2>1. DiffsTrue(Issued(k))
      BY DEF KeyTrue
    <2> DEFINE n == RowOf(j)
               R == Issued(k)
    <2>2. /\ n.ts = clock + 1
          /\ DiffOnly(n) => /\ LastIs(R, n.uid, n.base) /\ RunAtMost(R, n.uid, m)
                            /\ CheckpointEvery > 0 => m + 1 < CheckpointEvery
      BY RowFields
    <2>3. Older(R, clock) /\ DiffsTrue(R) /\ clock \in Nat
      BY <1>0, <2>1
    <2> HIDE DEF n, R
    <2>4. DiffsTrue(R \cup {n})
      BY <2>2, <2>3, DiffsAdded
    <2>5. QED
      BY <1>1, <2>4 DEF n, R
  <1>5. SeenTrue(k)'
    <2>1. work'[k].pc # "idle" /\ work[k].pc # "idle"
      BY DEF InHandAt
    <2>2. QED
      BY <2>1 DEF KeyTrue, SeenTrue
  <1>6. QED
    BY <1>2, <1>3, <1>4, <1>5 DEF KeyTrue

-----------------------------------------------------------------------------
(***************************************************************************)
(* The steps of Process, for a kind whose deletions are recorded.          *)
(***************************************************************************)
\* A call that moves to a position without a record in hand.
LEMMA CallMoved ==
    ASSUME NEW k \in Keys, KeyTrue(k), TypeOK, TypeOK', jobs' = jobs, rows' = rows, clock' = clock,
           cache' = cache, listed' = listed, dirty' = dirty, live' = live,
           work[k].pc \notin InHandAt \cup {"idle"}, work'[k].pc \notin InHandAt \cup {"idle"},
           work'[k].obj = work[k].obj, CallTrue(Issued(k), work'[k])
    PROVE  KeyTrue(k)'
  <1>1. Unsettled(k)' = Unsettled(k)
    BY UnsettledSame
  <1>2. Issued(k)' = Issued(k)
    BY <1>1, IssuedKept
  <1>3. SeenTrue(k)'
    BY <1>2 DEF KeyTrue, SeenTrue
  <1>4. clock <= clock'
    BY SMTT(60) DEF TypeOK
  <1>5. QED
    BY <1>1, <1>2, <1>3, <1>4, KeyMoved

\* A call that ends, having found or handed over what it read.
LEMMA CallEnded ==
    ASSUME NEW k \in Keys, KeyTrue(k), TypeOK, TypeOK', Unsettled(k)' = Unsettled(k), rows' = rows,
           clock' = clock, cache' = cache, listed' = listed, dirty' = dirty, live' = live,
           work[k].pc # "idle", Finish(k), Settled(Issued(k), work[k].obj)
    PROVE  KeyTrue(k)'
  <1>1. work'[k].pc = "idle"
    BY FinishFields
  <1>2. Issued(k)' = Issued(k)
    BY IssuedKept
  <1>3. SeenTrue(k)'
    BY <1>1, <1>2 DEF KeyTrue, SeenTrue
  <1>4. clock <= clock'
    BY SMTT(60) DEF TypeOK
  <1>5. CallTrue(Issued(k), work'[k])
    BY <1>1 DEF CallTrue
  <1>6. QED
    BY <1>2, <1>3, <1>4, <1>5, KeyMoved

\* A call moves to Reserve with a full record of what it read.
LEMMA FullReady ==
    ASSUME NEW k \in Keys, NEW R, NEW w, NEW type, NEW base, NEW revert, w.pc = "reserve",
           w.job = UpsertJob(k, type, w.obj, base, TRUE, 0, revert)
    PROVE  CallTrue(R, w)
  <1>1. /\ w.job.uid = w.obj.uid /\ w.job.hash = w.obj.hash /\ w.job.full
        /\ w.job.entry.uid = w.obj.uid /\ w.job.entry.hash = w.obj.hash
    BY SMTT(60) DEF UpsertJob
  <1>2. QED
    BY <1>1 DEF CallTrue

\* What a slot that answers for the object read says.
LEMMA SlotAnswers ==
    ASSUME NEW k \in Keys, KeyTrue(k), TypeOK, SlotSound(k), Present(cache[k]),
           work[k].obj.uid # 0, cache[k].uid = work[k].obj.uid
    PROVE  /\ LastIs(Issued(k), work[k].obj.uid, cache[k].hash)
           /\ RunAtMost(Issued(k), work[k].obj.uid, cache[k].run)
  <1>1. work[k].obj.uid \in Nat
    BY LocalsType DEF Object
  <1>2. ~cache[k].pending
    BY <1>1, SMTT(60) DEF SlotSound
  <1>3. QED
    BY <1>2 DEF KeyTrue, SlotTrue

\* A call that has something to write moves to Reserve with it.
LEMMA LoadHistory ==
    ASSUME IndInv, TypeOK', NEW k \in Keys \ EphemeralKeys, KeyTrue(k),
           \/ LoadMiss(k) \/ LoadDuplicate(k) \/ LoadChanged(k) \/ LoadReincarnated(k)
           \/ OldIncarnationRefused(k)
    PROVE  KeyTrue(k)'
  <1>0. /\ TypeOK /\ SlotSound(k) /\ cache[k] \in CacheEntry /\ work[k].obj \in Object
        /\ k \in Keys
    BY LocalsType DEF IndInv
  <1>m. ASSUME NEW pc \in {"claimOld", "reserve"}, NEW job, At(k, pc, work[k].obj, job),
               work[k].pc \in {"act", "claimOld"},
               UNCHANGED <<jobs, rows, clock, cache, listed, dirty, live>>,
               CallTrue(Issued(k), work'[k])
        PROVE  KeyTrue(k)'
    <2>1. work'[k].pc \notin InHandAt \cup {"idle"} /\ work'[k].obj = work[k].obj
      BY <1>0, <1>m, AtFields DEF InHandAt
    <2>2. work[k].pc \notin InHandAt \cup {"idle"}
      BY <1>m DEF InHandAt
    <2>3. QED
      BY <1>0, <1>m, <2>1, <2>2, CallMoved
  <1> USE DEF clusterVars, sinkVars
  <1>f. ASSUME NEW type, NEW base, NEW revert,
               At(k, "reserve", work[k].obj, UpsertJob(k, type, work[k].obj, base, TRUE, 0, revert))
        PROVE  CallTrue(Issued(k), work'[k])
    <2> DEFINE job == UpsertJob(k, type, work[k].obj, base, TRUE, 0, revert)
    <2>1. At(k, "reserve", work[k].obj, job)
      BY <1>f
    <2> HIDE DEF job
    <2>2. work'[k].pc = "reserve" /\ work'[k].obj = work[k].obj /\ work'[k].job = job
      BY <1>0, <2>1, AtFields
    <2>3. QED
      BY <1>0, <2>2, FullReady DEF job
  <1>1. CASE LoadMiss(k)
    <2>1. PICK type : At(k, "reserve", work[k].obj, UpsertJob(k, type, work[k].obj, 0, TRUE, 0, Absent))
      BY <1>1 DEF LoadMiss
    <2>2. CallTrue(Issued(k), work'[k])
      BY <1>f, <2>1
    <2>3. work[k].pc = "act" /\ UNCHANGED <<jobs, rows, clock, cache, listed, dirty, live>>
      BY <1>1 DEF LoadMiss, Loading
    <2>4. QED
      BY <1>m, <2>1, <2>2, <2>3
  <1>2. CASE LoadDuplicate(k)
    <2>1. /\ work[k].pc = "act" /\ UNCHANGED <<jobs, rows, clock, cache, listed, dirty, live>>
          /\ Present(cache[k]) /\ work[k].obj.uid # 0 /\ Finish(k)
          /\ cache[k].uid = work[k].obj.uid /\ cache[k].hash = work[k].obj.hash
      BY <1>2 DEF LoadDuplicate, Loading
    <2>2. Settled(Issued(k), work[k].obj)
      BY <1>0, <2>1, SlotAnswers DEF Settled
    <2>3. work'[k].pc \notin InHandAt /\ work[k].pc \notin InHandAt
      BY <1>0, <2>1, FinishFields DEF InHandAt
    <2>4. Unsettled(k)' = Unsettled(k)
      BY <1>0, <2>1, <2>3, UnsettledSame
    <2>5. QED
      BY <1>0, <2>1, <2>2, <2>4, CallEnded
  <1>3. CASE LoadChanged(k)
    <2>1. /\ work[k].pc = "act" /\ UNCHANGED <<jobs, rows, clock, cache, listed, dirty, live>>
          /\ Present(cache[k]) /\ work[k].obj.uid # 0 /\ cache[k].uid = work[k].obj.uid
      BY <1>3 DEF LoadChanged, Loading
    <2>2. PICK diff \in Diffs :
             At(k, "reserve", work[k].obj, ChangedJob(k, cache[k], work[k].obj, diff))
      BY <1>3 DEF LoadChanged
    <2>3. CASE \E type, base : ChangedJob(k, cache[k], work[k].obj, diff)
                                 = UpsertJob(k, type, work[k].obj, base, TRUE, 0, cache[k])
      BY <1>f, <1>m, <2>1, <2>2, <2>3
    <2>4. CASE /\ ChangedJob(k, cache[k], work[k].obj, diff)
                    = UpsertJob(k, "Modified", work[k].obj, cache[k].hash, FALSE, cache[k].run + 1,
                                cache[k])
               /\ ~CheckpointDue(cache[k].run + 1, diff = "oversized")
      <3> DEFINE w   == work'[k]
                 job == UpsertJob(k, "Modified", work[k].obj, cache[k].hash, FALSE, cache[k].run + 1,
                                  cache[k])
      <3>0. At(k, "reserve", work[k].obj, job)
        BY <2>2, <2>4
      <3>j. /\ job.uid = work[k].obj.uid /\ job.hash = work[k].obj.hash /\ job.base = cache[k].hash
            /\ job.entry.uid = work[k].obj.uid /\ job.entry.hash = work[k].obj.hash
            /\ job.entry.run = cache[k].run + 1
        BY DEF UpsertJob
      <3> HIDE DEF job
      <3>1. w.pc = "reserve" /\ w.obj = work[k].obj /\ w.job = job
        BY <1>0, <3>0, AtFields
      <3>2. /\ w.job.uid = w.obj.uid /\ w.job.hash = w.obj.hash /\ w.job.base = cache[k].hash
            /\ w.job.entry.uid = w.obj.uid /\ w.job.entry.hash = w.obj.hash
            /\ w.job.entry.run = cache[k].run + 1
        BY <3>j, <3>1
      <3>3. /\ LastIs(Issued(k), w.obj.uid, w.job.base)
            /\ RunAtMost(Issued(k), w.obj.uid, cache[k].run)
        BY <1>0, <2>1, <3>1, <3>2, SlotAnswers
      <3>4. cache[k].run \in Nat /\ CheckpointEvery \in Nat
        BY <1>0, ConstantsAssumption DEF CacheEntry
      <3>5. CheckpointEvery > 0 => cache[k].run + 1 < CheckpointEvery
        BY <2>4, <3>4, SMTT(60) DEF CheckpointDue
      <3> HIDE DEF w
      <3>6. w.job.entry.run > 0 /\ w.job.entry.run - 1 = cache[k].run
        BY <3>2, <3>4, SMTT(60)
      <3>7. DiffReady(Issued(k), w)
        BY <3>2, <3>3, <3>5, <3>6 DEF DiffReady
      <3>8. CallTrue(Issued(k), w)
        BY <3>1, <3>2, <3>7 DEF CallTrue
      <3>9. QED
        BY <1>m, <2>1, <2>2, <3>8 DEF w
    <2>5. QED
      BY <2>3, <2>4 DEF ChangedJob
  <1>4. CASE LoadReincarnated(k)
    <2>1. /\ work[k].pc = "act" /\ UNCHANGED <<jobs, rows, clock, cache, listed, dirty, live>>
          /\ At(k, "claimOld", work[k].obj, [NoJob(k) EXCEPT !.uid = cache[k].uid])
      BY <1>4 DEF LoadReincarnated, Loading
    <2> DEFINE job == [NoJob(k) EXCEPT !.uid = cache[k].uid]
    <2> HIDE DEF job
    <2>2. work'[k].pc = "claimOld"
      <3>1. At(k, "claimOld", work[k].obj, job)
        BY <2>1 DEF job
      <3>2. QED
        BY <1>0, <3>1, AtFields
    <2>3. CallTrue(Issued(k), work'[k])
      BY <2>2 DEF CallTrue
    <2>4. QED
      BY <1>m, <2>1, <2>3
  <1>5. CASE OldIncarnationRefused(k)
    <2>1. /\ work[k].pc = "claimOld" /\ UNCHANGED <<jobs, rows, clock, cache, listed, dirty, live>>
          /\ At(k, "reserve", work[k].obj, UpsertJob(k, "Added", work[k].obj, 0, TRUE, 0, Absent))
      BY <1>5 DEF OldIncarnationRefused, AddedJob
    <2>2. CallTrue(Issued(k), work'[k])
      BY <1>f, <2>1
    <2>3. QED
      BY <1>m, <2>1, <2>2
  <1>6. QED
    BY <1>1, <1>2, <1>3, <1>4, <1>5

\* The three steps that issue a record.
LEMMA ClaimHistory ==
    ASSUME IndInv, TypeOK', NEW k \in Keys \ EphemeralKeys, KeyTrue(k),
           ClaimDelete(k) \/ ClaimOldIncarnation(k)
    PROVE  KeyTrue(k)'
  <1>0. /\ TypeOK /\ cache[k] \in CacheEntry /\ work[k].obj \in Object /\ k \in Keys
        /\ clock \in Nat /\ cache[k].version \in Nat /\ cache[k].uid \in Nat
        /\ work[k].job \in Job /\ work[k].job.uid \in Nat
    BY LocalsType DEF IndInv, TypeOK, CacheEntry, Job
  <1>1. PICK kind \in {"delete", "closeOut"}, pc \in InHandAt, uid \in Nat, version \in Nat :
          /\ At(k, pc, work[k].obj, DeletedJob(kind, k, uid, version))
          /\ kind = "delete" => /\ version = ReserveDelete(cache[k]).version
                                /\ pc = "enqueue" /\ work[k].obj.uid = 0
          /\ kind = "closeOut" => pc = "closeOut"
    <2>1. CASE ClaimDelete(k)
      <3>1. ReserveDelete(cache[k]).version \in Nat
        BY <1>0, DeleteClaimFields, SMTT(60)
      <3>2. QED
        BY <1>0, <2>1, <3>1 DEF ClaimDelete, InHandAt
    <2>2. CASE ClaimOldIncarnation(k)
      <3>1. At(k, "closeOut", work[k].obj, DeletedJob("closeOut", k, work[k].job.uid, 0)) /\ 0 \in Nat
        BY <2>2 DEF ClaimOldIncarnation
      <3>2. "closeOut" \in InHandAt
        BY DEF InHandAt
      <3>3. QED
        BY <1>0, <3>1, <3>2
    <2>3. QED
      BY <2>1, <2>2
  <1>2. /\ cache'[k] = ReserveDelete(cache[k]) /\ clock' = clock + 1
        /\ UNCHANGED <<jobs, rows, listed, dirty, live>>
        /\ work[k].pc \notin InHandAt \cup {"idle"}
    BY <1>0 DEF ClaimDelete, ClaimOldIncarnation, clusterVars, sinkVars, InHandAt, TypeOK
  <1>3. cache'[k].version = cache[k].version + 1 /\ cache'[k].pending
    BY <1>0, <1>2, DeleteClaimFields
  <1> DEFINE j == DeletedJob(kind, k, uid, version)
  <1>4. /\ j \in Job /\ j.ts = clock + 1 /\ j.type = "Deleted" /\ j.kind = kind /\ j.version = version
    BY <1>0, DeletedJobType DEF DeletedJob
  <1>5. At(k, pc, work[k].obj, j)
    BY <1>1
  <1> HIDE DEF j
  <1>6. work'[k].pc = pc /\ work'[k].obj = work[k].obj /\ work'[k].job = j
    BY <1>0, <1>5, AtFields
  <1>7. Issued(k)' = Issued(k) \cup {RowOf(j)}
    BY <1>0, <1>1, <1>2, <1>6, RecordIssued
  <1>8. LastDeleted(Issued(k)')
    <2>1. Older(Issued(k), clock) /\ RowOf(j).ts = clock + 1 /\ RowOf(j).type = "Deleted"
      BY <1>4, RowFields DEF KeyTrue, Stamped, Older
    <2>2. QED
      BY <1>0, <1>7, <2>1, LastAdded
  <1>9. SlotTrue(k)'
    BY <1>3, <1>8 DEF SlotTrue
  <1>10. CallTrue(Issued(k), work[k])'
    <2>1. pc # "reserve" /\ (pc = "enqueue" => j.kind = "delete" /\ work[k].obj.uid = 0)
      BY <1>1, <1>4 DEF InHandAt
    <2>2. QED
      BY <1>6, <1>8, <2>1 DEF CallTrue
  <1>11. VersionHeld(cache'[k], j)
    BY <1>0, <1>1, <1>2, <1>3, <1>4, SMTT(60) DEF VersionHeld
  <1>12. ~DiffOnly(j)
    BY <1>4 DEF DiffOnly
  <1>13. 0 \in Nat
    BY SMTT(60)
  <1>14. QED
    BY <1>0, <1>1, <1>2, <1>3, <1>4, <1>6, <1>9, <1>10, <1>11, <1>12, <1>13, KeyIssued

LEMMA ReserveHistory ==
    ASSUME IndInv, TypeOK', NEW k \in Keys \ EphemeralKeys, KeyTrue(k), ReserveVersion(k)
    PROVE  KeyTrue(k)'
  <1>0. /\ TypeOK /\ cache[k] \in CacheEntry /\ work[k].obj \in Object /\ k \in Keys
        /\ clock \in Nat /\ cache[k].version \in Nat /\ WorkSound(k)
        /\ work[k].job \in Job /\ work[k].job.entry \in CacheEntry
    BY LocalsType DEF IndInv, TypeOK, CacheEntry, Job
  <1> DEFINE old     == work[k].job
             entry   == [old.entry EXCEPT !.stamp = clock + 1]
             version == ReservedVersion(cache[k])
             j       == [old EXCEPT !.ts = clock + 1, !.version = version, !.entry = entry]
  <1>1. /\ work[k].pc = "reserve" /\ cache'[k] = Reserve(cache[k], entry) /\ clock' = clock + 1
        /\ At(k, "enqueue", work[k].obj, j) /\ UNCHANGED <<jobs, rows, listed, dirty, live>>
    BY <1>0 DEF ReserveVersion, clusterVars, sinkVars, TypeOK
  <1>2. /\ old.kind = "upsert" /\ old.type # "Deleted" /\ ~old.entry.pending
        /\ work[k].obj.uid > 0
    BY <1>0, <1>1 DEF WorkSound, JobSound
  <1>3. /\ old.uid = work[k].obj.uid /\ old.hash = work[k].obj.hash
        /\ old.entry.uid = work[k].obj.uid /\ old.entry.hash = work[k].obj.hash
        /\ old.full \/ DiffReady(Issued(k), work[k])
    BY <1>1 DEF KeyTrue, CallTrue
  <1>4. version \in Nat /\ version = cache[k].version + 1
    BY <1>0, SMTT(60) DEF ReservedVersion
  <1>5. /\ entry \in CacheEntry /\ entry.uid = old.entry.uid /\ entry.hash = old.entry.hash
        /\ entry.run = old.entry.run /\ entry.pending = old.entry.pending
    BY <1>0, SMTT(60) DEF CacheEntry
  <1> HIDE DEF entry, version
  <1>6. /\ j.kind = old.kind /\ j.type = old.type /\ j.uid = old.uid /\ j.hash = old.hash
        /\ j.base = old.base /\ j.full = old.full /\ j.ts = clock + 1 /\ j.version = version
        /\ j.entry = entry
    BY <1>0 DEF Job
  <1> HIDE DEF j
  <1>7. work'[k].pc = "enqueue" /\ work'[k].obj = work[k].obj /\ work'[k].job = j
    BY <1>0, <1>1, AtFields
  <1>j. j \in Job
    BY <1>0, <1>7 DEF TypeOK
  <1>8. /\ cache'[k] = [entry EXCEPT !.version = version]
        /\ cache'[k].version = version /\ cache'[k].uid = entry.uid /\ cache'[k].hash = entry.hash
        /\ cache'[k].run = entry.run /\ ~cache'[k].pending
    <2>1. cache'[k] = [entry EXCEPT !.version = version]
      BY <1>1 DEF Reserve, version
    <2>2. QED
      BY <1>2, <1>5, <2>1 DEF CacheEntry
  <1>9. work[k].pc \notin InHandAt \cup {"idle"} /\ work'[k].pc \in InHandAt
    BY <1>1, <1>7 DEF InHandAt
  <1>10. Issued(k)' = Issued(k) \cup {RowOf(j)}
    BY <1>0, <1>1, <1>7, <1>9, RecordIssued
  <1> DEFINE R == Issued(k)
             n == RowOf(j)
  <1>11. /\ Older(R, clock) /\ n.ts = clock + 1 /\ n.type # "Deleted" /\ n.full = old.full
         /\ n.uid = work[k].obj.uid /\ n.hash = work[k].obj.hash
    BY <1>2, <1>3, <1>6, RowFields DEF KeyTrue, Stamped, Older
  <1>12. ~old.full => /\ LastIs(R, work[k].obj.uid, old.base)
                      /\ old.entry.run - 1 \in Nat /\ RunAtMost(R, work[k].obj.uid, old.entry.run - 1)
                      /\ CheckpointEvery > 0 => old.entry.run < CheckpointEvery
    <2>1. old.entry.run \in Nat
      BY <1>0 DEF CacheEntry
    <2>2. old.full \/ DiffReady(Issued(k), work[k])
      BY <1>3
    <2>3. QED
      BY <2>1, <2>2, SMTT(60) DEF DiffReady
  <1> HIDE DEF R, n
  <1>13. LastIs(R \cup {n}, work[k].obj.uid, work[k].obj.hash)
    BY <1>0, <1>11, LastAdded
  <1>14. RunAtMost(R \cup {n}, work[k].obj.uid, old.entry.run)
    <2>1. old.entry.run \in Nat
      BY <1>0 DEF CacheEntry
    <2>2. CASE old.full
      BY <1>0, <1>11, <2>1, <2>2, RunAdded
    <2>3. CASE ~old.full
      <3>1. RunAtMost(R \cup {n}, work[k].obj.uid, (old.entry.run - 1) + 1)
        BY <1>0, <1>11, <1>12, <2>3, RunAdded
      <3>2. (old.entry.run - 1) + 1 = old.entry.run
        BY <2>1, SMTT(60)
      <3>3. QED
        BY <3>1, <3>2
    <2>4. QED
      BY <2>2, <2>3
  <1>15. SlotTrue(k)'
    <2>1. cache'[k].uid = work[k].obj.uid /\ cache'[k].hash = work[k].obj.hash
          /\ cache'[k].run = old.entry.run
      BY <1>3, <1>5, <1>8
    <2>2. Present(cache'[k])
      BY <1>0, <1>4, <1>8, SMTT(60) DEF Present
    <2>3. QED
      BY <1>8, <1>10, <1>13, <1>14, <2>1, <2>2 DEF SlotTrue, R, n
  <1>16. CallTrue(Issued(k), work[k])'
    BY <1>2, <1>6, <1>7, <1>10, <1>13 DEF CallTrue, R, n
  <1>17. VersionHeld(cache'[k], j)
    <2>1. j.version <= cache'[k].version
      BY <1>4, <1>6, <1>8, SMTT(60)
    <2>2. QED
      BY <1>2, <1>6, <1>8, <2>1 DEF VersionHeld
  <1>18. PICK m \in Nat : ~old.full => /\ RunAtMost(R, work[k].obj.uid, m)
                                       /\ CheckpointEvery > 0 => m + 1 < CheckpointEvery
    <2>1. CASE old.full
      BY <2>1
    <2>2. CASE ~old.full
      <3>1. old.entry.run \in Nat
        BY <1>0 DEF CacheEntry
      <3>2. (old.entry.run - 1) + 1 = old.entry.run
        BY <3>1, SMTT(60)
      <3>3. QED
        BY <1>12, <2>2, <3>2
    <2>3. QED
      BY <2>1, <2>2
  <1>19. DiffOnly(j) => /\ LastIs(Issued(k), j.uid, j.base) /\ RunAtMost(Issued(k), j.uid, m)
                        /\ CheckpointEvery > 0 => m + 1 < CheckpointEvery
    BY <1>3, <1>6, <1>12, <1>18 DEF DiffOnly, R
  <1>20. cache'[k].version = cache[k].version + 1
    BY <1>4, <1>8
  <1>21. QED
    BY <1>0, <1>1, <1>6, <1>j, <1>7, <1>9, <1>15, <1>16, <1>17, <1>19, <1>20, KeyIssued

\* The other steps, none of which issues a record.
LEMMA QuietHistory ==
    ASSUME IndInv, TypeOK', NEW k \in Keys \ EphemeralKeys, KeyTrue(k), scope = "active",
           closeOuts[k] = {}, faults = 0, faults' = 0,
           \/ BeginProcess(k) \/ RetryPendingCloseOuts(k) \/ DeleteRefused(k) \/ EnqueueCloseOut(k)
           \/ EnqueueAccepted(k)
    PROVE  KeyTrue(k)'
  <1>0. /\ TypeOK /\ WorkSound(k) /\ cache[k] \in CacheEntry /\ work[k].obj \in Object /\ k \in Keys
        /\ work[k].job.key = k
    BY LocalsType DEF IndInv, WorkSound
  <1>c. clock \in Nat /\ clock <= clock /\ 0 + 1 # 0
    BY <1>0, SMTT(60) DEF TypeOK
  <1>n. ~CountFault
    BY <1>c, SMTT(60) DEF CountFault
  <1> USE DEF clusterVars, sinkVars
  <1>1. CASE BeginProcess(k)
    <2>1. /\ k \in dirty /\ work[k].pc = "idle" /\ work'[k].pc = "begin" /\ work'[k].obj = Indexed(k)
          /\ UNCHANGED <<jobs, rows, clock, cache, listed, live>> /\ dirty' = dirty \ {k}
      BY <1>0, <1>1, AtFields DEF BeginProcess
    <2>2. Unsettled(k)' = Unsettled(k)
      BY <1>0, <2>1, UnsettledSame DEF InHandAt
    <2>3. Issued(k)' = Issued(k)
      BY <1>0, <2>1, <2>2, IssuedKept
    <2>4. k \in listed
      BY <2>1 DEF KeyTrue, SeenTrue
    <2>5. SeenTrue(k)'
      BY <2>1, <2>4 DEF SeenTrue, Indexed
    <2>6. CallTrue(Issued(k), work'[k])
      BY <2>1 DEF CallTrue
    <2>7. QED
      BY <1>0, <1>c, <2>1, <2>2, <2>3, <2>5, <2>6, KeyMoved
  <1>2. CASE RetryPendingCloseOuts(k)
    <2>1. PICK accepted \in SUBSET closeOuts[k] :
            /\ jobs' = jobs \cup accepted
            /\ IF accepted = closeOuts[k] THEN UNCHANGED <<dirty, faults>>
                                          ELSE CountFault /\ dirty' = dirty \cup {k}
      BY <1>2 DEF RetryPendingCloseOuts
    <2>2. accepted = {} /\ jobs' = jobs /\ dirty' = dirty
      BY <2>1
    <2>3. /\ work[k].pc = "begin" /\ work'[k].pc = "act" /\ work'[k].obj = work[k].obj
          /\ UNCHANGED <<rows, clock, cache, listed, live>>
      BY <1>0, <1>2, AtFields DEF RetryPendingCloseOuts
    <2>4. CallTrue(Issued(k), work'[k])
      BY <2>3 DEF CallTrue
    <2>5. QED
      BY <1>0, <2>2, <2>3, <2>4, CallMoved DEF InHandAt
  <1>3. CASE DeleteRefused(k)
    <2>1. /\ work[k].pc = "act" /\ work[k].obj.uid = 0 /\ Finish(k)
          /\ DeleteClaimOutcome(cache[k], 0) # "claimed"
          /\ UNCHANGED <<jobs, rows, clock, cache, listed, dirty, live>>
      BY <1>3 DEF DeleteRefused
    <2>2. ~Present(cache[k]) \/ cache[k].pending
      BY <2>1 DEF DeleteClaimOutcome
    <2>3. Settled(Issued(k), work[k].obj)
      BY <2>1, <2>2 DEF KeyTrue, SlotTrue, Settled
    <2>4. work'[k].pc = "idle"
      BY <1>0, <2>1, FinishFields
    <2>5. Unsettled(k)' = Unsettled(k)
      BY <1>0, <2>1, <2>4, UnsettledSame DEF InHandAt
    <2>6. QED
      BY <1>0, <2>1, <2>3, <2>5, CallEnded, SMTT(60)
  <1>4. CASE EnqueueCloseOut(k)
    <2> DEFINE job == UpsertJob(k, "Added", work[k].obj, 0, TRUE, 0, Absent)
    <2>1. /\ work[k].pc = "closeOut" /\ At(k, "reserve", work[k].obj, job)
          /\ UNCHANGED <<rows, clock, cache, listed, live>>
      BY <1>4 DEF EnqueueCloseOut, AddedJob
    <2>2. jobs' = jobs \cup {work[k].job} /\ dirty' = dirty
      BY <1>4, <1>n DEF EnqueueCloseOut
    <2> HIDE DEF job
    <2>3. work'[k].pc = "reserve" /\ work'[k].obj = work[k].obj /\ work'[k].job = job
      BY <1>0, <2>1, AtFields
    <2>4. Unsettled(k)' = Unsettled(k)
      BY <1>0, <2>1, <2>2, <2>3, UnsettledAccepted DEF InHandAt
    <2>5. Issued(k)' = Issued(k)
      BY <1>0, <2>1, <2>4, IssuedKept
    <2>6. CallTrue(Issued(k), work'[k])
      BY <1>0, <2>3, FullReady DEF job
    <2>7. SeenTrue(k)'
      BY <2>1, <2>2, <2>3 DEF KeyTrue, SeenTrue
    <2>8. QED
      BY <1>0, <1>c, <2>1, <2>4, <2>5, <2>6, <2>7, KeyMoved
  <1>5. CASE EnqueueAccepted(k)
    <2>1. /\ work[k].pc = "enqueue" /\ Finish(k) /\ jobs' = jobs \cup {work[k].job}
          /\ UNCHANGED <<rows, clock, cache, listed, dirty, live>>
      BY <1>5 DEF EnqueueAccepted
    <2>2. work'[k].pc = "idle"
      BY <1>0, <2>1, FinishFields
    <2>3. Unsettled(k)' = Unsettled(k)
      BY <1>0, <2>1, <2>2, UnsettledAccepted DEF InHandAt
    <2>4. Settled(Issued(k), work[k].obj)
      <3>1. CASE work[k].job.kind = "delete"
        BY <2>1, <3>1 DEF KeyTrue, CallTrue, Settled
      <3>2. CASE work[k].job.kind # "delete"
        <4>1. work[k].job.kind = "upsert"
          BY <1>0, <2>1, <3>2, LocalsType DEF WorkSound, Job
        <4>2. work[k].obj.uid > 0
          BY <1>0, <2>1, <4>1 DEF WorkSound
        <4>3. work[k].obj.uid # 0
          BY <1>0, <4>2, SMTT(60) DEF Object
        <4>4. QED
          BY <2>1, <3>2, <4>3 DEF KeyTrue, CallTrue, Settled
      <3>3. QED
        BY <3>1, <3>2
    <2>5. QED
      BY <1>0, <2>1, <2>3, <2>4, CallEnded
  <1>6. QED
    BY <1>1, <1>2, <1>3, <1>4, <1>5

\* Every step of the key's own call.
LEMMA ProcessHistory ==
    ASSUME IndInv, TypeOK', NEW k \in Keys \ EphemeralKeys, KeyTrue(k), scope = "active",
           closeOuts[k] = {}, faults = 0, faults' = 0, Process(k)
    PROVE  KeyTrue(k)'
  <1>1. ~CountFault
    BY SMTT(60) DEF CountFault
  <1>2. ~DropStopped(k) /\ ~ForgetEphemeral(k)
    BY DEF DropStopped, ForgetEphemeral
  <1>3. ~SinkUnavailable(k) /\ ~UpsertPostponed(k) /\ ~EnqueueRejected(k)
    BY <1>1 DEF SinkUnavailable, UpsertPostponed, EnqueueRejected
  <1>4. QED
    BY <1>2, <1>3, LoadHistory, ClaimHistory, ReserveHistory, QuietHistory DEF Process

\* No step of Process turns the clock back.
LEMMA ProcessClock ==
    ASSUME TypeOK, NEW k \in Keys, Process(k) PROVE clock <= clock'
  <1>1. clock' = clock \/ clock' = clock + 1
    BY DEF Process, DropStopped, ForgetEphemeral, BeginProcess, SinkUnavailable,
       RetryPendingCloseOuts, DeleteRefused, ClaimDelete, UpsertPostponed, LoadMiss, LoadDuplicate,
       LoadChanged, LoadReincarnated, ClaimOldIncarnation, OldIncarnationRefused, EnqueueCloseOut,
       ReserveVersion, EnqueueAccepted, EnqueueRejected
  <1>2. QED
    BY <1>1, SMTT(60) DEF TypeOK

\* The calls of other keys do not concern a key.
LEMMA OthersHistory ==
    ASSUME IndInv, TypeOK', NEW k \in Keys, closeOuts[k] = {}, Process(k), NEW q \in Keys \ {k}
    PROVE  /\ KeyTrue(q) => KeyTrue(q)'
           /\ EventTrue(q) => EventTrue(q)'
  <1>0. TypeOK /\ WorkSound(k) /\ SlotSound(k) /\ work[k].job.key = k
    BY DEF IndInv, WorkSound
  <1>1. FrameEffect(k) /\ JobsEffect(k)
    BY <1>0, ProcessEffects DEF ProcessEffect
  <1>2. \A j : j.key = q => (j \in jobs' <=> j \in jobs)
    BY <1>0, <1>1 DEF JobsEffect
  <1>3. /\ rows' = rows /\ listed' = listed /\ live' = live /\ cache'[q] = cache[q]
        /\ work'[q] = work[q] /\ (q \in dirty' <=> q \in dirty)
    BY <1>1 DEF FrameEffect
  <1>4. Unsettled(q)' = Unsettled(q)
    <2>1. {j \in jobs' : j.key = q} = {j \in jobs : j.key = q}
      BY <1>2
    <2>2. QED
      BY <1>3, <2>1 DEF Unsettled
  <1>5. Issued(q)' = Issued(q)
    BY <1>3, <1>4, IssuedKept
  <1>6. KeyTrue(q) => KeyTrue(q)'
    BY <1>0, <1>3, <1>4, <1>5, ProcessClock, KeyUntouched
  <1>7. EventTrue(q) => EventTrue(q)'
    BY <1>2, <1>3 DEF EventTrue, RowsOf
  <1>8. QED
    BY <1>6, <1>7

-----------------------------------------------------------------------------
(***************************************************************************)
(* The sink settles a write.                                               *)
(***************************************************************************)
\* The record is durable now, and issued as before.
LEMMA SettledRecord ==
    ASSUME NEW j \in jobs, NEW k \in Keys, rows' = rows \cup {RowOf(j)}, jobs' = jobs \ {j}, work' = work
    PROVE  /\ Issued(k)' = Issued(k)
           /\ Unsettled(k)' \subseteq Unsettled(k)
           /\ j.key = k => j \in Unsettled(k)
           /\ \A x \in Unsettled(k) : x # j => x \in Unsettled(k)'
  <1>1. /\ Unsettled(k)' \subseteq Unsettled(k)
        /\ j.key = k => j \in Unsettled(k)
        /\ \A x \in Unsettled(k) : x # j => x \in Unsettled(k)'
    BY DEF Unsettled
  <1>2. RowOf(j).key = j.key
    BY RowFields
  <1>3. CASE j.key = k
    <2>1. RowsOf(k)' = RowsOf(k) \cup {RowOf(j)}
      BY <1>2, <1>3 DEF RowsOf
    <2>2. {RowOf(x) : x \in Unsettled(k)} \cup {RowOf(j)} = {RowOf(x) : x \in Unsettled(k)'} \cup {RowOf(j)}
      BY <1>1, <1>3
    <2>3. RowOf(j) \in {RowOf(x) : x \in Unsettled(k)}
      BY <1>1, <1>3
    <2> DEFINE A == {RowOf(x) : x \in Unsettled(k)}
               B == {RowOf(x) : x \in Unsettled(k)'}
    <2>4. Issued(k) = RowsOf(k) \cup A /\ Issued(k)' = RowsOf(k)' \cup B
      BY DEF Issued
    <2>5. A \cup {RowOf(j)} = B \cup {RowOf(j)} /\ RowOf(j) \in A
      BY <2>2, <2>3
    <2> HIDE DEF A, B
    <2>6. Issued(k)' = Issued(k)
      BY <2>1, <2>4, <2>5
    <2>7. QED
      BY <1>1, <2>6
  <1>4. CASE j.key # k
    <2>1. RowsOf(k)' = RowsOf(k)
      BY <1>2, <1>4 DEF RowsOf
    <2>2. Unsettled(k)' = Unsettled(k)
      BY <1>4 DEF Unsettled
    <2>3. QED
      BY <1>1, <2>1, <2>2 DEF Issued
  <1>5. QED
    BY <1>3, <1>4

\* A Commit leaves the slot as it is, or removes the claim of its own Deleted write.
LEMMA CommitHistory ==
    ASSUME NEW cur \in CacheEntry, NEW j \in Job, VersionHeld(cur, j),
           j.kind # "closeOut" => j.version > 0
    PROVE  \/ Confirmed(cur, j) = cur
           \/ Confirmed(cur, j) = Absent /\ cur.pending /\ Present(cur) /\ j.kind # "closeOut"
  <1>1. CASE j.kind = "upsert"
    <2>1. Confirmed(cur, j) = CommitIfCurrent(cur, j.version, j.entry)
      BY <1>1 DEF Confirmed
    <2>2. cur.version = j.version => cur = [j.entry EXCEPT !.version = j.version]
      BY <1>1 DEF VersionHeld
    <2>3. QED
      BY <2>1, <2>2 DEF CommitIfCurrent
  <1>2. CASE j.kind = "delete"
    <2>1. Confirmed(cur, j) = DeleteIfCurrent(cur, j.version)
      BY <1>2 DEF Confirmed
    <2>2. cur.version = j.version => cur.pending
      BY <1>2 DEF VersionHeld
    <2>3. QED
      BY <1>2, <2>1, <2>2 DEF DeleteIfCurrent
  <1>3. CASE j.kind \notin {"upsert", "delete"}
    BY <1>3 DEF Confirmed
  <1>4. QED
    BY <1>1, <1>2, <1>3

\* A key none of whose slots is emptied under a write survives the settlement.
LEMMA SettleHistory ==
    ASSUME IndInv, TypeOK', NEW j \in jobs, WriteSucceeds(j), NEW k \in Keys, KeyTrue(k),
           ~reissued'
    PROVE  KeyTrue(k)'
  <1>0. /\ TypeOK /\ cache[k] \in CacheEntry /\ j \in Job /\ j.key \in Keys
        /\ j.kind # "closeOut" => j.version > 0
    BY LocalsType DEF IndInv, TypeOK, JobsSound, Job
  <1>1. /\ rows' = rows \cup {RowOf(j)} /\ jobs' = jobs \ {j}
        /\ UNCHANGED <<live, listed, dirty, work, clock>>
    BY DEF WriteSucceeds, clusterVars
  <1>2. /\ j.key # k => cache'[k] = cache[k]
        /\ j.key = k => cache'[k] = Confirmed(cache[k], j)
    BY <1>0 DEF WriteSucceeds, TypeOK
  <1>3. /\ Issued(k)' = Issued(k) /\ Unsettled(k)' \subseteq Unsettled(k)
        /\ j.key = k => j \in Unsettled(k)
    BY <1>1, SettledRecord
  <1>4. clock <= clock'
    BY <1>0, <1>1, SMTT(60) DEF TypeOK
  <1>5. CASE cache'[k] = cache[k]
    BY <1>0, <1>1, <1>3, <1>4, <1>5, KeyUntouched
  <1>6. CASE cache'[k] # cache[k]
    <2>1. j.key = k /\ VersionHeld(cache[k], j)
      BY <1>2, <1>3, <1>6 DEF KeyTrue, VersionsHeld
    <2>2. cache'[k] = Absent /\ cache[k].pending /\ Present(cache[k])
      BY <1>0, <1>2, <1>6, <2>1, CommitHistory
    <2>3. ~Present(cache'[k])
      BY <2>2, AbsentType
    <2>4. \A x \in Unsettled(k)' : x.kind = "closeOut"
      BY <2>1, <2>2, <2>3 DEF WriteSucceeds, EmptiedUnderWrite
    <2>5. VersionsHeld(k)'
      BY <2>4 DEF VersionsHeld, VersionHeld
    <2>6. SlotTrue(k)'
      BY <1>3, <2>2, <2>3 DEF KeyTrue, SlotTrue
    <2>7. SeenTrue(k)'
      BY <1>1, <1>3, <2>3 DEF KeyTrue, SeenTrue
    <2>8. Stamped(k)' /\ CallTrue(Issued(k), work[k])' /\ DiffsTrue(Issued(k))'
      BY <1>1, <1>3 DEF KeyTrue, Stamped
    <2>9. QED
      BY <2>5, <2>6, <2>7, <2>8 DEF KeyTrue
  <1>7. QED
    BY <1>5, <1>6

-----------------------------------------------------------------------------
(***************************************************************************)
(* Events.                                                                 *)
(***************************************************************************)
\* Every job built for an Event is a whole record without a baseline.
LEMMA WholeJobs ==
    ASSUME NEW k \in EphemeralKeys
    PROVE  /\ Whole(NoJob(k))
           /\ \A uid : Whole([NoJob(k) EXCEPT !.uid = uid])
           /\ \A type, obj, base, run, revert : Whole(UpsertJob(k, type, obj, base, TRUE, run, revert))
           /\ \A kind, uid, version : Whole(DeletedJob(kind, k, uid, version))
  <1>1. ASSUME NEW type, NEW obj, NEW base, NEW run, NEW revert
        PROVE  Whole(UpsertJob(k, type, obj, base, TRUE, run, revert))
    BY DEF Whole, DiffOnly, UpsertJob
  <1>2. ASSUME NEW kind, NEW uid, NEW version PROVE Whole(DeletedJob(kind, k, uid, version))
    BY SMTT(60) DEF Whole, DiffOnly, DeletedJob, Absent
  <1>3. Whole(NoJob(k)) /\ \A uid : Whole([NoJob(k) EXCEPT !.uid = uid])
    BY DEF Whole, DiffOnly, NoJob, UpsertJob
  <1>4. QED
    BY <1>1, <1>2, <1>3

\* A claim keeps the baseline mark, a reservation takes the entry's.
LEMMA JsonKept ==
    ASSUME NEW cur \in CacheEntry, NEW e \in CacheEntry, NEW c \in Nat
    PROVE  /\ ReserveDelete(cur).json = cur.json
           /\ Reserve(cur, [e EXCEPT !.stamp = c]).json = e.json
           /\ [e EXCEPT !.stamp = c].json = e.json
  <1>1. ReserveDelete(cur).json = cur.json
    BY DEF ReserveDelete, CacheEntry
  <1>2. [e EXCEPT !.stamp = c].json = e.json /\ [e EXCEPT !.stamp = c] \in CacheEntry
    BY SMTT(60) DEF CacheEntry
  <1>3. \A s \in CacheEntry : Reserve(cur, s).json = s.json
    BY DEF Reserve, CacheEntry
  <1>4. QED
    BY <1>1, <1>2, <1>3

\* The steps of an Event's own call.
LEMMA EventProcess ==
    ASSUME IndInv, TypeOK', NEW k \in EphemeralKeys, EventTrue(k), closeOuts[k] = {},
           faults = 0, faults' = 0, Process(k)
    PROVE  EventTrue(k)'
  <1>0. /\ TypeOK /\ WorkSound(k) /\ SlotSound(k) /\ k \in Keys /\ cache[k] \in CacheEntry
        /\ work[k].job \in Job /\ work[k].job.entry \in CacheEntry /\ clock + 1 \in Nat
        /\ ~Absent.json
    <2>1. k \in Keys
      BY ConstantsAssumption
    <2>2. clock + 1 \in Nat
      BY SMTT(60) DEF IndInv, TypeOK
    <2>3. QED
      BY <2>1, <2>2, LocalsType DEF IndInv, Job, Absent
  <1>1. FrameEffect(k) /\ JobsEffect(k)
    BY <1>0, ProcessEffects DEF ProcessEffect
  <1>n. ~CountFault
    BY SMTT(60) DEF CountFault
  <1>e. ~cache[k].json /\ Whole(work[k].job)
    BY DEF EventTrue
  <1> SUFFICES ~cache'[k].json /\ Whole(work'[k].job)
    BY <1>0, <1>1, <1>e DEF EventTrue, FrameEffect, JobsEffect, RowsOf
  <1>f. ASSUME Finish(k) PROVE Whole(work'[k].job)
    BY <1>0, <1>f, FinishFields, WholeJobs
  <1>a. ASSUME NEW pc, NEW obj, NEW job, At(k, pc, obj, job), Whole(job) PROVE Whole(work'[k].job)
    BY <1>0, <1>a, AtFields
  <1>2. CASE DropStopped(k)
    BY <1>2, <1>e DEF DropStopped
  <1>3. CASE ForgetEphemeral(k)
    <2>1. Present(ReserveDelete(cache[k]))
      BY <1>0, DeleteClaimFields, SMTT(60) DEF Present, CacheEntry
    <2>2. DeleteIfCurrent(ReserveDelete(cache[k]), ReserveDelete(cache[k]).version) = Absent
      BY <2>1 DEF DeleteIfCurrent
    <2>3. (cache'[k] = cache[k] \/ cache'[k] = Absent) /\ work' = work
      BY <1>0, <1>3, <2>2 DEF ForgetEphemeral, TypeOK
    <2>4. QED
      BY <1>0, <1>e, <2>3
  <1>4. CASE BeginProcess(k)
    BY <1>4, <1>a, <1>e, WholeJobs DEF BeginProcess
  <1>5. CASE RetryPendingCloseOuts(k)
    BY <1>5, <1>a, <1>e DEF RetryPendingCloseOuts
  <1>6. CASE DeleteRefused(k) \/ LoadDuplicate(k) \/ EnqueueAccepted(k)
    BY <1>6, <1>e, <1>f DEF DeleteRefused, LoadDuplicate, EnqueueAccepted
  <1>7. CASE ClaimDelete(k) \/ ClaimOldIncarnation(k)
    <2>1. cache'[k] = ReserveDelete(cache[k])
      BY <1>0, <1>7 DEF ClaimDelete, ClaimOldIncarnation, TypeOK
    <2>2. Whole(work'[k].job)
      BY <1>7, <1>a, WholeJobs DEF ClaimDelete, ClaimOldIncarnation
    <2>3. QED
      BY <1>0, <1>e, <2>1, <2>2, JsonKept
  <1>8. CASE SinkUnavailable(k) \/ UpsertPostponed(k) \/ EnqueueRejected(k)
    <2>1. cache' = cache /\ Finish(k)
      BY <1>8, <1>n DEF SinkUnavailable, UpsertPostponed, EnqueueRejected, FinishAndRetry
    <2>2. QED
      BY <1>e, <1>f, <2>1
  <1>9. CASE LoadMiss(k)
    BY <1>9, <1>a, <1>e, WholeJobs DEF LoadMiss
  <1>10. CASE LoadChanged(k)
    <2>1. PICK diff \in Diffs :
             At(k, "reserve", work[k].obj, ChangedJob(k, cache[k], work[k].obj, diff))
      BY <1>10 DEF LoadChanged
    <2>2. ChangedJob(k, cache[k], work[k].obj, diff)
             = UpsertJob(k, "Modified", work[k].obj, 0, TRUE, 0, cache[k])
      BY <1>e DEF ChangedJob
    <2>3. Whole(work'[k].job)
      BY <1>a, <2>1, <2>2, WholeJobs
    <2>4. QED
      BY <1>10, <1>e, <2>3 DEF LoadChanged
  <1>11. CASE LoadReincarnated(k)
    BY <1>11, <1>a, <1>e, WholeJobs DEF LoadReincarnated, AddedJob
  <1>12. CASE OldIncarnationRefused(k) \/ EnqueueCloseOut(k)
    BY <1>12, <1>a, <1>e, WholeJobs DEF OldIncarnationRefused, EnqueueCloseOut, AddedJob
  <1>13. CASE ReserveVersion(k)
    <2> DEFINE entry == [work[k].job.entry EXCEPT !.stamp = clock + 1]
               job   == [work[k].job EXCEPT !.ts = clock + 1, !.version = ReservedVersion(cache[k]),
                                            !.entry = entry]
    <2>1. cache'[k] = Reserve(cache[k], entry) /\ At(k, "enqueue", work[k].obj, job)
      BY <1>0, <1>13 DEF ReserveVersion, TypeOK
    <2>2. ~work[k].job.entry.json
      BY <1>e DEF Whole
    <2>3. ~entry.json /\ ~cache'[k].json
      BY <1>0, <2>1, <2>2, JsonKept, SMTT(60)
    <2> HIDE DEF entry
    <2>4. job.type = work[k].job.type /\ job.full = work[k].job.full /\ job.entry = entry
      BY <1>0 DEF Job
    <2>5. Whole(job)
      BY <1>e, <2>3, <2>4 DEF Whole, DiffOnly
    <2> HIDE DEF job
    <2>6. QED
      BY <1>a, <2>1, <2>3, <2>5
  <1>14. QED
    BY <1>2, <1>3, <1>4, <1>5, <1>6, <1>7, <1>8, <1>9, <1>10, <1>11, <1>12, <1>13 DEF Process

\* The settlement of a write.
LEMMA EventSettle ==
    ASSUME TypeOK, NEW j \in jobs, WriteSucceeds(j), NEW k \in EphemeralKeys, EventTrue(k)
    PROVE  EventTrue(k)'
  <1>0. /\ k \in Keys /\ j \in Job /\ j.key \in Keys /\ cache[k] \in CacheEntry
        /\ j.entry \in CacheEntry /\ j.version \in Nat /\ ~Absent.json
    <2>1. k \in Keys
      BY ConstantsAssumption, SMTT(60)
    <2>2. QED
      BY <2>1, LocalsType DEF TypeOK, Job, Absent
  <1>1. /\ rows' = rows \cup {RowOf(j)} /\ jobs' = jobs \ {j} /\ work' = work
        /\ j.key # k => cache'[k] = cache[k]
        /\ j.key = k => cache'[k] = Confirmed(cache[k], j)
    BY <1>0 DEF WriteSucceeds, TypeOK
  <1>2. j.key = k => Whole(j)
    BY DEF EventTrue
  <1>3. ~cache'[k].json
    <2>1. CASE j.key # k
      BY <1>1, <2>1 DEF EventTrue
    <2>2. CASE j.key = k
      <3>1. ~cache[k].json /\ ~j.entry.json
        BY <1>2, <2>2 DEF EventTrue, Whole
      <3>2. [j.entry EXCEPT !.version = j.version].json = j.entry.json
        BY <1>0 DEF CacheEntry
      <3>3. Confirmed(cache[k], j) \in {cache[k], Absent, [j.entry EXCEPT !.version = j.version]}
        BY DEF Confirmed, CommitIfCurrent, DeleteIfCurrent
      <3>4. QED
        BY <1>0, <1>1, <2>2, <3>1, <3>2, <3>3
    <2>3. QED
      BY <2>1, <2>2
  <1>4. \A r \in RowsOf(k)' : ~DiffOnly(r)
    BY <1>1, <1>2, RowFields DEF EventTrue, RowsOf, Whole
  <1>5. QED
    BY <1>1, <1>3, <1>4 DEF EventTrue

-----------------------------------------------------------------------------
(***************************************************************************)
(* All steps.                                                              *)
(***************************************************************************)
\* The cluster and the informer: what changes under a listed key is queued.
LEMMA WatchHistory ==
    ASSUME TypeOK, TypeOK', scope = "active", NEW k \in Keys, Cluster(k) \/ ListObject(k),
           NEW q \in Keys
    PROVE  /\ KeyTrue(q) => KeyTrue(q)'
           /\ EventTrue(q) => EventTrue(q)'
  <1>1. /\ UNCHANGED <<work, cache, jobs, rows, clock>>
        /\ q # k => live'[q] = live[q] /\ (q \in dirty' <=> q \in dirty) /\ (q \in listed' <=> q \in listed)
    BY DEF Cluster, CreateObject, UpdateObject, RemoveObject, ChangeObject, Notify, ListObject,
       clusterVars, sinkVars, TypeOK
  <1>2. EventTrue(q) => EventTrue(q)'
    BY <1>1 DEF EventTrue, RowsOf
  <1>3. Unsettled(q)' = Unsettled(q)
    BY <1>1 DEF Unsettled
  <1>4. Issued(q)' = Issued(q)
    BY <1>1, <1>3, IssuedKept
  <1>5. clock <= clock'
    BY <1>1, SMTT(60) DEF TypeOK
  <1>6. ASSUME KeyTrue(q), q # k PROVE KeyTrue(q)'
    BY <1>1, <1>3, <1>4, <1>5, <1>6, KeyUntouched
  <1>7. ASSUME KeyTrue(k), q = k PROVE KeyTrue(k)'
    <2>1. CASE Cluster(k)
      <3>1. listed' = listed /\ dirty' = IF k \in listed THEN dirty \cup {k} ELSE dirty
        BY <2>1 DEF Cluster, CreateObject, UpdateObject, RemoveObject, ChangeObject, Notify,
           Observed
      <3>2. SeenTrue(k)'
        BY <1>1, <1>4, <1>7, <3>1 DEF KeyTrue, SeenTrue
      <3>3. QED
        BY <1>1, <1>3, <1>4, <1>5, <1>7, <3>2, KeyMoved DEF KeyTrue
    <2>2. CASE ListObject(k)
      <3>1. /\ k \notin listed /\ listed' = listed \cup {k} /\ live' = live
            /\ dirty' = IF live[k].uid # 0 THEN dirty \cup {k} ELSE dirty
        BY <2>2 DEF ListObject
      <3>2. work[k].pc = "idle" /\ Issued(k) = {}
        BY <1>7, <3>1 DEF KeyTrue, SeenTrue
      <3>3. LastDeleted(Issued(k))
        BY <3>2 DEF LastDeleted
      <3>4. SeenTrue(k)'
        <4>1. k \in listed' /\ (k \notin dirty' => live'[k].uid = 0) /\ work'[k].pc = "idle"
          BY <1>1, <3>1, <3>2
        <4>2. k \notin dirty' => Settled(Issued(k), live[k])'
          BY <1>4, <1>7, <3>3, <4>1 DEF Settled
        <4>3. QED
          BY <4>1, <4>2 DEF SeenTrue
      <3>5. QED
        BY <1>1, <1>3, <1>4, <1>5, <1>7, <3>4, KeyMoved DEF KeyTrue
    <2>3. QED
      BY <2>1, <2>2
  <1>8. QED
    BY <1>2, <1>6, <1>7

\* A step without a fault that stops nothing leaves the retry queue empty.
LEMMA NothingKept ==
    ASSUME TypeOK, NEW k \in Keys, Process(k), closeOuts[k] = {}, ~CountFault
    PROVE  closeOuts' = closeOuts /\ scope' = scope
  <1>1. CASE RetryPendingCloseOuts(k)
    <2>1. PICK accepted \in SUBSET closeOuts[k] :
              closeOuts' = [closeOuts EXCEPT ![k] = @ \ accepted]
      BY <1>1 DEF RetryPendingCloseOuts
    <2>2. closeOuts[k] \ accepted = closeOuts[k]
      BY <2>1
    <2>3. closeOuts' = closeOuts
      BY <2>1, <2>2 DEF TypeOK
    <2>4. QED
      BY <1>1, <2>3 DEF RetryPendingCloseOuts, scopeVars
  <1>2. CASE ~RetryPendingCloseOuts(k)
    BY <1>2 DEF Process, DropStopped, ForgetEphemeral, BeginProcess, SinkUnavailable,
       DeleteRefused, ClaimDelete, UpsertPostponed, LoadMiss, LoadDuplicate,
       LoadChanged, LoadReincarnated, ClaimOldIncarnation, OldIncarnationRefused, EnqueueCloseOut,
       ReserveVersion, EnqueueAccepted, EnqueueRejected, scopeVars
  <1>3. QED
    BY <1>1, <1>2

\* Faults and passes are only ever counted up, and a slot emptied under a write is
\* remembered.
LEMMA CountsGrow ==
    ASSUME TypeOK, Next
    PROVE  (faults' = 0 => faults = 0) /\ (passes' = 0 => passes = 0) /\ (~reissued' => ~reissued)
  <1>0. faults \in Nat /\ passes \in Nat
    BY DEF TypeOK
  <1>1. faults' = faults \/ faults' = faults + 1
    <2>1. ASSUME NEW k \in Keys, Process(k) PROVE faults' = faults \/ faults' = faults + 1
      BY <2>1 DEF Process, DropStopped, ForgetEphemeral, BeginProcess, SinkUnavailable,
         RetryPendingCloseOuts, DeleteRefused, ClaimDelete, UpsertPostponed, LoadMiss, LoadDuplicate,
         LoadChanged, LoadReincarnated, ClaimOldIncarnation, OldIncarnationRefused, EnqueueCloseOut,
         ReserveVersion, EnqueueAccepted, EnqueueRejected, CountFault
    <2>2. ASSUME NEW k \in Keys, Cluster(k) \/ ListObject(k) PROVE faults' = faults
      BY <2>2 DEF Cluster, CreateObject, UpdateObject, RemoveObject, ChangeObject, ListObject
    <2>3. ASSUME NEW j \in jobs, Settle(j) PROVE faults' = faults \/ faults' = faults + 1
      BY <2>3 DEF Settle, WriteSucceeds, WriteFails, CountFault
    <2>4. QED
      BY <2>1, <2>2, <2>3 DEF Next, DeregisterScope, EvictScope, RestartScope, MarkScopeWarm
  <1>2. passes' = passes \/ passes' = passes + 1
    <2>1. ASSUME NEW k \in Keys, Process(k) PROVE passes' = passes
      BY <2>1 DEF Process, DropStopped, ForgetEphemeral, BeginProcess, SinkUnavailable,
         RetryPendingCloseOuts, DeleteRefused, ClaimDelete, UpsertPostponed, LoadMiss, LoadDuplicate,
         LoadChanged, LoadReincarnated, ClaimOldIncarnation, OldIncarnationRefused, EnqueueCloseOut,
         ReserveVersion, EnqueueAccepted, EnqueueRejected, scopeVars
    <2>2. ASSUME NEW k \in Keys, Cluster(k) \/ ListObject(k) PROVE passes' = passes
      BY <2>2 DEF Cluster, CreateObject, UpdateObject, RemoveObject, ChangeObject, ListObject,
         scopeVars
    <2>3. ASSUME NEW j \in jobs, Settle(j) PROVE passes' = passes
      BY <2>3 DEF Settle, WriteSucceeds, WriteFails, scopeVars
    <2>4. QED
      BY <2>1, <2>2, <2>3 DEF Next, DeregisterScope, EvictScope, RestartScope, MarkScopeWarm
  <1>3. reissued => reissued'
    <2>1. ASSUME NEW k \in Keys, Process(k) PROVE reissued' = reissued
      BY <2>1 DEF Process, DropStopped, ForgetEphemeral, BeginProcess, SinkUnavailable,
         RetryPendingCloseOuts, DeleteRefused, ClaimDelete, UpsertPostponed, LoadMiss, LoadDuplicate,
         LoadChanged, LoadReincarnated, ClaimOldIncarnation, OldIncarnationRefused, EnqueueCloseOut,
         ReserveVersion, EnqueueAccepted, EnqueueRejected, sinkVars
    <2>2. ASSUME NEW k \in Keys, Cluster(k) \/ ListObject(k) PROVE reissued' = reissued
      BY <2>2 DEF Cluster, CreateObject, UpdateObject, RemoveObject, ChangeObject, ListObject,
         sinkVars
    <2>3. ASSUME NEW j \in jobs, Settle(j) PROVE reissued => reissued'
      BY <2>3 DEF Settle, WriteSucceeds, WriteFails
    <2>4. QED
      BY <2>1, <2>2, <2>3 DEF Next, DeregisterScope, EvictScope, RestartScope, MarkScopeWarm,
         sinkVars
  <1>4. QED
    BY <1>0, <1>1, <1>2, <1>3, SMTT(60)

\* Every undisturbed step keeps what the invariant says.
LEMMA StepHistory ==
    ASSUME IndInv, KeysTrue, Next, TypeOK', faults = 0, faults' = 0, passes = 0, passes' = 0,
           ~reissued'
    PROVE  KeysTrue'
  <1>0. /\ TypeOK /\ scope = "active" /\ (\A k \in Keys : closeOuts[k] = {})
        /\ \A k \in Keys : IF k \in EphemeralKeys THEN EventTrue(k) ELSE KeyTrue(k)
    BY DEF IndInv, KeysTrue
  <1>n. ~CountFault
    BY SMTT(60) DEF CountFault
  <1>1. ASSUME NEW k \in Keys, Process(k) PROVE KeysTrue'
    <2>1. closeOuts' = closeOuts /\ scope' = scope
      BY <1>0, <1>n, <1>1, NothingKept
    <2>2. ASSUME NEW q \in Keys PROVE IF q \in EphemeralKeys THEN EventTrue(q)' ELSE KeyTrue(q)'
      <3>1. CASE q = k /\ q \in EphemeralKeys
        BY <1>0, <1>1, <3>1, EventProcess
      <3>2. CASE q = k /\ q \notin EphemeralKeys
        BY <1>0, <1>1, <3>2, ProcessHistory
      <3>3. CASE q # k
        BY <1>0, <1>1, <3>3, OthersHistory
      <3>4. QED
        BY <3>1, <3>2, <3>3
    <2>3. QED
      BY <1>0, <2>1, <2>2 DEF KeysTrue
  <1>2. ASSUME NEW k \in Keys, Cluster(k) \/ ListObject(k) PROVE KeysTrue'
    <2>1. closeOuts' = closeOuts /\ scope' = scope
      BY <1>2 DEF Cluster, CreateObject, UpdateObject, RemoveObject, ChangeObject, ListObject,
         scopeVars
    <2>2. \A q \in Keys : IF q \in EphemeralKeys THEN EventTrue(q)' ELSE KeyTrue(q)'
      BY <1>0, <1>2, WatchHistory
    <2>3. QED
      BY <1>0, <2>1, <2>2 DEF KeysTrue
  <1>3. ASSUME NEW j \in jobs, Settle(j) PROVE KeysTrue'
    <2>1. WriteSucceeds(j)
      BY <1>3, <1>n DEF Settle, WriteFails
    <2>2. closeOuts' = closeOuts /\ scope' = scope
      BY <2>1 DEF WriteSucceeds, scopeVars
    <2>3. ASSUME NEW q \in Keys PROVE IF q \in EphemeralKeys THEN EventTrue(q)' ELSE KeyTrue(q)'
      BY <1>0, <2>1, EventSettle, SettleHistory
    <2>4. QED
      BY <1>0, <2>2, <2>3 DEF KeysTrue
  <1>4. CASE MarkScopeWarm
    <2>1. UNCHANGED <<live, listed, dirty, work, cache, closeOuts, jobs, rows, clock, scope>>
      BY <1>4 DEF MarkScopeWarm, clusterVars, sinkVars
    <2>2. clock <= clock'
      BY <1>0, <2>1, SMTT(60) DEF TypeOK
    <2>3. ASSUME NEW q \in Keys, KeyTrue(q) PROVE KeyTrue(q)'
      <3>1. Unsettled(q)' = Unsettled(q)
        BY <2>1 DEF Unsettled
      <3>2. Issued(q)' = Issued(q)
        BY <2>1, <3>1, IssuedKept
      <3>3. QED
        BY <1>0, <2>1, <2>2, <2>3, <3>1, <3>2, KeyUntouched
    <2>4. ASSUME NEW q \in Keys, EventTrue(q) PROVE EventTrue(q)'
      BY <2>1, <2>4 DEF EventTrue, RowsOf
    <2>5. QED
      BY <1>0, <2>1, <2>3, <2>4 DEF KeysTrue
  <1>5. ~DeregisterScope /\ ~EvictScope /\ ~RestartScope
    BY <1>0, SMTT(60) DEF DeregisterScope, EvictScope, RestartScope
  <1>6. QED
    BY <1>1, <1>2, <1>3, <1>4, <1>5 DEF Next

\* Nothing has been issued at the start.
LEMMA InitHistory == Init => IndInv /\ HistoryInv
  <1> SUFFICES ASSUME Init PROVE IndInv /\ KeysTrue
    BY DEF HistoryInv
  <1>2. /\ live = [q \in Keys |-> NoObject] /\ listed = {} /\ scope = "active" /\ dirty = {}
        /\ work = [q \in Keys |-> Idle(q)] /\ cache = [q \in Keys |-> Absent]
        /\ closeOuts = [q \in Keys |-> {}] /\ jobs = {} /\ rows = {}
    BY DEF Init
  <1>3. ASSUME NEW k \in Keys PROVE KeyTrue(k)
    <2>1. work[k].pc = "idle" /\ cache[k] = Absent /\ ~Present(cache[k])
      BY <1>2, IdleFields, AbsentType
    <2>2. Unsettled(k) = {}
      BY <1>2, <2>1 DEF Unsettled
    <2>3. Issued(k) = {}
      BY <1>2, <2>2 DEF Issued, RowsOf
    <2>4. Stamped(k) /\ VersionsHeld(k) /\ DiffsTrue(Issued(k)) /\ LastDeleted(Issued(k))
      BY <2>2, <2>3 DEF Stamped, VersionsHeld, DiffsTrue, LastDeleted
    <2>5. SlotTrue(k) /\ CallTrue(Issued(k), work[k]) /\ SeenTrue(k)
      BY <1>2, <2>1, <2>3, <2>4 DEF SlotTrue, CallTrue, SeenTrue
    <2>6. QED
      BY <2>4, <2>5 DEF KeyTrue
  <1>4. ASSUME NEW k \in EphemeralKeys PROVE EventTrue(k)
    <2>1. k \in Keys
      BY ConstantsAssumption, SMTT(60)
    <2>2. work[k].job = NoJob(k) /\ ~cache[k].json
      BY <1>2, <2>1, IdleFields DEF Absent
    <2>3. QED
      BY <1>2, <2>2, WholeJobs DEF EventTrue, RowsOf
  <1>5. KeysTrue
    BY <1>2, <1>3, <1>4 DEF KeysTrue
  <1>6. QED
    BY <1>5, InitInv

\* Every step keeps the invariant; IndInv is needed while the scope is watched.
LEMMA NextHistory ==
    ASSUME TypeOK, passes = 0 => IndInv, HistoryInv, [Next]_vars
    PROVE  TypeOK' /\ (passes' = 0 => IndInv') /\ HistoryInv'
  <1>2. TypeOK'
    BY TypeStep
  <1>3. CASE Next
    <2>2. (faults' = 0 => faults = 0) /\ (passes' = 0 => passes = 0) /\ (~reissued' => ~reissued)
      BY <1>3, CountsGrow
    <2>3. passes' = 0 => passes' <= 1
      BY SMTT(60)
    <2>4. passes' = 0 => IndInv'
      BY <2>2, <2>3, StepInv
    <2>5. ASSUME Undisturbed' PROVE KeysTrue'
      <3>1. faults' = 0 /\ passes' = 0 /\ ~reissued'
        BY <2>5 DEF Undisturbed
      <3>2. IndInv /\ KeysTrue
        BY <2>2, <3>1 DEF HistoryInv, Undisturbed
      <3>3. QED
        BY <1>2, <1>3, <2>2, <3>1, <3>2, StepHistory
    <2>6. QED
      BY <1>2, <2>4, <2>5 DEF HistoryInv
  <1>4. CASE UNCHANGED vars
    <2>1. /\ UNCHANGED <<live, listed, scope, dirty, work, cache, closeOuts, jobs, rows, clock>>
          /\ UNCHANGED <<faults, passes, reissued>>
      BY <1>4 DEF vars
    <2>2. passes' = 0 => passes' <= 1
      BY SMTT(60)
    <2>3. passes' = 0 => IndInv'
      BY <2>1, <2>2, StepInv
    <2>4. clock <= clock'
      BY <2>1, SMTT(60) DEF TypeOK
    <2>5. ASSUME NEW q \in Keys, KeyTrue(q) PROVE KeyTrue(q)'
      <3>1. Unsettled(q)' = Unsettled(q)
        BY <2>1 DEF Unsettled
      <3>2. Issued(q)' = Issued(q)
        BY <2>1, <3>1, IssuedKept
      <3>3. QED
        BY <1>2, <2>1, <2>4, <2>5, <3>1, <3>2, KeyUntouched
    <2>6. ASSUME NEW q \in Keys, EventTrue(q) PROVE EventTrue(q)'
      BY <2>1, <2>6 DEF EventTrue, RowsOf
    <2>7. KeysTrue => KeysTrue'
      BY <2>1, <2>5, <2>6 DEF KeysTrue
    <2>8. QED
      BY <1>2, <2>1, <2>3, <2>7 DEF HistoryInv, Undisturbed
  <1>5. QED
    BY <1>3, <1>4

\* What the invariant says of a quiet key, all of whose records are rows.
LEMMA QuietRecords ==
    ASSUME TypeOK, HistoryInv, Undisturbed, NEW k \in Keys \ EphemeralKeys, Observed(k), Quiet(k)
    PROVE  Settled(RowsOf(k), live[k]) /\ DiffsTrue(RowsOf(k))
  <1>1. KeyTrue(k)
    BY DEF HistoryInv, KeysTrue
  <1>2. Unsettled(k) = {}
    BY DEF Unsettled, Quiet
  <1>3. Issued(k) = RowsOf(k)
    BY <1>2 DEF Issued
  <1>4. QED
    BY <1>1, <1>3 DEF KeyTrue, SeenTrue, Quiet, Observed

\* The invariant implies the three properties.
LEMMA HistoryMeaning ==
    ASSUME TypeOK, HistoryInv
    PROVE  RecordedUndisturbed /\ ReplayChain /\ PatchRunBounded
  <1>1. RecordedUndisturbed
    BY QuietRecords DEF RecordedUndisturbed, RecordedWhenQuiet, Settled, LastDeleted, LastIs,
       Newest, LatestRow, RowsOf
  <1>2. ASSUME NEW r \in rows, Undisturbed, DiffOnly(r), Observed(r.key), Quiet(r.key)
        PROVE  DiffBased(RowsOf(r.key), r) /\ DiffBounded(RowsOf(r.key), r)
    <2>1. r.key \in Keys
      BY DEF TypeOK, Row
    <2>2. r.key \notin EphemeralKeys
      BY <1>2, <2>1 DEF HistoryInv, KeysTrue, EventTrue, RowsOf
    <2>3. DiffsTrue(RowsOf(r.key)) /\ r \in RowsOf(r.key)
      BY <1>2, <2>1, <2>2, QuietRecords DEF RowsOf
    <2>4. QED
      BY <1>2, <2>3 DEF DiffsTrue
  <1>t. \A r \in rows : r.ts \in Nat
    BY DEF TypeOK, Row
  <1>3. ReplayChain
    <2> SUFFICES ASSUME NEW r \in rows, Undisturbed, DiffOnly(r), Observed(r.key), Quiet(r.key)
                 PROVE  \E p \in HistoryTo(r) \ {r} :
                            p.hash = r.base /\ \A x \in HistoryTo(r) \ {r} : x.ts <= p.ts
      BY DEF ReplayChain
    <2>1. PICK p \in RowsOf(r.key) :
            /\ p.uid = r.uid /\ p.ts < r.ts /\ p.hash = r.base
            /\ \A x \in RowsOf(r.key) : x.uid = r.uid /\ x # r /\ x.ts <= r.ts => x.ts <= p.ts
      BY <1>2 DEF DiffBased
    <2>2. p \in rows /\ p.key = r.key
      BY <2>1 DEF RowsOf
    <2>3. p # r /\ p.ts <= r.ts
      BY <1>t, <2>1, <2>2, SMTT(60)
    <2>4. p \in HistoryTo(r) \ {r}
      BY <2>1, <2>2, <2>3 DEF HistoryTo
    <2>5. \A x \in HistoryTo(r) \ {r} : x.ts <= p.ts
      BY <2>1 DEF HistoryTo, RowsOf
    <2>6. QED
      BY <2>1, <2>4, <2>5
  <1>4. PatchRunBounded
    <2> SUFFICES ASSUME NEW r \in rows, Undisturbed, DiffOnly(r), Observed(r.key), Quiet(r.key),
                        CheckpointEvery > 0
                 PROVE  \E p \in HistoryTo(r) :
                            /\ p.full
                            /\ Numbered({x \in HistoryTo(r) : x.ts > p.ts}, CheckpointEvery - 1)
      BY DEF PatchRunBounded
    <2>1. PICK p \in RowsOf(r.key) :
            /\ p.uid = r.uid /\ p.full /\ p.ts <= r.ts
            /\ Numbered(Between(RowsOf(r.key), p, r), CheckpointEvery - 1)
      BY <1>2 DEF DiffBounded
    <2>2. p \in HistoryTo(r)
      BY <2>1 DEF HistoryTo, RowsOf
    <2>3. \A x \in rows : x.ts > p.ts <=> p.ts < x.ts
      BY <1>t, <2>1 DEF RowsOf
    <2>4. {x \in HistoryTo(r) : x.ts > p.ts} = Between(RowsOf(r.key), p, r)
      BY <2>3 DEF HistoryTo, Between, RowsOf
    <2>5. QED
      BY <2>1, <2>2, <2>4
  <1>5. QED
    BY <1>1, <1>3, <1>4

-----------------------------------------------------------------------------
LEMMA HistoryAlways == Spec => [](TypeOK /\ HistoryInv)
  <1>1. Init => TypeOK /\ (passes = 0 => IndInv) /\ HistoryInv
    BY InitHistory DEF IndInv
  <1>2. TypeOK /\ (passes = 0 => IndInv) /\ HistoryInv /\ [Next]_vars
          => TypeOK' /\ (passes = 0 => IndInv)' /\ HistoryInv'
    BY NextHistory
  <1>3. QED
    BY <1>1, <1>2, PTL DEF Spec

\* In an undisturbed history a quiet key's latest row is the state its object has
\* now, or a Deleted row, for every set of keys, any number of changes and of jobs
\* in flight, in whatever order they settle (processUpsert, emitDelete, the Commit
\* closures).
THEOREM HistoryIsRecorded == Spec => []RecordedUndisturbed
  <1>1. TypeOK /\ HistoryInv => RecordedUndisturbed
    BY HistoryMeaning
  <1>2. QED
    BY <1>1, HistoryAlways, PTL

\* Every diff of such a history patches the state of its object's previous row
\* (the baseline ChangedJob takes from the slot).
THEOREM HistoryReplays == Spec => []ReplayChain
  <1>1. TypeOK /\ HistoryInv => ReplayChain
    BY HistoryMeaning
  <1>2. QED
    BY <1>1, HistoryAlways, PTL

\* Every diff of such a history is fewer than CheckpointEvery rows after a full one
\* (checkpointDue on ModifiedSinceCheckpoint).
THEOREM PatchRunsAreBounded == Spec => []PatchRunBounded
  <1>1. TypeOK /\ HistoryInv => PatchRunBounded
    BY HistoryMeaning
  <1>2. QED
    BY <1>1, HistoryAlways, PTL
=============================================================================
