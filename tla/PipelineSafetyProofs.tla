------------------------ MODULE PipelineSafetyProofs ------------------------
(***************************************************************************)
(* IndInv is an inductive invariant of the write path as long as a stopped *)
(* scope is not watched again, and with it NoFalseDelete, ClaimHasOwner    *)
(* and DeletionOwed hold for every set of keys and every bound.            *)
(*                                                                         *)
(* The argument: UIDs are issued in increasing order and Process handles   *)
(* one key at a time, so no slot of a key ever holds a UID newer than the  *)
(* snapshot a call is working on (ReadInOrder).  A deletion is therefore   *)
(* only ever claimed for a UID older than the object that exists now, and  *)
(* UIDs never come back (OnlyDeadBuried).                                  *)
(***************************************************************************)
EXTENDS PipelineProofs

\* The prover of a leaf that names none; SMT is named where arithmetic is needed.
USE ZenonT(60)

-----------------------------------------------------------------------------
\* The steps of Process preserve the invariant, conjunct by conjunct.
LEMMA SlotTypes ==
    ASSUME TypeOK, NEW k \in Keys
    PROVE  /\ cache[k].uid \in Nat /\ work[k].obj.uid \in Nat /\ live[k].uid \in Nat
           /\ work[k].job.entry.uid \in Nat /\ work[k].job.revert.uid \in Nat
           /\ changes \in Nat
  <1>1. work[k].job.entry \in CacheEntry /\ work[k].job.revert \in CacheEntry
    BY LocalsType DEF Job
  <1>2. QED
    BY <1>1, LocalsType DEF TypeOK, Object, CacheEntry

\* What k's call and slot say stays true while they, k's object and time stay put.
LEMMA SoundKept ==
    ASSUME NEW k, WorkSound(k), SlotSound(k), work'[k] = work[k], cache'[k] = cache[k],
           live' = live, changes' = changes
    PROVE  WorkSound(k)' /\ SlotSound(k)'
  <1>1. WorkSound(k)'
    BY DEF WorkSound
  <1>2. SlotSound(k)'
    BY DEF SlotSound, Buried
  <1>3. QED
    BY <1>1, <1>2

\* A bound on the UIDs of a key may be raised.
LEMMA SlotsBelowWeaken ==
    ASSUME TypeOK, NEW k \in Keys, NEW a \in Nat, NEW b \in Nat, a <= b, SlotsBelow(k, a)
    PROVE  SlotsBelow(k, b)
  <1>1. \A j \in jobs \cup closeOuts[k] : j \in Job
    BY DEF TypeOK
  <1>2. \A j \in Job : j.entry.uid \in Nat /\ j.revert.uid \in Nat
    BY DEF Job, CacheEntry
  <1>3. QED
    BY <1>1, <1>2, SlotTypes, SMTT(60) DEF SlotsBelow

\* SlotsBelow in the next state, for a bound of the current one.
SlotsStayBelow(k, b) ==
    /\ cache'[k].uid <= b
    /\ work'[k].obj.uid <= b
    /\ work'[k].job.entry.uid <= b /\ work'[k].job.revert.uid <= b
    /\ \A j \in jobs' : j.key = k => j.entry.uid <= b /\ j.revert.uid <= b
    /\ \A j \in closeOuts'[k] : j.entry.uid <= b /\ j.revert.uid <= b

\* A step that reads nothing and raises no bound keeps ReadInOrder.
LEMMA ReadInOrderKept ==
    ASSUME TypeOK, ReadInOrder, live' = live, changes' = changes, work' = work,
           scope' = "active" => scope = "active" /\ listed \subseteq listed',
           \A q \in Keys : \A b \in Nat : SlotsBelow(q, b) => SlotsStayBelow(q, b)
    PROVE  ReadInOrder'
  <1> SUFFICES ASSUME NEW q \in Keys
               PROVE  /\ live'[q].uid <= changes'
                      /\ SlotsBelow(q, changes)'
                      /\ (live[q].uid > 0 => SlotsBelow(q, live[q].uid))'
                      /\ (work[q].obj.uid > 0 => SlotsBelow(q, work[q].obj.uid))'
                      /\ (work[q].pc # "idle" /\ work[q].obj.uid = 0 /\ live[q].uid > 0
                             => SlotsBelow(q, live[q].uid - 1))'
                      /\ (scope = "active" /\ q \notin listed => SlotsBelow(q, 0))'
    BY DEF ReadInOrder
  <1>0. live[q].uid \in Nat /\ changes \in Nat /\ work[q].obj.uid \in Nat
    BY SlotTypes
  <1>n. live[q].uid > 0 => live[q].uid - 1 \in Nat
    BY <1>0, SMTT(60)
  <1>i. /\ live[q].uid <= changes
        /\ SlotsBelow(q, changes)
        /\ live[q].uid > 0 => SlotsBelow(q, live[q].uid)
        /\ work[q].obj.uid > 0 => SlotsBelow(q, work[q].obj.uid)
        /\ work[q].pc # "idle" /\ work[q].obj.uid = 0 /\ live[q].uid > 0
              => SlotsBelow(q, live[q].uid - 1)
        /\ scope = "active" /\ q \notin listed => SlotsBelow(q, 0)
    BY DEF ReadInOrder
  <1>1. SlotsBelow(q, changes)'
    <2>1. SlotsStayBelow(q, changes)
      BY <1>0, <1>i
    <2>2. QED
      BY <2>1 DEF SlotsStayBelow, SlotsBelow
  <1>2. (live[q].uid > 0 => SlotsBelow(q, live[q].uid))'
    <2>1. live[q].uid > 0 => SlotsStayBelow(q, live[q].uid)
      BY <1>0, <1>i
    <2>2. QED
      BY <2>1 DEF SlotsStayBelow, SlotsBelow
  <1>3. (work[q].obj.uid > 0 => SlotsBelow(q, work[q].obj.uid))'
    <2>1. work[q].obj.uid > 0 => SlotsStayBelow(q, work[q].obj.uid)
      BY <1>0, <1>i
    <2>2. QED
      BY <2>1 DEF SlotsStayBelow, SlotsBelow
  <1>4. (work[q].pc # "idle" /\ work[q].obj.uid = 0 /\ live[q].uid > 0
             => SlotsBelow(q, live[q].uid - 1))'
    <2>1. work[q].pc # "idle" /\ work[q].obj.uid = 0 /\ live[q].uid > 0
              => SlotsStayBelow(q, live[q].uid - 1)
      BY <1>n, <1>i
    <2>2. QED
      BY <2>1 DEF SlotsStayBelow, SlotsBelow
  <1>5. (scope = "active" /\ q \notin listed => SlotsBelow(q, 0))'
    <2>1. scope' = "active" /\ q \notin listed' => SlotsStayBelow(q, 0)
      BY <1>i
    <2>2. QED
      BY <2>1 DEF SlotsStayBelow, SlotsBelow
  <1>6. QED
    BY <1>i, <1>1, <1>2, <1>3, <1>4, <1>5

\* A step of Process brings no UID to a key beyond the object it read.
LEMMA SlotsBelowProcess ==
    ASSUME TypeOK, JobsSound, NEW k \in Keys, WorkSound(k), ProcessEffect(k),
           NEW q \in Keys, NEW b \in Nat, SlotsBelow(q, b),
           BeginProcess(k) /\ q = k => Indexed(k).uid <= b
    PROVE  SlotsBelow(q, b)'
  <1>0. work[k].job.key = k /\ \A j \in closeOuts[k] : j.key = k
    BY DEF WorkSound, JobsSound
  <1>1. CASE q # k
    <2>1. cache'[q] = cache[q] /\ work'[q] = work[q] /\ closeOuts'[q] = closeOuts[q]
      BY <1>1 DEF ProcessEffect, FrameEffect
    <2>2. \A j \in jobs' : j.key = q => j \in jobs
      BY <1>0, <1>1 DEF ProcessEffect, JobsEffect
    <2>3. QED
      BY <2>1, <2>2 DEF SlotsBelow
  <1>2. CASE q = k
    <2>1. /\ cache'[k].uid <= b /\ work'[k].obj.uid <= b
          /\ work'[k].job.entry.uid <= b /\ work'[k].job.revert.uid <= b
      <3>1. /\ cache[k].uid <= b /\ work[k].obj.uid <= b
            /\ work[k].job.entry.uid <= b /\ work[k].job.revert.uid <= b
        BY <1>2 DEF SlotsBelow
      <3>2. 0 <= b
        BY SMTT(60)
      <3>3. cache'[k].uid <= b /\ work'[k].job.entry.uid <= b /\ work'[k].job.revert.uid <= b
        BY <3>1, <3>2 DEF ProcessEffect, SlotEffect
      <3>4. work'[k].obj.uid <= b
        BY <1>2, <3>1, <3>2 DEF ProcessEffect, CallEffect
      <3>5. QED
        BY <3>3, <3>4
    <2>2. \A j \in jobs' \cup closeOuts'[k] : j \in jobs \/ j = work[k].job \/ j \in closeOuts[k]
      BY DEF ProcessEffect, JobsEffect
    <2>3. \A j \in jobs' : j.key = k => j.entry.uid <= b /\ j.revert.uid <= b
      BY <1>2, <2>2 DEF SlotsBelow
    <2>4. \A j \in closeOuts'[k] : j.entry.uid <= b /\ j.revert.uid <= b
      BY <1>0, <1>2, <2>2 DEF SlotsBelow, ProcessEffect, JobsEffect
    <2>5. QED
      BY <1>2, <2>1, <2>3, <2>4 DEF SlotsBelow
  <1>3. QED
    BY <1>1, <1>2

\* Process keeps remembered UIDs no newer than what was last read.
LEMMA ReadInOrderProcess ==
    ASSUME TypeOK, JobsSound, ReadInOrder, NEW k \in Keys, WorkSound(k), ProcessEffect(k)
    PROVE  ReadInOrder'
  <1> SUFFICES ASSUME NEW q \in Keys
               PROVE  /\ live'[q].uid <= changes'
                      /\ SlotsBelow(q, changes)'
                      /\ (live[q].uid > 0 => SlotsBelow(q, live[q].uid))'
                      /\ (work[q].obj.uid > 0 => SlotsBelow(q, work[q].obj.uid))'
                      /\ (work[q].pc # "idle" /\ work[q].obj.uid = 0 /\ live[q].uid > 0
                             => SlotsBelow(q, live[q].uid - 1))'
                      /\ (scope = "active" /\ q \notin listed => SlotsBelow(q, 0))'
    BY DEF ReadInOrder
  <1>0. /\ live' = live /\ changes' = changes /\ scope' = scope /\ listed' = listed
        /\ q # k => work'[q] = work[q]
    BY DEF ProcessEffect, FrameEffect
  <1>n. live[q].uid \in Nat /\ changes \in Nat /\ work[q].obj.uid \in Nat
    BY SlotTypes
  <1>i. /\ live[q].uid <= changes
        /\ SlotsBelow(q, changes)
        /\ live[q].uid > 0 => SlotsBelow(q, live[q].uid)
        /\ work[q].obj.uid > 0 => SlotsBelow(q, work[q].obj.uid)
        /\ work[q].pc # "idle" /\ work[q].obj.uid = 0 /\ live[q].uid > 0
              => SlotsBelow(q, live[q].uid - 1)
        /\ scope = "active" /\ q \notin listed => SlotsBelow(q, 0)
    BY DEF ReadInOrder
  <1>x. BeginProcess(k) => /\ Indexed(k).uid \in {0, live[k].uid}
                           /\ Indexed(k).uid = 0 /\ live[k].uid > 0 => k \notin listed
                           /\ k \notin listed => Indexed(k).uid = 0
                           /\ scope = "active"
    BY SMTT(60) DEF Indexed, NoObject, BeginProcess
  <1>b. ASSUME NEW b \in Nat, SlotsBelow(q, b), BeginProcess(k) /\ q = k => Indexed(k).uid <= b
        PROVE  /\ cache'[q].uid <= b /\ work'[q].obj.uid <= b
               /\ work'[q].job.entry.uid <= b /\ work'[q].job.revert.uid <= b
               /\ \A j \in jobs' : j.key = q => j.entry.uid <= b /\ j.revert.uid <= b
               /\ \A j \in closeOuts'[q] : j.entry.uid <= b /\ j.revert.uid <= b
    <2>1. SlotsBelow(q, b)'
      BY <1>b, SlotsBelowProcess
    <2>2. QED
      BY <2>1 DEF SlotsBelow
  <1>1. SlotsBelow(q, changes)'
    <2>1. BeginProcess(k) /\ q = k => Indexed(k).uid <= changes
      BY <1>n, <1>i, <1>x, SMTT(60)
    <2>2. QED
      BY <1>0, <1>n, <1>i, <1>b, <2>1 DEF SlotsBelow
  <1>2. (live[q].uid > 0 => SlotsBelow(q, live[q].uid))'
    <2>1. BeginProcess(k) /\ q = k => Indexed(k).uid <= live[q].uid
      BY <1>n, <1>i, <1>x, SMTT(60)
    <2>2. QED
      BY <1>0, <1>n, <1>i, <1>b, <2>1 DEF SlotsBelow
  <1>3. (scope = "active" /\ q \notin listed => SlotsBelow(q, 0))'
    <2>1. scope = "active" /\ q \notin listed /\ BeginProcess(k) /\ q = k => Indexed(k).uid <= 0
      BY <1>x, SMTT(60)
    <2>2. QED
      BY <1>0, <1>i, <1>b, <2>1 DEF SlotsBelow
  <1>4. (work[q].obj.uid > 0 => SlotsBelow(q, work[q].obj.uid))'
    <2> SUFFICES ASSUME work'[q].obj.uid > 0 PROVE SlotsBelow(q, work[q].obj.uid)'
      OBVIOUS
    <2>1. CASE BeginProcess(k) /\ q = k /\ work'[k].obj = Indexed(k)
      <3>1. work'[q].obj.uid = live[q].uid /\ live[q].uid > 0
        BY <1>x, <1>n, <2>1, SMTT(60)
      <3>2. QED
        BY <1>0, <1>2, <3>1 DEF SlotsBelow
    <2>2. CASE work'[q].obj = work[q].obj /\ ~(BeginProcess(k) /\ q = k)
      BY <1>n, <1>i, <1>b, <2>2 DEF SlotsBelow
    <2>3. CASE q = k /\ BeginProcess(k) /\ work'[q].obj = work[q].obj /\ work[k].pc # "idle"
      BY <2>3 DEF BeginProcess
    <2>4. QED
      BY <1>0, <2>1, <2>2, <2>3, SMTT(60) DEF ProcessEffect, CallEffect
  <1>5. (work[q].pc # "idle" /\ work[q].obj.uid = 0 /\ live[q].uid > 0
             => SlotsBelow(q, live[q].uid - 1))'
    <2> SUFFICES ASSUME work'[q].pc # "idle", work'[q].obj.uid = 0, live[q].uid > 0
                 PROVE  SlotsBelow(q, live[q].uid - 1)'
      BY <1>0
    <2>n. live[q].uid - 1 \in Nat /\ live'[q].uid - 1 = live[q].uid - 1
      BY <1>0, <1>n, SMTT(60)
    <2>1. CASE BeginProcess(k) /\ q = k /\ work'[k].obj = Indexed(k)
      <3>1. SlotsBelow(q, 0) /\ Indexed(k).uid <= 0
        BY <1>x, <1>i, <2>1, SMTT(60)
      <3>2. SlotsBelow(q, live[q].uid - 1) /\ Indexed(k).uid <= live[q].uid - 1
        BY <1>x, <2>1, <2>n, <3>1, SlotsBelowWeaken, SMTT(60)
      <3>3. QED
        BY <1>b, <3>2, <2>n DEF SlotsBelow
    <2>2. CASE work[q].pc # "idle" /\ work'[q].obj = work[q].obj /\ ~(BeginProcess(k) /\ q = k)
      BY <1>i, <1>b, <2>2, <2>n DEF SlotsBelow
    <2>3. CASE q = k /\ BeginProcess(k) /\ work[k].pc # "idle"
      BY <2>3 DEF BeginProcess
    <2>4. QED
      BY <1>0, <2>1, <2>2, <2>3 DEF ProcessEffect, CallEffect
  <1>6. QED
    BY <1>0, <1>i, <1>1, <1>2, <1>3, <1>4, <1>5

\* Process never leaves an outdated incarnation without a queued key.
LEMMA StaleProcess ==
    ASSUME TypeOK, StaleIsDirty, NEW k \in Keys, ProcessEffect(k)
    PROVE  StaleIsDirty'
  <1> SUFFICES ASSUME NEW q \in Keys, work'[q].pc # "idle", Observed(q)', work'[q].obj.uid # live'[q].uid
               PROVE  q \in dirty'
    BY DEF StaleIsDirty
  <1>0. live' = live /\ Observed(q)
    BY DEF ProcessEffect, FrameEffect, Observed
  <1>1. CASE q # k
    BY <1>0, <1>1 DEF ProcessEffect, FrameEffect, StaleIsDirty
  <1>2. CASE q = k /\ BeginProcess(k) /\ work'[k].obj = Indexed(k)
    BY <1>0, <1>2 DEF Observed, Indexed
  <1>3. CASE q = k /\ work[k].pc # "idle" /\ work'[k].obj = work[k].obj /\ (k \in dirty => k \in dirty')
    BY <1>0, <1>3 DEF StaleIsDirty
  <1>4. QED
    BY <1>1, <1>2, <1>3 DEF ProcessEffect, CallEffect

\* Process only hands sound jobs to the sink and the retry queue.
LEMMA JobsProcess ==
    ASSUME TypeOK, JobsSound, NEW k \in Keys, WorkSound(k), ProcessEffect(k)
    PROVE  JobsSound'
  <1>1. /\ work[k].pc \in {"closeOut", "enqueue"} =>
              /\ JobSound(work[k].job)
              /\ work[k].job.kind # "closeOut" => work[k].job.version > 0
        /\ work[k].pc = "closeOut" => work[k].job.kind = "closeOut" /\ work[k].job.key = k
    BY DEF WorkSound
  <1>2. \A j \in jobs' : JobSound(j) /\ (j.kind # "closeOut" => j.version > 0)
    BY <1>1 DEF JobsSound, ProcessEffect, JobsEffect
  <1>3. \A q \in Keys : \A j \in closeOuts'[q] : j.key = q /\ j.kind = "closeOut" /\ JobSound(j)
    BY <1>1, SMTT(60) DEF JobsSound, ProcessEffect, FrameEffect, JobsEffect
  <1>4. QED
    BY <1>2, <1>3 DEF JobsSound

\* Process only records the deaths of buried objects.
LEMMA DeadProcess ==
    ASSUME TypeOK, JobsSound, OnlyDeadBuried, NEW k \in Keys, WorkSound(k), SlotSound(k),
           ProcessEffect(k)
    PROVE  OnlyDeadBuried'
  <1>0. live' = live /\ changes' = changes /\ rows' = rows
    BY DEF ProcessEffect, FrameEffect
  <1>1. \A j \in closeOuts[k] : j.key = k
    BY DEF JobsSound
  <1>2. /\ work[k].job.type = "Deleted" => Buried(k, work[k].job.uid)
        /\ work[k].pc = "closeOut" => work[k].job.type = "Deleted"
        /\ work[k].job.key = k
    BY DEF WorkSound, SlotSound, JobSound
  <1>3. \A j \in jobs' : j.type = "Deleted" => Buried(j.key, j.uid)
    BY <1>1, <1>2 DEF OnlyDeadBuried, ProcessEffect, JobsEffect
  <1>4. \A q \in Keys : \A j \in closeOuts'[q] : Buried(q, j.uid)
    BY <1>1, <1>2 DEF OnlyDeadBuried, ProcessEffect, FrameEffect, JobsEffect
  <1>5. QED
    BY <1>0, <1>3, <1>4 DEF OnlyDeadBuried, Buried

-----------------------------------------------------------------------------
\* Process keeps what each position of a call holds.
LEMMA WorkProcess ==
    ASSUME TypeOK, ReadInOrder, NEW k \in Keys, WorkSound(k), SlotSound(k), Process(k),
           ProcessEffect(k)
    PROVE  WorkSound(k)' /\ SlotSound(k)'
  <1>0. /\ cache[k] \in CacheEntry /\ cache[k].version \in Nat
        /\ work[k].job \in Job /\ work[k].obj \in Object /\ work[k].job.uid \in Nat
        /\ work[k].job.kind \in {"upsert", "delete", "closeOut"}
    BY LocalsType DEF Job
  <1>n. cache[k].uid \in Nat /\ work[k].obj.uid \in Nat /\ live[k].uid \in Nat /\ changes \in Nat
    BY SlotTypes
  <1>i. /\ cache[k].uid <= changes /\ work[k].obj.uid <= changes
        /\ live[k].uid > 0 => work[k].obj.uid <= live[k].uid
        /\ work[k].obj.uid > 0 => cache[k].uid <= work[k].obj.uid
        /\ work[k].pc # "idle" /\ work[k].obj.uid = 0 /\ live[k].uid > 0
              => cache[k].uid <= live[k].uid - 1
    BY DEF ReadInOrder, SlotsBelow
  <1>u. \A u : Buried(k, u)' <=> Buried(k, u)
    BY DEF ProcessEffect, FrameEffect, Buried
  <1>w. work[k].pc = "idle" => work[k].obj.uid = 0 /\ work[k].job.type # "Deleted"
    BY DEF WorkSound
  <1>s. /\ Present(cache[k]) => cache[k].uid > 0
        /\ cache[k].pending => Buried(k, cache[k].uid)
        /\ cache[k].pending /\ work[k].obj.uid > 0 => cache[k].uid < work[k].obj.uid
    BY DEF SlotSound
  <1>f. ASSUME Finish(k),
               Present(cache'[k]) => cache'[k].uid > 0,
               cache'[k].pending => Buried(k, cache'[k].uid)
        PROVE  WorkSound(k)' /\ SlotSound(k)'
    <2>1. /\ work'[k].pc = "idle" /\ work'[k].obj.uid = 0 /\ work'[k].job.key = k
          /\ work'[k].job.type = "Added"
      BY <1>f, FinishFields, NoJobFields
    <2>2. WorkSound(k)'
      BY <2>1 DEF WorkSound
    <2>3. SlotSound(k)'
      BY <1>f, <1>u, <2>1, SMTT(60) DEF SlotSound
    <2>4. QED
      BY <2>2, <2>3
  \* processUpsert goes on to Reserve, holding a sound job.
  <1>r. ASSUME NEW job, At(k, "reserve", work[k].obj, job), cache' = cache, work[k].obj.uid > 0,
               job.key = k, job.kind = "upsert", JobSound(job)
        PROVE  WorkSound(k)' /\ SlotSound(k)'
    <2>1. work'[k].pc = "reserve" /\ work'[k].obj = work[k].obj /\ work'[k].job = job
      BY <1>r, AtFields, SMTT(60)
    <2>2. job.type # "Deleted"
      BY <1>r DEF JobSound
    <2>3. QED
      BY <1>r, <1>u, <1>s, <2>1, <2>2 DEF WorkSound, SlotSound
  <1>d. ASSUME work[k].obj.uid > 0
        PROVE  JobSound(AddedJob(k, work[k].obj))
    BY <1>d, AddedJobFields, AbsentType, SMTT(60) DEF JobSound
  <1>1. CASE DropStopped(k)
    BY <1>1, <1>u DEF DropStopped, WorkSound, SlotSound
  <1>2. CASE ForgetEphemeral(k)
    <2>1. cache'[k] = cache[k] \/ cache'[k] = Absent
      <3>1. Present(ReserveDelete(cache[k]))
        BY <1>0, DeleteClaimFields, SMTT(60) DEF Present
      <3>2. DeleteIfCurrent(ReserveDelete(cache[k]), ReserveDelete(cache[k]).version) = Absent
        BY <3>1 DEF DeleteIfCurrent
      <3>3. QED
        BY <1>2, <3>2 DEF ForgetEphemeral, TypeOK
    <2>2. work' = work
      BY <1>2 DEF ForgetEphemeral
    <2>3. work[k].pc = "idle"
      BY <1>2 DEF ForgetEphemeral
    <2>4. QED
      BY <2>1, <2>2, <2>3, <1>u, AbsentType DEF WorkSound, SlotSound
  <1>3. CASE BeginProcess(k)
    <2>1. work'[k].pc = "begin" /\ work'[k].job = NoJob(k) /\ work'[k].obj = Indexed(k) /\ cache' = cache
      BY <1>3, AtFields, SMTT(60) DEF BeginProcess
    <2>2. cache[k].pending /\ Indexed(k).uid > 0 => cache[k].uid < Indexed(k).uid
      BY <1>s, SMTT(60) DEF Buried, Indexed, NoObject
    <2>3. QED
      BY <1>u, <1>s, <2>1, <2>2, NoJobFields DEF WorkSound, SlotSound
  <1>4. CASE SinkUnavailable(k)
    BY <1>4, <1>f, <1>s DEF SinkUnavailable, FinishAndRetry
  <1>5. CASE RetryPendingCloseOuts(k)
    <2>1. work'[k].pc = "act" /\ work'[k].job = work[k].job /\ work'[k].obj = work[k].obj /\ cache' = cache
      BY <1>5, AtFields, SMTT(60) DEF RetryPendingCloseOuts
    <2>2. work[k].pc = "begin"
      BY <1>5 DEF RetryPendingCloseOuts
    <2>3. QED
      BY <1>u, <2>1, <2>2 DEF WorkSound, SlotSound
  <1>6. CASE DeleteRefused(k)
    BY <1>6, <1>f, <1>s DEF DeleteRefused
  <1>7. CASE ClaimDelete(k)
    <2> DEFINE job == DeletedJob("delete", k, cache[k].uid, ReserveDelete(cache[k]).version)
    <2>1. /\ job.key = k /\ job.kind = "delete" /\ job.type = "Deleted" /\ job.uid = cache[k].uid
          /\ job.version = ReserveDelete(cache[k]).version
      BY DeletedJobFields, SMTT(60)
    <2>2. At(k, "enqueue", work[k].obj, job) /\ work[k].obj.uid = 0 /\ work[k].pc = "act"
      BY <1>7 DEF ClaimDelete
    <2>3. cache'[k] = ReserveDelete(cache[k]) /\ Present(cache[k])
      BY <1>7 DEF ClaimDelete, TypeOK, DeleteClaimOutcome
    <2> HIDE DEF job
    <2>4. /\ work'[k].pc = "enqueue" /\ work'[k].obj = work[k].obj /\ work'[k].job = job
      BY <2>2, AtFields, SMTT(60)
    <2>5. cache'[k].uid = cache[k].uid /\ cache'[k].version = cache[k].version + 1 /\ cache[k].uid > 0
      BY <1>0, <1>s, <2>3, DeleteClaimFields
    <2>6. Buried(k, cache[k].uid)
      BY <1>n, <1>i, <2>2, <2>5, SMTT(60) DEF Buried
    <2>7. JobSound(job) /\ job.version > 0 /\ job.version = cache'[k].version
      BY <1>0, <2>1, <2>3, <2>5, SMTT(60) DEF JobSound
    <2>8. WorkSound(k)'
      BY <2>1, <2>4, <2>7 DEF WorkSound
    <2>9. Buried(k, cache[k].uid)' /\ work'[k].job.uid = cache[k].uid /\ cache'[k].uid > 0
      BY <1>u, <2>1, <2>4, <2>5, <2>6
    <2>10. work'[k].obj.uid = 0
      BY <2>2, <2>4
    <2>11. SlotSound(k)'
      BY <2>5, <2>9, <2>10, SMTT(60) DEF SlotSound
    <2>12. QED
      BY <2>8, <2>11
  <1>8. CASE UpsertPostponed(k)
    BY <1>8, <1>f, <1>s DEF UpsertPostponed, FinishAndRetry
  <1>9. CASE LoadMiss(k)
    <2> DEFINE type == IF k \notin EphemeralKeys /\ ~warm THEN "Snapshot" ELSE "Added"
    <2> DEFINE job == UpsertJob(k, type, work[k].obj, 0, TRUE, 0, Absent)
    <2>a. At(k, "reserve", work[k].obj, job)
      BY <1>9 DEF LoadMiss
    <2>b. work[k].obj.uid # 0 /\ cache' = cache
      BY <1>9 DEF LoadMiss, Loading
    <2>0. work[k].obj.uid > 0
      BY <1>n, <2>b, SMTT(60)
    <2>1. /\ job.key = k /\ job.kind = "upsert" /\ job.type # "Deleted"
          /\ job.entry.uid = work[k].obj.uid /\ ~job.entry.pending /\ job.revert = Absent
      BY DEF UpsertJob
    <2> HIDE DEF job, type
    <2>2. JobSound(job)
      BY <2>0, <2>1, AbsentType DEF JobSound
    <2>3. QED
      BY <1>r, <2>0, <2>a, <2>b, <2>1, <2>2
  <1>10. CASE LoadDuplicate(k)
    BY <1>10, <1>f, <1>s DEF LoadDuplicate
  <1>11. CASE LoadChanged(k)
    <2>0. /\ work[k].obj.uid > 0 /\ cache' = cache
          /\ Present(cache[k]) /\ cache[k].uid = work[k].obj.uid
      BY <1>11, <1>n, SMTT(60) DEF LoadChanged, Loading
    <2>1. PICK diff \in Diffs :
            At(k, "reserve", work[k].obj, ChangedJob(k, cache[k], work[k].obj, diff))
      BY <1>11 DEF LoadChanged
    <2> DEFINE job == ChangedJob(k, cache[k], work[k].obj, diff)
    <2>2. /\ job.key = k /\ job.kind = "upsert" /\ job.type # "Deleted"
          /\ job.entry.uid = work[k].obj.uid /\ ~job.entry.pending /\ job.revert = cache[k]
      BY <1>0, ChangedJobFields, SMTT(60)
    <2>3. At(k, "reserve", work[k].obj, job)
      BY <2>1
    <2> HIDE DEF job
    <2>4. ~cache[k].pending
      BY <1>n, <1>s, <2>0, SMTT(60)
    <2>5. JobSound(job)
      BY <2>0, <2>2, <2>4, <1>s DEF JobSound
    <2>6. QED
      BY <1>r, <2>0, <2>2, <2>3, <2>5
  <1>12. CASE LoadReincarnated(k)
    <2>0. /\ work[k].obj.uid > 0 /\ cache' = cache
          /\ Present(cache[k]) /\ cache[k].uid # work[k].obj.uid
      BY <1>12, <1>n, SMTT(60) DEF LoadReincarnated, Loading
    <2> DEFINE old == [NoJob(k) EXCEPT !.uid = cache[k].uid]
    <2>1. old.key = k /\ old.type = "Added" /\ old.uid = cache[k].uid
      <3>1. NoJob(k) \in Job
        BY SimpleJobTypes, NoObjectType
      <3>2. old.key = NoJob(k).key /\ old.type = NoJob(k).type /\ old.uid = cache[k].uid
        BY <3>1 DEF Job
      <3>3. QED
        BY <3>2, NoJobFields
    <2>2. \/ At(k, "claimOld", work[k].obj, old)
          \/ At(k, "reserve", work[k].obj, AddedJob(k, work[k].obj))
      BY <1>12 DEF LoadReincarnated
    <2> HIDE DEF old
    <2>3. CASE At(k, "claimOld", work[k].obj, old)
      <3>1. work'[k].pc = "claimOld" /\ work'[k].obj = work[k].obj /\ work'[k].job = old
        BY <2>3, AtFields, SMTT(60)
      <3>2. 0 < old.uid /\ old.uid < work[k].obj.uid
        BY <1>n, <1>i, <1>s, <2>0, <2>1, SMTT(60)
      <3>3. QED
        BY <1>u, <1>s, <2>0, <2>1, <3>1, <3>2 DEF WorkSound, SlotSound
    <2>4. CASE At(k, "reserve", work[k].obj, AddedJob(k, work[k].obj))
      BY <1>d, <1>r, <2>0, <2>4, AddedJobFields, SMTT(60)
    <2>5. QED
      BY <2>2, <2>3, <2>4
  <1>13. CASE ClaimOldIncarnation(k)
    <2> DEFINE job == DeletedJob("closeOut", k, work[k].job.uid, 0)
    <2>1. job.key = k /\ job.kind = "closeOut" /\ job.type = "Deleted" /\ job.uid = work[k].job.uid
      BY DeletedJobFields, SMTT(60)
    <2>2. At(k, "closeOut", work[k].obj, job) /\ work[k].pc = "claimOld"
      BY <1>13 DEF ClaimOldIncarnation
    <2>3. cache'[k] = ReserveDelete(cache[k])
      BY <1>13 DEF ClaimOldIncarnation, TypeOK
    <2> HIDE DEF job
    <2>4. 0 < work[k].job.uid /\ work[k].job.uid < work[k].obj.uid
      BY <2>2 DEF WorkSound
    <2>5. cache[k].uid = work[k].job.uid
      BY <1>0, <1>13, <2>4, SMTT(60) DEF ClaimOldIncarnation, DeleteClaimOutcome
    <2>6. /\ work'[k].pc = "closeOut" /\ work'[k].obj = work[k].obj /\ work'[k].job = job
          /\ cache'[k].uid = cache[k].uid
      BY <1>0, <2>2, <2>3, AtFields, DeleteClaimFields, SMTT(60)
    <2>7. Buried(k, cache[k].uid) /\ JobSound(job)
      BY <1>n, <1>i, <2>1, <2>4, <2>5, SMTT(60) DEF Buried, JobSound
    <2>8. work'[k].obj.uid > 0 /\ cache'[k].uid < work'[k].obj.uid /\ cache'[k].uid > 0
      BY <1>n, <2>4, <2>5, <2>6, SMTT(60)
    <2>9. WorkSound(k)'
      BY <2>1, <2>6, <2>7, <2>8 DEF WorkSound
    <2>10. Buried(k, cache[k].uid)' /\ work'[k].job.uid = cache[k].uid
      BY <1>u, <2>1, <2>5, <2>6, <2>7
    <2>11. SlotSound(k)'
      BY <2>6, <2>8, <2>10 DEF SlotSound
    <2>12. QED
      BY <2>9, <2>11
  <1>14. CASE OldIncarnationRefused(k)
    <2>1. work[k].obj.uid > 0 /\ cache' = cache /\ At(k, "reserve", work[k].obj, AddedJob(k, work[k].obj))
      BY <1>0, <1>n, <1>14, SMTT(60) DEF OldIncarnationRefused, WorkSound
    <2>2. QED
      BY <1>d, <1>r, <2>1, AddedJobFields, SMTT(60)
  <1>15. CASE EnqueueCloseOut(k)
    <2>1. work[k].obj.uid > 0 /\ cache' = cache /\ At(k, "reserve", work[k].obj, AddedJob(k, work[k].obj))
      BY <1>15 DEF EnqueueCloseOut, WorkSound
    <2>2. QED
      BY <1>d, <1>r, <2>1, AddedJobFields, SMTT(60)
  <1>16. CASE ReserveVersion(k)
    <2> DEFINE entry == [work[k].job.entry EXCEPT !.stamp = clock + 1]
    <2> DEFINE version == ReservedVersion(cache[k])
    <2> DEFINE job == [work[k].job EXCEPT !.ts = clock + 1, !.version = version, !.entry = entry]
    <2>0. work[k].job.kind = "upsert" /\ work[k].obj.uid > 0 /\ JobSound(work[k].job) /\ work[k].job.key = k
      BY <1>16 DEF ReserveVersion, WorkSound
    <2>1. /\ entry \in CacheEntry /\ entry.uid = work[k].job.entry.uid
          /\ entry.pending = work[k].job.entry.pending
      <3>1. work[k].job.entry \in CacheEntry
        BY <1>0 DEF Job
      <3>2. QED
        BY <3>1, SMTT(60) DEF TypeOK, CacheEntry
    <2>2. /\ job.key = k /\ job.entry = entry /\ job.revert = work[k].job.revert /\ job.version = version
          /\ job.kind = "upsert" /\ job.type = work[k].job.type
      <3> HIDE DEF entry, version
      <3>1. QED
        BY <1>0, <2>0 DEF Job
    <2>3. At(k, "enqueue", work[k].obj, job) /\ cache' = [cache EXCEPT ![k] = Reserve(@, entry)]
      BY <1>16 DEF ReserveVersion
    <2>v. version > 0
      BY <1>0, SMTT(60) DEF ReservedVersion
    <2> HIDE DEF job, entry, version
    <2>4. cache'[k] = Reserve(cache[k], entry)
      BY <2>3 DEF TypeOK
    <2>5. JobSound(job) /\ job.type # "Deleted"
      BY <2>0, <2>1, <2>2 DEF JobSound
    <2>6. work'[k].pc = "enqueue" /\ work'[k].obj = work[k].obj /\ work'[k].job = job
      BY <2>3, AtFields, SMTT(60)
    <2>7. cache'[k].uid > 0 /\ ~cache'[k].pending
      BY <1>0, <2>0, <2>1, <2>4, ReserveFields, SMTT(60) DEF JobSound
    <2>8. QED
      BY <2>0, <2>2, <2>v, <2>5, <2>6, <2>7 DEF WorkSound, SlotSound
  <1>17. CASE EnqueueAccepted(k)
    BY <1>17, <1>f, <1>s DEF EnqueueAccepted
  <1>18. CASE EnqueueRejected(k)
    <2>1. cache'[k] = Reverted(cache[k], work[k].job)
      BY <1>18 DEF EnqueueRejected, TypeOK
    <2>2. JobSound(work[k].job) /\ work[k].job.version > 0
      BY <1>18 DEF EnqueueRejected, WorkSound
    <2>3. /\ Present(cache'[k]) => cache'[k].uid > 0
          /\ cache'[k].pending => cache[k].pending /\ cache'[k] = cache[k]
      <3> DEFINE X == Reverted(cache[k], work[k].job)
      <3>1. X \in {Confirmed(cache[k], work[k].job), Reverted(cache[k], work[k].job)}
        OBVIOUS
      <3> HIDE DEF X
      <3>2. (Present(X) => X.uid > 0) /\ (X.pending => cache[k].pending /\ X = cache[k])
        <4>1. /\ cache[k] \in CacheEntry /\ work[k].job \in Job /\ JobSound(work[k].job)
              /\ work[k].job.kind # "closeOut" => work[k].job.version > 0
              /\ Present(cache[k]) => cache[k].uid > 0
          BY <1>0, <1>s, <2>2
        <4>2. QED
          BY <3>1, <4>1, SettledSlotFields, SMTT(60)
      <3>3. QED
        BY <2>1, <3>2 DEF X
    <2>4. QED
      BY <1>18, <1>f, <1>s, <2>3 DEF EnqueueRejected, FinishAndRetry
  <1>19. QED
    BY <1>1, <1>2, <1>3, <1>4, <1>5, <1>6, <1>7, <1>8, <1>9, <1>10, <1>11, <1>12, <1>13, <1>14, <1>15,
       <1>16, <1>17, <1>18 DEF Process

-----------------------------------------------------------------------------

\* Process never leaves a delete claim without an owner.
LEMMA ClaimProcess ==
    ASSUME TypeOK, NEW k \in Keys, WorkSound(k), SlotSound(k), ClaimHasOwner, Process(k),
           ProcessEffect(k)
    PROVE  ClaimHasOwner'
  <1>q. ASSUME NEW q \in Keys \ {k} PROVE ClaimOwned(q)'
    BY SMTT(60) DEF ClaimHasOwner, ClaimOwned, DeleteJobCurrent, ProcessEffect, FrameEffect, JobsEffect
  <1> SUFFICES ClaimOwned(k)'
    BY <1>q DEF ClaimHasOwner
  <1>0. cache[k] \in CacheEntry /\ work[k].job \in Job /\ jobs \subseteq jobs'
    BY LocalsType DEF ProcessEffect, JobsEffect
  \* Nothing happens to a claim some accepted job owns.
  <1>k. ASSUME cache'[k] = cache[k], work[k].pc \notin {"closeOut", "reserve", "enqueue"}
        PROVE  ClaimOwned(k)'
    BY <1>0, <1>k DEF ClaimHasOwner, ClaimOwned, DeleteJobCurrent
  <1>r. ASSUME work'[k].pc \in {"closeOut", "reserve"}
        PROVE  ClaimOwned(k)'
    BY <1>r DEF ClaimOwned
  <1>1. CASE DropStopped(k)
    BY <1>1, <1>k DEF DropStopped
  <1>2. CASE ForgetEphemeral(k)
    <2>1. Present(ReserveDelete(cache[k]))
      BY <1>0, DeleteClaimFields, SMTT(60) DEF Present, CacheEntry
    <2>2. DeleteIfCurrent(ReserveDelete(cache[k]), ReserveDelete(cache[k]).version) = Absent
      BY <2>1 DEF DeleteIfCurrent
    <2>3. cache'[k] = cache[k] \/ cache'[k] = Absent
      BY <1>2, <2>2 DEF ForgetEphemeral, TypeOK
    <2>4. QED
      BY <1>2, <1>k, <2>3, AbsentType DEF ForgetEphemeral, ClaimOwned
  <1>3. CASE BeginProcess(k)
    BY <1>3, <1>k DEF BeginProcess
  <1>4. CASE SinkUnavailable(k)
    BY <1>4, <1>k DEF SinkUnavailable
  <1>5. CASE RetryPendingCloseOuts(k)
    BY <1>5, <1>k DEF RetryPendingCloseOuts
  <1>6. CASE DeleteRefused(k)
    BY <1>6, <1>k DEF DeleteRefused
  <1>7. CASE ClaimDelete(k)
    <2> DEFINE job == DeletedJob("delete", k, cache[k].uid, ReserveDelete(cache[k]).version)
    <2>1. job.key = k /\ job.kind = "delete" /\ job.version = ReserveDelete(cache[k]).version
      BY DeletedJobFields, SMTT(60)
    <2>2. At(k, "enqueue", work[k].obj, job) /\ cache'[k] = ReserveDelete(cache[k])
      BY <1>7 DEF ClaimDelete, TypeOK
    <2> HIDE DEF job
    <2>3. work'[k].pc = "enqueue" /\ work'[k].job = job
      BY <2>2, AtFields, SMTT(60)
    <2>4. QED
      BY <2>1, <2>2, <2>3 DEF ClaimOwned, DeleteJobCurrent
  <1>8. CASE UpsertPostponed(k)
    BY <1>8, <1>k DEF UpsertPostponed
  <1>9. CASE LoadMiss(k)
    BY <1>9, <1>k DEF LoadMiss, Loading
  <1>10. CASE LoadDuplicate(k)
    BY <1>10, <1>k DEF LoadDuplicate, Loading
  <1>11. CASE LoadChanged(k)
    BY <1>11, <1>k DEF LoadChanged, Loading
  <1>12. CASE LoadReincarnated(k)
    BY <1>12, <1>k DEF LoadReincarnated, Loading
  <1>13. CASE ClaimOldIncarnation(k)
    BY <1>13, <1>r, AtFields, SMTT(60) DEF ClaimOldIncarnation
  <1>14. CASE OldIncarnationRefused(k)
    BY <1>14, <1>r, AtFields DEF OldIncarnationRefused
  <1>15. CASE EnqueueCloseOut(k)
    BY <1>15, <1>r, AtFields DEF EnqueueCloseOut
  <1>16. CASE ReserveVersion(k)
    <2> DEFINE entry == [work[k].job.entry EXCEPT !.stamp = clock + 1]
    <2>1. entry \in CacheEntry /\ ~entry.pending
      <3>1. work[k].job.entry \in CacheEntry
        BY <1>0 DEF Job
      <3>2. ~work[k].job.entry.pending
        BY <1>16 DEF ReserveVersion, WorkSound, JobSound
      <3>3. entry \in CacheEntry /\ entry.pending = work[k].job.entry.pending
        BY <3>1, SMTT(60) DEF TypeOK, CacheEntry
      <3>4. QED
        BY <3>2, <3>3
    <2>2. cache'[k] = Reserve(cache[k], entry)
      BY <1>16 DEF ReserveVersion, TypeOK
    <2> HIDE DEF entry
    <2>3. QED
      BY <1>0, <2>1, <2>2, ReserveFields DEF ClaimOwned
  <1>17. CASE EnqueueAccepted(k)
    <2>1. cache' = cache /\ work[k].pc = "enqueue" /\ work[k].job \in jobs'
      BY <1>17 DEF EnqueueAccepted
    <2>2. QED
      BY <1>0, <2>1 DEF ClaimHasOwner, ClaimOwned, DeleteJobCurrent
  <1>18. CASE EnqueueRejected(k)
    <2>1. cache'[k] = Reverted(cache[k], work[k].job) /\ work[k].pc = "enqueue"
      BY <1>18 DEF EnqueueRejected, TypeOK
    <2>2. JobSound(work[k].job) /\ work[k].job.version > 0 /\ (Present(cache[k]) => cache[k].uid > 0)
      BY <2>1 DEF WorkSound, SlotSound
    <2> DEFINE cur == cache[k]
               X   == cache'[k]
               j   == work[k].job
    <2>3. /\ cur \in CacheEntry /\ j \in Job /\ X \in {Confirmed(cur, j), Reverted(cur, j)}
          /\ JobSound(j) /\ j.version > 0 /\ (Present(cur) => cur.uid > 0)
      BY <1>0, <2>1, <2>2
    <2> HIDE DEF cur, X, j
    <2>4. /\ X.pending => cur.pending /\ X = cur
          /\ X.pending /\ j.kind = "delete" => j.version # cur.version
      BY <2>3, SettledSlotFields, SMTT(60)
    <2>5. /\ cache'[k].pending => cache[k].pending /\ cache'[k] = cache[k]
          /\ cache'[k].pending /\ work[k].job.kind = "delete" => work[k].job.version # cache[k].version
      BY <2>4 DEF cur, X, j
    <2>6. QED
      BY <1>0, <2>1, <2>5 DEF ClaimHasOwner, ClaimOwned, DeleteJobCurrent
  <1>19. QED
    BY <1>1, <1>2, <1>3, <1>4, <1>5, <1>6, <1>7, <1>8, <1>9, <1>10, <1>11, <1>12, <1>13, <1>14, <1>15,
       <1>16, <1>17, <1>18, SMTT(60) DEF Process

\* Process never gives up an object that is gone and still cached.
LEMMA OwedProcess ==
    ASSUME TypeOK, StaleIsDirty, NEW k \in Keys, WorkSound(k), ClaimHasOwner, DeletionOwed,
           Process(k), ProcessEffect(k)
    PROVE  DeletionOwed'
  <1>0. cache[k] \in CacheEntry /\ jobs \subseteq jobs' /\ live' = live /\ scope' = scope /\ listed' = listed
    BY LocalsType DEF ProcessEffect, FrameEffect, JobsEffect
  <1>q. ASSUME NEW q \in Keys \ {k}, Observed(q)', live'[q].uid = 0, Present(cache'[q])
        PROVE  DeathPursued(q)'
    BY <1>q, <1>0, SMTT(60) DEF DeletionOwed, DeathPursued, DeleteJobCurrent, ProcessEffect, FrameEffect,
       JobsEffect, Observed
  <1> SUFFICES ASSUME Observed(k), live[k].uid = 0, Present(cache'[k])
               PROVE  DeathPursued(k)'
    BY <1>0, <1>q DEF DeletionOwed, Observed
  <1>a. ASSUME NEW pc, NEW obj, NEW job, At(k, pc, obj, job), pc # "idle"
        PROVE  DeathPursued(k)'
    BY <1>a, AtFields DEF DeathPursued
  <1>d. ASSUME k \in dirty' PROVE DeathPursued(k)'
    BY <1>d DEF DeathPursued
  <1>s. ASSUME work[k].pc # "idle", work[k].obj.uid # 0, dirty' = dirty
        PROVE  DeathPursued(k)'
    BY <1>s, <1>d DEF StaleIsDirty
  <1>c. ASSUME cache' = cache, cache[k].pending, work[k].pc \notin {"closeOut", "reserve", "enqueue"}
        PROVE  DeathPursued(k)'
    BY <1>0, <1>c DEF ClaimHasOwner, ClaimOwned, DeathPursued, DeleteJobCurrent
  <1>1. CASE DropStopped(k)
    BY <1>1 DEF DropStopped, Observed
  <1>2. CASE ForgetEphemeral(k)
    <2>1. Present(ReserveDelete(cache[k]))
      BY <1>0, DeleteClaimFields, SMTT(60) DEF Present, CacheEntry
    <2>2. DeleteIfCurrent(ReserveDelete(cache[k]), ReserveDelete(cache[k]).version) = Absent
      BY <2>1 DEF DeleteIfCurrent
    <2>3. DeleteClaimOutcome(cache[k], 0) # "claimed"
      BY <1>2, <2>2, AbsentType DEF ForgetEphemeral, TypeOK
    <2>4. cache' = cache
      BY <1>2, <2>3 DEF ForgetEphemeral, TypeOK
    <2>5. cache[k].pending
      BY <2>3, <2>4 DEF DeleteClaimOutcome
    <2>6. QED
      BY <1>2, <1>c, <2>4, <2>5 DEF ForgetEphemeral
  <1>3. CASE BeginProcess(k)
    BY <1>3, <1>a DEF BeginProcess
  <1>4. CASE SinkUnavailable(k)
    BY <1>4, <1>d DEF SinkUnavailable, FinishAndRetry
  <1>5. CASE RetryPendingCloseOuts(k)
    BY <1>5, <1>a DEF RetryPendingCloseOuts
  <1>6. CASE DeleteRefused(k)
    <2>1. cache' = cache /\ cache[k].pending
      BY <1>6 DEF DeleteRefused, DeleteClaimOutcome
    <2>2. QED
      BY <1>6, <1>c, <2>1 DEF DeleteRefused
  <1>7. CASE ClaimDelete(k)
    BY <1>7, <1>a DEF ClaimDelete
  <1>8. CASE UpsertPostponed(k)
    BY <1>8, <1>d DEF UpsertPostponed, FinishAndRetry
  <1>9. CASE LoadMiss(k)
    BY <1>9, <1>s DEF LoadMiss, Loading
  <1>10. CASE LoadDuplicate(k)
    BY <1>10, <1>s DEF LoadDuplicate, Loading
  <1>11. CASE LoadChanged(k)
    BY <1>11, <1>s DEF LoadChanged, Loading
  <1>12. CASE LoadReincarnated(k)
    BY <1>12, <1>s DEF LoadReincarnated, Loading
  <1>13. CASE ClaimOldIncarnation(k)
    BY <1>13, <1>a DEF ClaimOldIncarnation
  <1>14. CASE OldIncarnationRefused(k)
    BY <1>14, <1>a DEF OldIncarnationRefused
  <1>15. CASE EnqueueCloseOut(k)
    BY <1>15, <1>a DEF EnqueueCloseOut
  <1>16. CASE ReserveVersion(k)
    BY <1>16, <1>a DEF ReserveVersion
  <1>17. CASE EnqueueAccepted(k)
    <2>1. /\ cache' = cache /\ work[k].pc = "enqueue" /\ work[k].job \in jobs' /\ dirty' = dirty
          /\ work[k].job.kind \in {"upsert", "delete"} /\ work[k].job.key = k
      BY <1>17, LocalsType DEF EnqueueAccepted, WorkSound, Job
    <2>2. CASE work[k].job.kind = "delete"
      BY <2>1, <2>2 DEF DeathPursued, DeleteJobCurrent, WorkSound
    <2>3. CASE work[k].job.kind = "upsert"
      <3>1. work[k].obj.uid # 0
        BY <2>1, <2>3, SMTT(60) DEF WorkSound
      <3>2. QED
        BY <1>s, <2>1, <3>1
    <2>4. QED
      BY <2>1, <2>2, <2>3
  <1>18. CASE EnqueueRejected(k)
    BY <1>18, <1>d DEF EnqueueRejected, FinishAndRetry
  <1>19. QED
    BY <1>1, <1>2, <1>3, <1>4, <1>5, <1>6, <1>7, <1>8, <1>9, <1>10, <1>11, <1>12, <1>13, <1>14, <1>15,
       <1>16, <1>17, <1>18 DEF Process

\* A step of Process preserves the inductive invariant.
LEMMA ProcessStep ==
    ASSUME IndInv, NEW k \in Keys, Process(k)
    PROVE  IndInv'
  <1>0. /\ TypeOK /\ JobsSound /\ ReadInOrder /\ OnlyDeadBuried /\ StaleIsDirty
        /\ StoppedForGood /\ ClaimHasOwner /\ DeletionOwed
        /\ WorkSound(k) /\ SlotSound(k)
    BY DEF IndInv
  <1>1. ProcessEffect(k)
    BY <1>0, ProcessEffects
  <1>2. /\ TypeOK' /\ JobsSound' /\ ReadInOrder' /\ OnlyDeadBuried' /\ StaleIsDirty'
        /\ ClaimHasOwner' /\ DeletionOwed'
    <2>1. TypeOK' /\ JobsSound' /\ ReadInOrder'
      BY <1>0, <1>1, ProcessType, JobsProcess, ReadInOrderProcess
    <2>2. OnlyDeadBuried' /\ StaleIsDirty'
      BY <1>0, <1>1, DeadProcess, StaleProcess
    <2>3. ClaimHasOwner' /\ DeletionOwed'
      BY <1>0, <1>1, ClaimProcess, OwedProcess
    <2>4. QED
      BY <2>1, <2>2, <2>3
  <1>3. StoppedForGood'
    BY <1>0, <1>1 DEF StoppedForGood, ProcessEffect, FrameEffect
  <1>4. ASSUME NEW q \in Keys PROVE WorkSound(q)' /\ SlotSound(q)'
    <2>1. CASE q = k
      BY <1>0, <1>1, <2>1, WorkProcess
    <2>2. CASE q # k
      <3>1. WorkSound(q) /\ SlotSound(q)
        BY DEF IndInv
      <3>2. /\ cache'[q] = cache[q] /\ work'[q] = work[q] /\ live' = live /\ changes' = changes
        BY <1>1, <2>2 DEF ProcessEffect, FrameEffect
      <3>3. QED
        BY <3>1, <3>2, SoundKept
    <2>3. QED
      BY <2>1, <2>2
  <1>5. QED
    BY <1>2, <1>3, <1>4 DEF IndInv

-----------------------------------------------------------------------------
\* The cluster changes an object.
LEMMA ClusterStep ==
    ASSUME IndInv, NEW k \in Keys, Cluster(k)
    PROVE  IndInv'
  <1>0. /\ TypeOK /\ JobsSound /\ ReadInOrder /\ OnlyDeadBuried /\ StaleIsDirty
        /\ StoppedForGood /\ ClaimHasOwner /\ DeletionOwed
        /\ \A q \in Keys : WorkSound(q) /\ SlotSound(q)
    BY DEF IndInv
  <1>n. \A q \in Keys : live[q].uid \in Nat /\ live[q].uid <= changes /\ changes \in Nat
    BY <1>0, SlotTypes DEF ReadInOrder
  <1>1. /\ changes' = changes + 1
        /\ \A q \in Keys \ {k} : live'[q] = live[q]
        /\ UNCHANGED <<listed, scope, passes, work, cache, closeOuts, jobs, rows>>
        /\ dirty \subseteq dirty'
        /\ Observed(k) => k \in dirty'
    BY <1>0 DEF Cluster, CreateObject, UpdateObject, RemoveObject, ChangeObject, Notify, TypeOK,
                scopeVars, sinkVars
  <1>2. live'[k].uid \in {0, live[k].uid, changes + 1}
    <2>1. CASE CreateObject(k)
      BY <1>0, <2>1, SMTT(60) DEF CreateObject, ChangeObject, TypeOK
    <2>2. CASE UpdateObject(k)
      <3>1. PICK h \in Hash : live' = [live EXCEPT ![k] = [live[k] EXCEPT !.hash = h]]
        BY <2>2 DEF UpdateObject, ChangeObject
      <3>2. live[k] \in Object /\ live'[k] = [live[k] EXCEPT !.hash = h]
        BY <1>0, <3>1 DEF TypeOK
      <3>3. QED
        BY <3>2 DEF Object
    <2>3. CASE RemoveObject(k)
      BY <1>0, <2>3 DEF RemoveObject, ChangeObject, NoObject, TypeOK
    <2>4. QED
      BY <2>1, <2>2, <2>3 DEF Cluster
  <1>3. TypeOK'
    BY <1>0, ClusterType
  <1>4. JobsSound' /\ StoppedForGood' /\ ClaimHasOwner' /\ \A q \in Keys : WorkSound(q)'
    <2>1. JobsSound'
      BY <1>0, <1>1 DEF JobsSound
    <2>2. StoppedForGood'
      BY <1>0, <1>1 DEF StoppedForGood
    <2>3. ClaimHasOwner'
      BY <1>0, <1>1, SMTT(60) DEF ClaimHasOwner, ClaimOwned, DeleteJobCurrent
    <2>4. \A q \in Keys : WorkSound(q)'
      BY <1>0, <1>1 DEF WorkSound
    <2>5. QED
      BY <2>1, <2>2, <2>3, <2>4
  <1>5. ASSUME NEW q \in Keys, NEW u \in Nat, Buried(q, u) PROVE Buried(q, u)'
    <2>1. CASE q = k
      BY <1>1, <1>2, <1>5, <1>n, <2>1, SMTT(60) DEF Buried
    <2>2. CASE q # k
      BY <1>1, <1>5, <1>n, <2>2, SMTT(60) DEF Buried
    <2>3. QED
      BY <2>1, <2>2
  <1>6. OnlyDeadBuried'
    <2>1. \A j \in jobs : j.key \in Keys /\ j.uid \in Nat
      BY <1>0 DEF TypeOK, Job
    <2>2. \A r \in rows : r.key \in Keys /\ r.uid \in Nat
      BY <1>0 DEF TypeOK, Row
    <2>3. \A q \in Keys : \A j \in closeOuts[q] : j.uid \in Nat
      BY <1>0, SMTT(60) DEF TypeOK, Job
    <2>4. \A j \in jobs : j.type = "Deleted" => Buried(j.key, j.uid)'
      BY <1>0, <1>5, <2>1 DEF OnlyDeadBuried
    <2>5. \A r \in rows : r.type = "Deleted" => Buried(r.key, r.uid)'
      BY <1>0, <1>5, <2>2 DEF OnlyDeadBuried
    <2>6. \A q \in Keys : \A j \in closeOuts[q] : Buried(q, j.uid)'
      BY <1>0, <1>5, <2>3 DEF OnlyDeadBuried
    <2>7. QED
      BY <1>1, <2>4, <2>5, <2>6 DEF OnlyDeadBuried, Buried
  <1>7. ASSUME NEW q \in Keys PROVE SlotSound(q)'
    <2>1. SlotSound(q) /\ work[q].job.uid \in Nat /\ cache[q].uid \in Nat
      BY <1>0, LocalsType
    <2>2. \A u \in Nat : Buried(q, u) =>
              0 < u /\ u <= changes' /\ (live'[q].uid > 0 => u < live'[q].uid)
      BY <1>5 DEF Buried
    <2>3. work[q].job.type = "Deleted" =>
              /\ 0 < work[q].job.uid /\ work[q].job.uid <= changes'
              /\ live'[q].uid > 0 => work[q].job.uid < live'[q].uid
      BY <2>1, <2>2 DEF SlotSound
    <2>4. cache[q].pending =>
              /\ 0 < cache[q].uid /\ cache[q].uid <= changes'
              /\ live'[q].uid > 0 => cache[q].uid < live'[q].uid
      BY <2>1, <2>2 DEF SlotSound
    <2>5. /\ Present(cache[q]) => cache[q].uid > 0
          /\ cache[q].pending /\ work[q].obj.uid > 0 => cache[q].uid < work[q].obj.uid
          /\ cache' = cache /\ work' = work
      BY <1>1, <2>1 DEF SlotSound
    <2>6. QED
      BY <2>3, <2>4, <2>5 DEF SlotSound, Buried
  <1>8. ReadInOrder'
    <2> SUFFICES ASSUME NEW q \in Keys
                 PROVE  (/\ live[q].uid <= changes
                         /\ SlotsBelow(q, changes)
                         /\ live[q].uid > 0 => SlotsBelow(q, live[q].uid)
                         /\ work[q].obj.uid > 0 => SlotsBelow(q, work[q].obj.uid)
                         /\ work[q].pc # "idle" /\ work[q].obj.uid = 0 /\ live[q].uid > 0
                                => SlotsBelow(q, live[q].uid - 1)
                         /\ scope = "active" /\ q \notin listed => SlotsBelow(q, 0))'
      BY DEF ReadInOrder
    <2>1. live[q].uid \in Nat /\ changes \in Nat /\ live[q].uid <= changes
      BY <1>n
    <2>2. /\ SlotsBelow(q, changes)
          /\ live[q].uid > 0 => SlotsBelow(q, live[q].uid)
          /\ work[q].obj.uid > 0 => SlotsBelow(q, work[q].obj.uid)
          /\ work[q].pc # "idle" /\ work[q].obj.uid = 0 /\ live[q].uid > 0
                 => SlotsBelow(q, live[q].uid - 1)
          /\ scope = "active" /\ q \notin listed => SlotsBelow(q, 0)
      BY <1>0 DEF ReadInOrder
    <2>3. SlotsBelow(q, changes + 1)
      BY <1>0, <2>1, <2>2, SlotsBelowWeaken, SMTT(60)
    <2>4. live'[q].uid \in {0, live[q].uid, changes + 1}
      BY <1>1, <1>2
    <2>5. changes + 1 - 1 = changes
      BY <2>1, SMTT(60)
    <2>6. /\ live'[q].uid <= changes'
          /\ SlotsBelow(q, changes')
          /\ live'[q].uid > 0 => SlotsBelow(q, live'[q].uid)
          /\ work[q].pc # "idle" /\ work[q].obj.uid = 0 /\ live'[q].uid > 0
                 => SlotsBelow(q, live'[q].uid - 1)
      BY <1>1, <2>1, <2>2, <2>3, <2>4, <2>5, SMTT(60)
    <2>7. SlotsBelow(q, changes)'
      BY <1>1, <2>6 DEF SlotsBelow
    <2>8. (live[q].uid > 0 => SlotsBelow(q, live[q].uid))'
      BY <1>1, <2>6 DEF SlotsBelow
    <2>9. (work[q].obj.uid > 0 => SlotsBelow(q, work[q].obj.uid))'
      BY <1>1, <2>2 DEF SlotsBelow
    <2>10. (/\ work[q].pc # "idle" /\ work[q].obj.uid = 0 /\ live[q].uid > 0
                => SlotsBelow(q, live[q].uid - 1))'
      BY <1>1, <2>6 DEF SlotsBelow
    <2>11. (scope = "active" /\ q \notin listed => SlotsBelow(q, 0))'
      BY <1>1, <2>2 DEF SlotsBelow
    <2>12. QED
      BY <2>6, <2>7, <2>8, <2>9, <2>10, <2>11
  <1>9. StaleIsDirty' /\ DeletionOwed'
    BY <1>0, <1>1, SMTT(60) DEF StaleIsDirty, DeletionOwed, DeathPursued, DeleteJobCurrent, Observed
  <1>10. QED
    BY <1>3, <1>4, <1>6, <1>7, <1>8, <1>9 DEF IndInv

\* The informer delivers a key of its initial list.
LEMMA ListStep ==
    ASSUME IndInv, NEW k \in Keys, ListObject(k)
    PROVE  IndInv'
  <1>0. /\ TypeOK /\ JobsSound /\ ReadInOrder /\ OnlyDeadBuried /\ StaleIsDirty
        /\ StoppedForGood /\ ClaimHasOwner /\ DeletionOwed
        /\ \A q \in Keys : WorkSound(q) /\ SlotSound(q)
    BY DEF IndInv
  <1>1. /\ UNCHANGED <<live, changes, scope, passes, work, cache, closeOuts, jobs, rows>>
        /\ listed' = listed \cup {k} /\ k \notin listed /\ scope = "active"
        /\ dirty \subseteq dirty'
        /\ live[k].uid # 0 => k \in dirty'
    BY DEF ListObject, scopeVars, sinkVars
  <1>2. TypeOK'
    BY <1>0 DEF TypeOK, ListObject, scopeVars, sinkVars
  <1>3. /\ JobsSound' /\ OnlyDeadBuried' /\ StoppedForGood' /\ ClaimHasOwner'
        /\ \A q \in Keys : WorkSound(q)' /\ SlotSound(q)'
    <2>1. JobsSound' /\ OnlyDeadBuried' /\ StoppedForGood' /\ ClaimHasOwner'
      BY <1>0, <1>1 DEF JobsSound, OnlyDeadBuried, Buried, StoppedForGood, ClaimHasOwner,
                        ClaimOwned, DeleteJobCurrent
    <2>2. \A q \in Keys : WorkSound(q)' /\ SlotSound(q)'
      BY <1>0, <1>1, SoundKept
    <2>3. QED
      BY <2>1, <2>2
  <1>4. ReadInOrder'
    <2>a. ASSUME NEW q \in Keys, NEW b \in Nat, SlotsBelow(q, b) PROVE SlotsStayBelow(q, b)
      BY <1>1, <2>a DEF SlotsBelow, SlotsStayBelow
    <2>b. QED
      BY <1>0, <1>1, <2>a, ReadInOrderKept
  <1>5. SlotsBelow(k, 0) /\ live[k] \in Object /\ work[k].obj \in Object /\ cache[k].uid \in Nat
        /\ work[k].obj.uid \in Nat
    BY <1>0, <1>1, LocalsType, SlotTypes DEF ReadInOrder
  <1>6. DeletionOwed'
    <2> SUFFICES ASSUME NEW q \in Keys, Observed(q)', live[q].uid = 0, Present(cache[q])
                 PROVE  DeathPursued(q)'
      BY <1>1 DEF DeletionOwed
    <2>1. q # k
      BY <1>0, <1>5, SMTT(60) DEF SlotsBelow, SlotSound
    <2>2. QED
      BY <1>0, <1>1, <2>1 DEF DeletionOwed, DeathPursued, DeleteJobCurrent, Observed
  <1>7. StaleIsDirty'
    <2> SUFFICES ASSUME NEW q \in Keys, work[q].pc # "idle", Observed(q)',
                        work[q].obj.uid # live[q].uid
                 PROVE  q \in dirty'
      BY <1>1 DEF StaleIsDirty
    <2>1. CASE q # k
      BY <1>0, <1>1, <2>1 DEF StaleIsDirty, Observed
    <2>2. CASE q = k
      BY <1>1, <1>5, <2>2, SMTT(60) DEF SlotsBelow
    <2>3. QED
      BY <2>1, <2>2
  <1>8. QED
    BY <1>2, <1>3, <1>4, <1>6, <1>7 DEF IndInv

\* The watch manager and the warm coordinator: nothing the pipeline holds makes
\* a deletion out of a scope that stops.
LEMMA ScopeStep ==
    ASSUME IndInv, MaxPasses <= 1 \/ passes' <= 1,
           DeregisterScope \/ EvictScope \/ RestartScope \/ MarkScopeWarm
    PROVE  IndInv'
  <1>0. /\ TypeOK /\ JobsSound /\ ReadInOrder /\ OnlyDeadBuried /\ StaleIsDirty
        /\ StoppedForGood /\ ClaimHasOwner /\ DeletionOwed
        /\ \A q \in Keys : WorkSound(q) /\ SlotSound(q)
    BY DEF IndInv
  <1>t. TypeOK'
    BY <1>0, ScopeType
  <1>p. passes \in Nat /\ MaxPasses \in Nat
    BY <1>0, ConstantsAssumption DEF TypeOK
  <1>u. ASSUME UNCHANGED <<live, listed, changes, dirty, work, cache, closeOuts, jobs, rows>>,
               scope' = "active" => scope = "active", StoppedForGood'
        PROVE  IndInv'
    <2>1. /\ JobsSound' /\ OnlyDeadBuried' /\ ClaimHasOwner'
          /\ \A q \in Keys : WorkSound(q)' /\ SlotSound(q)'
      <3>1. JobsSound' /\ OnlyDeadBuried'
        BY <1>0, <1>u DEF JobsSound, OnlyDeadBuried, Buried
      <3>2. ClaimHasOwner'
        BY <1>0, <1>u DEF ClaimHasOwner, ClaimOwned, DeleteJobCurrent
      <3>3. \A q \in Keys : WorkSound(q)' /\ SlotSound(q)'
        BY <1>0, <1>u, SoundKept
      <3>4. QED
        BY <3>1, <3>2, <3>3
    <2>2. ReadInOrder'
      <3>a. ASSUME NEW q \in Keys, NEW b \in Nat, SlotsBelow(q, b) PROVE SlotsStayBelow(q, b)
        BY <1>u, <3>a DEF SlotsBelow, SlotsStayBelow
      <3>b. QED
        BY <1>0, <1>u, <3>a, ReadInOrderKept
    <2>3. StaleIsDirty' /\ DeletionOwed'
      BY <1>0, <1>u, SMTT(60) DEF StaleIsDirty, DeletionOwed, DeathPursued, DeleteJobCurrent, Observed
    <2>4. QED
      BY <1>t, <1>u, <2>1, <2>2, <2>3 DEF IndInv
  <1>1. CASE DeregisterScope
    <2>1. StoppedForGood' /\ scope' # "active"
      BY <1>1, <1>p, SMTT(60) DEF DeregisterScope, StoppedForGood
    <2>2. QED
      BY <1>1, <1>u, <2>1 DEF DeregisterScope, clusterVars, sinkVars
  <1>2. CASE EvictScope
    <2>1. /\ UNCHANGED <<live, changes, dirty, work, closeOuts, jobs, rows, passes>>
          /\ cache' = [q \in Keys |-> Absent] /\ scope' = "stopped" /\ scope = "stopping"
      BY <1>2 DEF EvictScope, sinkVars
    <2>2. Absent.uid = 0 /\ ~Absent.pending /\ ~Present(Absent)
      BY AbsentType DEF Absent
    <2>3. /\ JobsSound' /\ OnlyDeadBuried' /\ ClaimHasOwner' /\ StoppedForGood'
          /\ StaleIsDirty' /\ DeletionOwed'
      <3>1. JobsSound' /\ OnlyDeadBuried'
        BY <1>0, <2>1 DEF JobsSound, OnlyDeadBuried, Buried
      <3>2. ClaimHasOwner' /\ StoppedForGood' /\ StaleIsDirty' /\ DeletionOwed'
        BY <1>0, <2>1, <2>2 DEF ClaimHasOwner, ClaimOwned, StoppedForGood, StaleIsDirty,
                                DeletionOwed, Observed
      <3>3. QED
        BY <3>1, <3>2
    <2>4. ASSUME NEW q \in Keys PROVE WorkSound(q)' /\ SlotSound(q)'
      <3>1. WorkSound(q)'
        BY <1>0, <2>1, <2>2 DEF WorkSound
      <3>2. SlotSound(q)'
        BY <1>0, <2>1, <2>2 DEF SlotSound, Buried
      <3>3. QED
        BY <3>1, <3>2
    <2>5. ASSUME NEW q \in Keys, NEW b \in Nat, SlotsBelow(q, b) PROVE SlotsStayBelow(q, b)
      <3>1. cache'[q].uid <= b
        BY <2>1, <2>2, <2>5, SMTT(60) DEF SlotsBelow
      <3>2. UNCHANGED <<work, jobs, closeOuts>>
        BY <2>1
      <3>3. QED
        BY <2>5, <3>1, <3>2 DEF SlotsBelow, SlotsStayBelow
    <2>6. ReadInOrder'
      BY <1>0, <2>1, <2>5, ReadInOrderKept
    <2>7. QED
      BY <1>t, <2>3, <2>4, <2>6 DEF IndInv
  <1>3. CASE RestartScope
    BY <1>0, <1>3, <1>p, SMTT(60) DEF RestartScope, StoppedForGood
  <1>4. CASE MarkScopeWarm
    BY <1>0, <1>4, <1>u DEF MarkScopeWarm, clusterVars, sinkVars, StoppedForGood
  <1>5. QED
    BY <1>1, <1>2, <1>3, <1>4

-----------------------------------------------------------------------------
\* The sink settles a job.
LEMMA SettleStep ==
    ASSUME IndInv, NEW j \in jobs, Settle(j)
    PROVE  IndInv'
  <1> DEFINE k == j.key
  <1>0. /\ TypeOK /\ JobsSound /\ ReadInOrder /\ OnlyDeadBuried /\ StaleIsDirty
        /\ StoppedForGood /\ ClaimHasOwner /\ DeletionOwed
        /\ \A q \in Keys : WorkSound(q) /\ SlotSound(q)
    BY DEF IndInv
  <1>t. j \in Job /\ k \in Keys /\ cache[k] \in CacheEntry
    BY <1>0 DEF TypeOK, Job
  <1>j. JobSound(j) /\ (j.kind # "closeOut" => j.version > 0) /\ (Present(cache[k]) => cache[k].uid > 0)
    BY <1>0, <1>t DEF JobsSound, SlotSound
  <1>1. /\ cache'[k] \in {Confirmed(cache[k], j), Reverted(cache[k], j)}
        /\ \A q \in Keys \ {k} : cache'[q] = cache[q]
        /\ UNCHANGED <<live, listed, changes, scope, passes, work>>
        /\ jobs' = jobs \ {j}
        /\ dirty \subseteq dirty'
        /\ rows' \subseteq rows \cup {RowOf(j)}
        /\ \A q \in Keys \ {k} : closeOuts'[q] = closeOuts[q]
        /\ \A d \in closeOuts'[k] : d \in closeOuts[k] \/ (d = j /\ j.kind = "closeOut")
    BY <1>0, <1>t, SMTT(60) DEF Settle, WriteSucceeds, WriteFails, TypeOK, clusterVars, scopeVars
  <1> HIDE DEF k
  <1>2. /\ cache'[k].uid \in {0, cache[k].uid, j.entry.uid, j.revert.uid}
        /\ Present(cache'[k]) => /\ Present(cache[k]) /\ cache'[k].uid > 0
                                 /\ cache'[k].version = cache[k].version
        /\ cache'[k].pending => cache[k].pending /\ cache'[k] = cache[k]
        /\ cache'[k].pending /\ j.kind = "delete" => j.version # cache[k].version
    <2> DEFINE cur == cache[k]
               X   == cache'[k]
    <2>1. /\ cur \in CacheEntry /\ X \in {Confirmed(cur, j), Reverted(cur, j)}
          /\ Present(cur) => cur.uid > 0
          /\ j \in Job /\ JobSound(j) /\ (j.kind # "closeOut" => j.version > 0)
      BY <1>1, <1>t, <1>j
    <2> HIDE DEF cur, X
    <2>2. /\ X.uid \in {0, cur.uid, j.entry.uid, j.revert.uid}
          /\ Present(X) => Present(cur) /\ X.uid > 0 /\ X.version = cur.version
          /\ X.pending => cur.pending /\ X = cur
          /\ X.pending /\ j.kind = "delete" => j.version # cur.version
      BY <2>1, SettledSlotFields, SMTT(60)
    <2>3. QED
      BY <2>2 DEF cur, X
  <1>3. TypeOK'
    BY <1>0, SettleType
  <1>4. JobsSound'
    <2>1. \A d \in closeOuts'[k] : d.key = k /\ d.kind = "closeOut" /\ JobSound(d)
      BY <1>0, <1>1, <1>j, <1>t DEF JobsSound, k
    <2>2. QED
      BY <1>0, <1>1, <2>1, SMTT(60) DEF JobsSound
  <1>5. ASSUME NEW q \in Keys, NEW b \in Nat, SlotsBelow(q, b) PROVE SlotsStayBelow(q, b)
    <2>1. cache'[q].uid <= b
      <3>1. /\ cache[q].uid <= b
            /\ \A d \in jobs : d.key = q => d.entry.uid <= b /\ d.revert.uid <= b
        BY <1>5 DEF SlotsBelow
      <3>2. CASE q = k
        BY <1>1, <1>2, <3>1, <3>2, SMTT(60) DEF k
      <3>3. CASE q # k
        BY <1>1, <3>1, <3>3
      <3>4. QED
        BY <3>2, <3>3
    <2>2. \A d \in closeOuts'[q] : d.entry.uid <= b /\ d.revert.uid <= b
      BY <1>1, <1>5 DEF SlotsBelow, k
    <2>3. QED
      BY <1>1, <1>5, <2>1, <2>2 DEF SlotsBelow, SlotsStayBelow
  <1>6. ReadInOrder'
    BY <1>0, <1>1, <1>5, ReadInOrderKept
  <1>7. OnlyDeadBuried'
    <2>1. j.type = "Deleted" => Buried(k, j.uid)
      BY <1>0 DEF OnlyDeadBuried, k
    <2>2. RowOf(j).type = j.type /\ RowOf(j).key = k /\ RowOf(j).uid = j.uid
      BY DEF RowOf, k
    <2>3. \A r \in rows' : r.type = "Deleted" => Buried(r.key, r.uid)
      BY <1>0, <1>1, <2>1, <2>2 DEF OnlyDeadBuried
    <2>4. j.kind = "closeOut" => j.type = "Deleted"
      BY <1>j DEF JobSound
    <2>5. \A q \in Keys : \A d \in closeOuts'[q] : Buried(q, d.uid)
      BY <1>0, <1>1, <2>1, <2>4 DEF OnlyDeadBuried
    <2>6. QED
      BY <1>0, <1>1, <2>3, <2>5 DEF OnlyDeadBuried, Buried
  <1>8. StaleIsDirty' /\ StoppedForGood'
    BY <1>0, <1>1 DEF StaleIsDirty, StoppedForGood, Observed
  <1>9. ASSUME NEW q \in Keys PROVE WorkSound(q)' /\ SlotSound(q)'
    <2>1. WorkSound(q) /\ SlotSound(q) /\ work' = work /\ live' = live /\ changes' = changes
      BY <1>0, <1>1
    <2>2. CASE q # k
      BY <1>1, <2>1, <2>2 DEF WorkSound, SlotSound, Buried
    <2>3. CASE q = k
      <3>1. WorkSound(q)'
        BY <1>2, <2>1, <2>3 DEF WorkSound
      <3>2. SlotSound(q)'
        BY <1>2, <2>1, <2>3 DEF SlotSound, Buried
      <3>3. QED
        BY <3>1, <3>2
    <2>4. QED
      BY <2>2, <2>3
  <1>10. ASSUME NEW q \in Keys PROVE ClaimOwned(q)'
    <2>1. ClaimOwned(q) /\ work' = work
      BY <1>0, <1>1 DEF ClaimHasOwner
    <2>2. CASE q # k
      BY <1>1, <2>1, <2>2 DEF ClaimOwned, DeleteJobCurrent, k
    <2>3. CASE q = k
      BY <1>1, <1>2, <2>1, <2>3 DEF ClaimOwned, DeleteJobCurrent
    <2>4. QED
      BY <2>2, <2>3
  <1>11. DeletionOwed'
    <2> SUFFICES ASSUME NEW q \in Keys, Observed(q), live[q].uid = 0, Present(cache'[q])
                 PROVE  DeathPursued(q)'
      BY <1>1 DEF DeletionOwed, Observed
    <2>1. Present(cache[q]) /\ cache'[q].version = cache[q].version
      BY <1>1, <1>2
    <2>2. DeathPursued(q)
      BY <1>0, <2>1 DEF DeletionOwed
    <2>3. CASE DeleteJobCurrent(q, j)
      <3>1. q = k /\ j.kind = "delete" /\ j.version = cache[k].version
        BY <2>3 DEF DeleteJobCurrent, k
      <3>2. CASE WriteFails(j)
        BY <3>1, <3>2 DEF WriteFails, DeathPursued, k
      <3>3. CASE WriteSucceeds(j)
        <4>1. cache'[k] = DeleteIfCurrent(cache[k], j.version)
          BY <1>0, <1>t, <3>1, <3>3 DEF WriteSucceeds, Confirmed, TypeOK, k
        <4>2. cache'[k] = Absent
          BY <2>1, <3>1, <4>1 DEF DeleteIfCurrent
        <4>3. QED
          BY <3>1, <4>2, AbsentType
      <3>4. QED
        BY <3>2, <3>3 DEF Settle
    <2>4. CASE ~DeleteJobCurrent(q, j)
      BY <1>1, <2>1, <2>2, <2>4 DEF DeathPursued, DeleteJobCurrent
    <2>5. QED
      BY <2>3, <2>4
  <1>12. QED
    BY <1>3, <1>4, <1>6, <1>7, <1>8, <1>9, <1>10, <1>11 DEF IndInv, ClaimHasOwner

-----------------------------------------------------------------------------
\* The invariant holds of the empty pipeline.
LEMMA InitInv == Init => IndInv
  <1> SUFFICES ASSUME Init PROVE IndInv
    OBVIOUS
  <1>1. TypeOK
    BY InitType
  <1>2. ASSUME NEW k \in Keys
        PROVE  /\ work[k].pc = "idle" /\ work[k].obj.uid = 0 /\ work[k].job.key = k
               /\ work[k].job.type = "Added" /\ work[k].job.entry.uid = 0
               /\ work[k].job.revert.uid = 0
               /\ cache[k] = Absent /\ live[k].uid = 0 /\ closeOuts[k] = {}
    BY IdleFields, NoJobFields, SMTT(60) DEF Init, NoObject
  <1>3. Absent.uid = 0 /\ ~Absent.pending /\ ~Present(Absent)
    BY AbsentType DEF Absent
  <1>4. jobs = {} /\ rows = {} /\ changes = 0 /\ scope = "active"
    BY DEF Init
  <1>5. JobsSound /\ OnlyDeadBuried /\ StaleIsDirty /\ StoppedForGood
    BY <1>2, <1>4 DEF JobsSound, OnlyDeadBuried, StaleIsDirty, StoppedForGood
  <1>6. ClaimHasOwner /\ DeletionOwed
    BY <1>2, <1>3 DEF ClaimHasOwner, ClaimOwned, DeletionOwed
  <1>7. \A k \in Keys : WorkSound(k) /\ SlotSound(k)
    BY <1>2, <1>3 DEF WorkSound, SlotSound
  <1>8. ReadInOrder
    <2>1. ASSUME NEW k \in Keys PROVE SlotsBelow(k, 0)
      <3>1. /\ cache[k].uid = 0 /\ work[k].obj.uid = 0
            /\ work[k].job.entry.uid = 0 /\ work[k].job.revert.uid = 0
        BY <1>2, <1>3
      <3>2. QED
        BY <1>2, <1>4, <3>1, SMTT(60) DEF SlotsBelow
    <2>2. QED
      BY <1>2, <1>4, <2>1, SMTT(60) DEF ReadInOrder
  <1>9. QED
    BY <1>1, <1>5, <1>6, <1>7, <1>8 DEF IndInv

\* Every step preserves the invariant, unless it watches a stopped scope again.
LEMMA StepInv ==
    ASSUME IndInv, [Next]_vars, MaxPasses <= 1 \/ passes' <= 1
    PROVE  IndInv'
  <1>1. ASSUME NEW k \in Keys, Cluster(k) PROVE IndInv'
    BY <1>1, ClusterStep
  <1>2. ASSUME NEW k \in Keys, ListObject(k) PROVE IndInv'
    BY <1>2, ListStep
  <1>3. ASSUME NEW k \in Keys, Process(k) PROVE IndInv'
    BY <1>3, ProcessStep
  <1>4. ASSUME NEW j \in jobs, Settle(j) PROVE IndInv'
    BY <1>4, SettleStep
  <1>5. CASE DeregisterScope \/ EvictScope \/ RestartScope \/ MarkScopeWarm
    BY <1>5, ScopeStep
  <1>6. CASE UNCHANGED vars
    <2>1. /\ TypeOK /\ JobsSound /\ ReadInOrder /\ OnlyDeadBuried /\ StaleIsDirty
          /\ StoppedForGood /\ ClaimHasOwner /\ DeletionOwed
          /\ \A q \in Keys : WorkSound(q) /\ SlotSound(q)
      BY DEF IndInv
    <2>2. TypeOK'
      BY <1>6, <2>1 DEF vars, TypeOK
    <2>3. JobsSound'
      BY <1>6, <2>1 DEF vars, JobsSound
    <2>4. OnlyDeadBuried' /\ StaleIsDirty' /\ StoppedForGood'
      <3>1. OnlyDeadBuried'
        BY <1>6, <2>1 DEF vars, OnlyDeadBuried, Buried
      <3>2. StaleIsDirty'
        BY <1>6, <2>1 DEF vars, StaleIsDirty, Observed
      <3>3. StoppedForGood'
        BY <1>6, <2>1 DEF vars, StoppedForGood
      <3>4. QED
        BY <3>1, <3>2, <3>3
    <2>5. ReadInOrder'
      <3>1. /\ live' = live /\ changes' = changes /\ work' = work /\ scope' = scope /\ listed' = listed
            /\ cache' = cache /\ jobs' = jobs /\ closeOuts' = closeOuts
        BY <1>6 DEF vars
      <3>2. \A q \in Keys : \A b \in Nat : SlotsBelow(q, b) => SlotsStayBelow(q, b)
        BY <3>1 DEF SlotsBelow, SlotsStayBelow
      <3>3. QED
        BY <2>1, <3>1, <3>2, ReadInOrderKept
    <2>6. ClaimHasOwner' /\ DeletionOwed'
      <3>1. ClaimHasOwner'
        BY <1>6, <2>1 DEF vars, ClaimHasOwner, ClaimOwned, DeleteJobCurrent
      <3>2. DeletionOwed'
        BY <1>6, <2>1, SMTT(60) DEF vars, DeletionOwed, DeathPursued, DeleteJobCurrent, Observed
      <3>3. QED
        BY <3>1, <3>2
    <2>7. \A q \in Keys : WorkSound(q)' /\ SlotSound(q)'
      BY <1>6, <2>1, SoundKept DEF vars
    <2>8. QED
      BY <2>2, <2>3, <2>4, <2>5, <2>6, <2>7 DEF IndInv
  <1>7. QED
    BY <1>1, <1>2, <1>3, <1>4, <1>5, <1>6 DEF Next

\* The invariant implies the three properties.
LEMMA InvMeaning == IndInv => NoFalseDelete /\ ClaimHasOwner /\ DeletionOwed
  <1> SUFFICES ASSUME IndInv PROVE NoFalseDelete /\ ClaimHasOwner /\ DeletionOwed
    OBVIOUS
  <1>1. ASSUME NEW k \in Keys, NEW u \in Nat, Buried(k, u) PROVE u # live[k].uid
    BY <1>1, SlotTypes, SMTT(60) DEF Buried, IndInv
  <1>2. ASSUME NEW d \in DeletedInHand PROVE d.key \in Keys /\ d.uid \in Nat /\ Buried(d.key, d.uid)
    <2>1. CASE d \in HeldByWorkers
      <3>1. PICK k \in Keys : work[k].job.type = "Deleted" /\ d = work[k].job
        BY <2>1 DEF HeldByWorkers
      <3>2. d.key = k /\ Buried(k, d.uid) /\ d.uid \in Nat
        BY <3>1, LocalsType DEF IndInv, WorkSound, SlotSound
      <3>3. QED
        BY <3>2
    <2>2. CASE d \in UNION {closeOuts[k] : k \in Keys}
      <3>1. PICK k \in Keys : d \in closeOuts[k]
        BY <2>2
      <3>2. d \in Job /\ d.key = k /\ Buried(k, d.uid)
        BY <3>1 DEF IndInv, TypeOK, JobsSound, OnlyDeadBuried
      <3>3. QED
        BY <3>2 DEF Job
    <2>3. CASE d \in {j \in jobs : j.type = "Deleted"}
      <3>1. d \in Job /\ Buried(d.key, d.uid)
        BY <2>3 DEF IndInv, TypeOK, OnlyDeadBuried
      <3>2. QED
        BY <3>1 DEF Job
    <2>4. QED
      BY <1>2, <2>1, <2>2, <2>3 DEF DeletedInHand
  <1>3. ASSUME NEW r \in rows, r.type = "Deleted" PROVE r.key \in Keys /\ r.uid \in Nat /\ Buried(r.key, r.uid)
    BY <1>3 DEF IndInv, TypeOK, Row, OnlyDeadBuried
  <1>4. NoFalseDelete
    BY <1>1, <1>2, <1>3 DEF NoFalseDelete
  <1>5. QED
    BY <1>4 DEF IndInv

\* As long as a stopped scope is not watched again, no Deleted record the write
\* path claims, carries or writes ever names an object that exists: for every set
\* of keys, any number of changes, faults and lost acknowledgements, and any
\* number of jobs in flight (emitDelete, the reincarnation branch of
\* processUpsert, the Commit closures).
THEOREM DeletesAreTrue ==
    ASSUME MaxPasses <= 1
    PROVE  Spec => []NoFalseDelete
  <1>1. IndInv /\ [Next]_vars => IndInv'
    BY StepInv
  <1>2. QED
    BY <1>1, InitInv, InvMeaning, PTL DEF Spec

\* Under the same assumption every delete claim in the cache has somebody who
\* will settle it (ReserveDelete, UnclaimDelete, DeleteIfCurrent).
THEOREM ClaimsAreOwned ==
    ASSUME MaxPasses <= 1
    PROVE  Spec => []ClaimHasOwner
  <1>1. IndInv /\ [Next]_vars => IndInv'
    BY StepInv
  <1>2. QED
    BY <1>1, InitInv, InvMeaning, PTL DEF Spec

\* Under the same assumption an object that is gone but still cached always has
\* a queued key, a running Process call or a Deleted job that deals with it.
THEOREM DeathsArePursued ==
    ASSUME MaxPasses <= 1
    PROVE  Spec => []DeletionOwed
  <1>1. IndInv /\ [Next]_vars => IndInv'
    BY StepInv
  <1>2. QED
    BY <1>1, InitInv, InvMeaning, PTL DEF Spec
=============================================================================
