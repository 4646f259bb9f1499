----------------------------- MODULE WarmProofs -----------------------------
(***************************************************************************)
(* Whatever a warm run or a work item closes is dead, for any number of    *)
(* incarnations of the object and crashes of the process (Warm, first      *)
(* part).  A warm run that may still write is the registered run of the    *)
(* epoch its scope is served in (WarmCoordinator, second part, with an     *)
(* inductive invariant of its own, LifeInv; independent of the others).    *)
(* And at rest every incarnation that has a row and is gone is closed, in  *)
(* a scope left open (Warm, third part): DeathInv adds to WarmInv          *)
(* how records are dated and claims numbered (Ledger), and who answers for *)
(* each incarnation not yet closed while its work goes on (Watch).         *)
(***************************************************************************)
EXTENDS Warm, WarmCoordinator, WellFoundedInduction, TLAPS

\* The prover of a leaf that names none; SMT is named where arithmetic is needed.
USE ZenonT(60)

-----------------------------------------------------------------------------
\* What a warm run reads and writes.
RowKinds == {"Added", "Snapshot", "Deleted"}
HistoryRow == [type : RowKinds, uid : Nat \ {0}, ts : Nat, at : Nat]
WriterJob == [type : RowKinds, uid : Nat \ {0}, ts : Nat, ver : Nat]
CacheEntry == [uid : Nat, ver : Nat, deleting : BOOLEAN]
Records == rows \cup jobs

\* The incarnations a run that follows history speaks of.
Following == {"read", "mark", "sync", "gate", "close", "gc"}

RunMentions(u) ==
    \/ run.at \in Following \cup {"got"} /\ run.current = u
    \/ run.at \in Following /\ \E p \in run.priors : p.uid = u
    \/ run.at = "stamp" /\ run.uid = u
    \/ run.at = "recover" /\ run.target = u

Mentions(u) == (\E r \in Records : r.uid = u) \/ cache.uid = u \/ RunMentions(u)

\* What a run is about to close is not the object that exists.
RunSound ==
    \/ run.at \in {"none", "seed", "done"}
    \/ /\ run \in [at : Following, current : Nat, priors : SUBSET [uid : Nat, ts : Nat]]
       /\ \A p \in run.priors : p.uid \notin {0, obj} /\ p.ts <= clock
       /\ run.at \in {"gate", "close", "gc"} => synced
       /\ run.at \notin {"read", "mark"} => run.current # 0
    \/ run.at = "got" /\ run.current \in Nat \ {0, obj}
    \/ run.at = "stamp" /\ run.uid \in Nat \ {0, obj} /\ run.ver \in Nat
    \/ run.at = "recover" /\ run.target \in Nat \ {0, obj}

ProcSound ==
    \/ proc = NoProc
    \/ proc.at = "absent" /\ proc.uid = 0
    \/ proc.at \in {"found", "missed"} /\ proc.uid \in 1 .. uids
    \/ proc.at = "reborn" /\ proc.uid \in 1 .. uids /\ proc.old \in (1 .. uids) \ {obj}
    \/ proc.at = "stamp" /\ proc.type \in {"Added", "Snapshot"} /\ proc.uid \in 1 .. uids /\ proc.ver \in Nat
    \/ proc.at = "stamp" /\ proc.type = "Deleted" /\ proc.uid \in (1 .. uids) \ {obj} /\ proc.ver \in Nat

Upserting == proc.at \in {"found", "missed", "reborn"} \/ (proc.at = "stamp" /\ proc.type # "Deleted")

\* Who may have been spoken of, seen from the informer and from a work item.
Views ==
    /\ \A u \in Nat : Mentions(u) => u <= uids
    /\ synced /\ store # obj /\ obj # 0 => ~Mentions(obj) /\ (proc # NoProc => proc.uid # obj)
    /\ synced /\ store # 0 => \A u \in Nat : Mentions(u) \/ (proc # NoProc /\ proc.uid = u) => u <= store
    /\ proc.at = "absent" /\ obj # 0 => ~Mentions(obj)
    /\ Upserting => \A u \in Nat : Mentions(u) => u <= proc.uid

\* Records are dated in the order of the incarnations they speak of.
RecordsSound ==
    /\ rows \subseteq HistoryRow /\ jobs \subseteq WriterJob
    /\ \A r \in Records : r.ts <= clock
    /\ \A r, s \in Records : r.type # "Deleted" /\ s.type # "Deleted" /\ r.uid < s.uid => r.ts < s.ts
    /\ ClosedIsDead

WarmTypes ==
    /\ uids \in Nat /\ obj \in {0, uids} /\ store \in 0 .. uids
    /\ clock \in Nat /\ ver \in Nat /\ inserted \in Nat
    /\ synced \in BOOLEAN /\ (queued => synced)
    /\ cache \in CacheEntry
    /\ cache = NoEntry \/ cache.uid # 0

WarmInv == WarmTypes /\ RunSound /\ ProcSound /\ Views /\ RecordsSound

-----------------------------------------------------------------------------
\* A nonempty set of numbers with a bound has a greatest one.
LEMMA MaxExists ==
    ASSUME NEW S, S \subseteq Nat, S # {}, NEW b \in Nat, \A x \in S : x <= b
    PROVE  \E t \in S : \A u \in S : u <= t
  <1> DEFINE R == OpToRel(<, Nat)
             T == {n \in Nat : n <= b /\ b - n \in S}
  <1>1. T # {} /\ T \subseteq Nat
    <2>1. PICK x \in S : x \in Nat /\ x <= b
      OBVIOUS
    <2>2. b - (b - x) = x
      BY <2>1, SMTT(60)
    <2>3. b - x \in T
      BY <2>1, <2>2, SMTT(60)
    <2>4. QED
      BY <2>3
  <1>2. PICK n \in T : \A m \in T : ~(<<m, n>> \in R)
    BY <1>1, NatLessThanWellFounded, WFMin
  <1>3. ASSUME NEW u \in S PROVE u <= b - n
    <2>0. b - (b - u) = u
      BY <1>3, SMTT(60)
    <2>1. b - u \in T
      BY <1>3, <2>0, SMTT(60)
    <2>2. ~(b - u < n)
      BY <1>2, <2>1, <1>1 DEF OpToRel
    <2>3. QED
      BY <2>2, SMTT(60)
  <1>4. b - n \in S
    OBVIOUS
  <1>5. QED
    BY <1>3, <1>4

LEMMA JobFacts ==
    ASSUME NEW type \in RowKinds, NEW uid \in Nat \ {0}, NEW ts \in Nat, NEW v \in Nat
    PROVE  /\ Job(type, uid, ts, v) \in WriterJob /\ Job(type, uid, ts, v).type = type
           /\ Job(type, uid, ts, v).uid = uid /\ Job(type, uid, ts, v).ts = ts
  BY DEF Job, WriterJob

LEMMA NoEntryType == NoEntry \in CacheEntry /\ NoEntry.uid = 0
  BY DEF NoEntry, CacheEntry

LEMMA NoProcIdle == NoProc.at = "idle"
  BY DEF NoProc

\* The views hold on while informer and work item stand still and nobody else is
\* spoken of.
LEMMA ViewsKept ==
    ASSUME WarmInv, UNCHANGED <<obj, uids, store, synced, proc>>,
           \A u \in Nat : Mentions(u)' => Mentions(u) \/ u = 0
    PROVE  Views'
  <1>1. \A u \in Nat : Mentions(u)' => u <= uids
    BY SMTT(60) DEF WarmInv, WarmTypes, Views
  <1>2. synced /\ store # obj /\ obj # 0 => ~Mentions(obj)' /\ (proc # NoProc => proc.uid # obj)
    BY DEF WarmInv, WarmTypes, Views
  <1>3. synced /\ store # 0 => \A u \in Nat : Mentions(u)' \/ (proc # NoProc /\ proc.uid = u) => u <= store
    BY SMTT(60) DEF WarmInv, WarmTypes, Views
  <1>4. proc.at = "absent" /\ obj # 0 => ~Mentions(obj)'
    BY DEF WarmInv, WarmTypes, Views
  <1>5. Upserting => \A u \in Nat : Mentions(u)' => u <= proc.uid
    <2>1. Upserting => proc.uid \in Nat
      BY SMTT(60) DEF WarmInv, WarmTypes, ProcSound, Upserting, NoProc
    <2>2. QED
      BY <2>1, SMTT(60) DEF WarmInv, Views
  <1>6. QED
    BY <1>1, <1>2, <1>3, <1>4, <1>5 DEF Views, Upserting

\* New records are of incarnations that are gone.
LEMMA RecordsKept ==
    ASSUME WarmInv, obj' = obj, clock' \in Nat, clock <= clock',
           rows' \subseteq HistoryRow, jobs' \subseteq WriterJob,
           \A r \in Records' :
              \/ \E q \in Records : r.type = q.type /\ r.uid = q.uid /\ r.ts = q.ts
              \/ r.type = "Deleted" /\ r.uid # obj /\ r.ts <= clock'
    PROVE  RecordsSound'
  <1>1. Records \subseteq HistoryRow \cup WriterJob /\ clock \in Nat
    BY DEF WarmInv, RecordsSound, Records, WarmTypes
  <1>2. \A r \in Records' : r.ts <= clock'
    BY <1>1, SMTT(60) DEF WarmInv, RecordsSound, HistoryRow, WriterJob
  <1>3. \A r, s \in Records' : r.type # "Deleted" /\ s.type # "Deleted" /\ r.uid < s.uid => r.ts < s.ts
    BY DEF WarmInv, RecordsSound
  <1>4. ClosedIsDead'
    <2>1. \A r \in Records' : r.type = "Deleted" => r.uid # obj
      BY DEF WarmInv, RecordsSound, ClosedIsDead, Records
    <2>2. QED
      BY <2>1 DEF ClosedIsDead, Records
  <1>5. QED
    BY <1>2, <1>3, <1>4 DEF RecordsSound

\* The views after a step of the work item, which may have its own incarnation
\* spoken of.
LEMMA ViewsOfProcess ==
    ASSUME WarmInv, UNCHANGED <<obj, uids, store, synced>>, proc # NoProc,
           \A u \in Nat : Mentions(u)' => Mentions(u) \/ u = 0 \/ u = proc.uid,
           \/ proc' = NoProc
           \/ /\ proc'.at # "absent" /\ proc'.uid \in Nat
              /\ proc'.uid = proc.uid \/ Mentions(proc'.uid)
              /\ Upserting' => Upserting /\ proc'.uid = proc.uid
    PROVE  Views'
  <1>0. proc.uid \in 0 .. uids /\ uids \in Nat /\ obj \in 0 .. uids /\ store \in 0 .. uids
        /\ (proc.uid # 0 \/ proc.at = "absent")
    BY SMTT(60) DEF WarmInv, WarmTypes, ProcSound
  <1>1. \A u \in Nat : Mentions(u)' => u <= uids
    BY <1>0, SMTT(60) DEF WarmInv, Views
  <1>2. synced /\ store # obj /\ obj # 0 => ~Mentions(obj)' /\ (proc' # NoProc => proc'.uid # obj)
    BY <1>0, SMTT(60) DEF WarmInv, Views
  <1>3. synced /\ store # 0 => \A u \in Nat : Mentions(u)' \/ (proc' # NoProc /\ proc'.uid = u) => u <= store
    BY <1>0, SMTT(60) DEF WarmInv, Views
  <1>4. proc'.at # "absent"
    BY SMTT(60) DEF NoProc
  <1>5. Upserting' => \A u \in Nat : Mentions(u)' => u <= proc'.uid
    <2>1. proc' = NoProc => ~Upserting'
      BY SMTT(60) DEF Upserting, NoProc
    <2>2. QED
      BY <1>0, <2>1, SMTT(60) DEF WarmInv, Views
  <1>6. QED
    BY <1>0, <1>1, <1>2, <1>3, <1>4, <1>5 DEF Views

-----------------------------------------------------------------------------
\* What the surroundings do.
LEMMA ObjectKeeps == WarmInv /\ CreateOrDelete => WarmInv'
  <1> SUFFICES ASSUME WarmInv, CreateOrDelete PROVE WarmInv'
    OBVIOUS
  <1> USE DEF CreateOrDelete, sinkVars, watchVars, cacheVars
  <1>1. WarmTypes'
    BY SMTT(60) DEF WarmInv, WarmTypes
  <1>2. \A u \in Nat : Mentions(u)' <=> Mentions(u)
    BY DEF Mentions, RunMentions, Records
  <1>3. obj' # 0 => obj' = uids + 1 /\ uids \in Nat /\ obj = 0
    BY DEF WarmInv, WarmTypes
  <1>4. \A u \in Nat : Mentions(u) => u # obj' \/ u = 0
    BY <1>3, SMTT(60) DEF WarmInv, Views, WarmTypes
  <1>5. RunSound'
    <2>1. CASE run.at \in Following
      <3>1. \A p \in run.priors : Mentions(p.uid)
        BY <2>1 DEF Mentions, RunMentions
      <3>2. QED
        BY <2>1, <3>1, <1>4 DEF WarmInv, RunSound, Following
    <2>2. CASE run.at \notin Following
      <3>1. run.at = "got" => Mentions(run.current)
        BY DEF Mentions, RunMentions
      <3>2. run.at = "stamp" => Mentions(run.uid)
        BY DEF Mentions, RunMentions
      <3>3. run.at = "recover" => Mentions(run.target)
        BY DEF Mentions, RunMentions
      <3>4. QED
        BY <2>2, <3>1, <3>2, <3>3, <1>4 DEF WarmInv, RunSound, Following
    <2>3. QED
      BY <2>1, <2>2
  <1>6. ProcSound'
    BY <1>3, SMTT(60) DEF WarmInv, WarmTypes, ProcSound
  <1>7. Views'
    <2>0. uids \in Nat /\ uids' \in Nat /\ uids <= uids' /\ (proc # NoProc => proc.uid \in 0 .. uids)
      BY SMTT(60) DEF WarmInv, WarmTypes, ProcSound
    <2>1. \A u \in Nat : Mentions(u)' => u <= uids'
      BY <1>2, <2>0, SMTT(60) DEF WarmInv, Views
    <2>2. obj' # 0 => ~Mentions(obj)' /\ (proc # NoProc => proc.uid # obj')
      BY <1>2, <1>3, <1>4, <2>0, SMTT(60)
    <2>3. synced /\ store # 0 => \A u \in Nat : Mentions(u)' \/ (proc # NoProc /\ proc.uid = u) => u <= store
      BY <1>2 DEF WarmInv, Views
    <2>4. Upserting' => \A u \in Nat : Mentions(u)' => u <= proc.uid
      BY <1>2 DEF WarmInv, Views, Upserting
    <2>5. QED
      BY <2>1, <2>2, <2>3, <2>4 DEF Views
  <1>8. RecordsSound'
    <2>1. \A r \in Records : r.uid \in Nat \ {0} /\ Mentions(r.uid)
      BY DEF WarmInv, RecordsSound, Records, Mentions, HistoryRow, WriterJob
    <2>2. ClosedIsDead'
      BY <2>1, <1>4 DEF ClosedIsDead, Records
    <2>3. QED
      BY <2>2 DEF WarmInv, RecordsSound, Records
  <1>9. QED
    BY <1>1, <1>5, <1>6, <1>7, <1>8 DEF WarmInv

LEMMA InformerKeeps == WarmInv /\ InformerSees => WarmInv'
  <1> SUFFICES ASSUME WarmInv, InformerSees PROVE WarmInv'
    OBVIOUS
  <1> USE DEF InformerSees, apiVars, sinkVars, cacheVars
  <1>1. WarmTypes'
    BY SMTT(60) DEF WarmInv, WarmTypes
  <1>2. \A u \in Nat : Mentions(u)' <=> Mentions(u)
    BY DEF Mentions, RunMentions, Records
  <1>3. RunSound' /\ ProcSound'
    BY DEF WarmInv, RunSound, ProcSound
  <1>4. Views'
    <2>1. proc # NoProc => proc.uid \in 0 .. uids
      BY SMTT(60) DEF WarmInv, WarmTypes, ProcSound
    <2>2. obj # 0 => \A u \in Nat : Mentions(u)' \/ (proc # NoProc /\ proc.uid = u) => u <= obj
      BY <1>2, <2>1, SMTT(60) DEF WarmInv, WarmTypes, Views
    <2>3. \A u \in Nat : Mentions(u)' => u <= uids
      BY <1>2 DEF WarmInv, Views
    <2>4. proc.at = "absent" /\ obj # 0 => ~Mentions(obj)'
      BY <1>2 DEF WarmInv, Views, WarmTypes
    <2>5. Upserting' => \A u \in Nat : Mentions(u)' => u <= proc.uid
      BY <1>2 DEF WarmInv, Views, Upserting
    <2>6. QED
      BY <2>2, <2>3, <2>4, <2>5 DEF Views
  <1>5. RecordsSound'
    BY DEF WarmInv, RecordsSound, Records, ClosedIsDead
  <1>6. QED
    BY <1>1, <1>3, <1>4, <1>5 DEF WarmInv

LEMMA ProcessEndsKeep == WarmInv /\ (Crash \/ Restart \/ LogStarted) => WarmInv'
  <1> SUFFICES ASSUME WarmInv, Crash \/ Restart \/ LogStarted PROVE WarmInv'
    OBVIOUS
  <1> USE DEF apiVars, sinkVars, watchVars, cacheVars, ghosts, scopeVars
  <1>1. WarmTypes'
    <2>1. CASE Crash
      <3>1. cache' \in CacheEntry /\ cache' = NoEntry
        BY <2>1, NoEntryType DEF Crash
      <3>2. synced' \in BOOLEAN /\ (queued' => synced')
        BY <2>1 DEF Crash
      <3>3. store' = 0 /\ UNCHANGED <<obj, uids, clock, ver, inserted>>
        BY <2>1 DEF Crash
      <3>4. QED
        BY <3>1, <3>2, <3>3, SMTT(60) DEF WarmInv, WarmTypes
    <2>2. CASE Restart \/ LogStarted
      BY <2>2, SMTT(60) DEF WarmInv, WarmTypes, Restart, LogStarted
    <2>3. QED
      BY <2>1, <2>2
  <1>2. RunSound'
    BY SMTT(60) DEF WarmInv, RunSound, Crash, Restart, LogStarted, NoRun
  <1>3. ProcSound'
    BY DEF WarmInv, ProcSound, Crash, Restart, LogStarted
  <1>4. \A u \in Nat : Mentions(u)' => Mentions(u) \/ u = 0
    BY SMTT(60) DEF Mentions, RunMentions, Records, Following, Crash, Restart, LogStarted, NoRun, NoEntry
  <1>5. Views'
    <2>1. CASE Crash
      BY <2>1, <1>4, SMTT(60) DEF WarmInv, WarmTypes, Views, Upserting, Crash, NoProc
    <2>2. CASE Restart \/ LogStarted
      BY <2>2, <1>4, ViewsKept DEF Restart, LogStarted
    <2>3. QED
      BY <2>1, <2>2
  <1>6. RecordsSound'
    BY DEF WarmInv, RecordsSound, Records, ClosedIsDead, Crash, Restart, LogStarted
  <1>7. QED
    BY <1>1, <1>2, <1>3, <1>5, <1>6 DEF WarmInv

\* The writer inserts, the table merges.
LEMMA SinkKeeps == WarmInv /\ ((\E j \in jobs : Land(j)) \/ Merge) => WarmInv'
  <1> SUFFICES ASSUME WarmInv, (\E j \in jobs : Land(j)) \/ Merge PROVE WarmInv'
    OBVIOUS
  <1> USE DEF apiVars, watchVars, cacheVars
  <1>1. WarmTypes'
    <2>1. cache' \in {cache, NoEntry} /\ inserted' \in Nat
      BY SMTT(60) DEF WarmInv, WarmTypes, Land, Merge
    <2>2. UNCHANGED <<obj, uids, store, clock, ver, synced, queued>>
      BY DEF Land, Merge
    <2>3. QED
      BY <2>1, <2>2, NoEntryType DEF WarmInv, WarmTypes
  <1>2. RunSound' /\ ProcSound'
    BY DEF WarmInv, RunSound, ProcSound, Land, Merge
  <1>3. rows' \subseteq HistoryRow /\ jobs' \subseteq WriterJob
    BY SMTT(60) DEF WarmInv, WarmTypes, RecordsSound, HistoryRow, WriterJob, Land, Merge
  <1>4. \A r \in Records' : \E q \in Records : r.type = q.type /\ r.uid = q.uid /\ r.ts = q.ts
    BY SMTT(60) DEF Records, Land, Merge
  <1>5. RecordsSound'
    BY <1>3, <1>4, RecordsKept, SMTT(60) DEF WarmInv, WarmTypes, Land, Merge
  <1>6. \A u \in Nat : Mentions(u)' => Mentions(u) \/ u = 0
    BY <1>4, SMTT(60) DEF Mentions, RunMentions, Land, Merge, NoEntry
  <1>7. Views'
    BY <1>6, ViewsKept DEF Land, Merge
  <1>8. QED
    BY <1>1, <1>2, <1>5, <1>7 DEF WarmInv

-----------------------------------------------------------------------------
\* The work item.
LEMMA GetKeeps == WarmInv /\ ProcessGet => WarmInv'
  <1> SUFFICES ASSUME WarmInv, ProcessGet PROVE WarmInv'
    OBVIOUS
  <1> USE DEF ProcessGet, apiVars, sinkVars, watchVars, cacheVars
  <1>1. WarmTypes'
    BY DEF WarmInv, WarmTypes
  <1>2. RunSound' /\ RecordsSound'
    BY DEF WarmInv, RunSound, RecordsSound, Records, ClosedIsDead
  <1>3. /\ proc' # NoProc /\ proc'.uid = store /\ synced /\ ~proc'.at = "stamp"
        /\ proc'.at = IF store = 0 THEN "absent" ELSE "found"
    BY DEF WarmInv, WarmTypes, NoProc
  <1>4. ProcSound'
    BY <1>3, SMTT(60) DEF WarmInv, WarmTypes, ProcSound
  <1>5. Views'
    <2>1. \A u \in Nat : Mentions(u)' <=> Mentions(u)
      BY DEF Mentions, RunMentions, Records
    <2>2. proc'.at = "absent" /\ obj # 0 => ~Mentions(obj)'
      BY <2>1, <1>3 DEF WarmInv, WarmTypes, Views
    <2>3. Upserting' => \A u \in Nat : Mentions(u)' => u <= proc'.uid
      BY <2>1, <1>3 DEF WarmInv, WarmTypes, Views, Upserting
    <2>4. synced /\ store # obj /\ obj # 0 => ~Mentions(obj)' /\ proc'.uid # obj
      BY <2>1, <1>3 DEF WarmInv, WarmTypes, Views
    <2>5. store # 0 => \A u \in Nat : Mentions(u)' \/ proc'.uid = u => u <= store
      BY <2>1, <1>3, SMTT(60) DEF WarmInv, WarmTypes, Views
    <2>6. QED
      BY <2>1, <2>2, <2>3, <2>4, <2>5 DEF WarmInv, Views
  <1>6. QED
    BY <1>1, <1>2, <1>4, <1>5 DEF WarmInv

\* A claim leaves the entry's incarnation.
LEMMA ClaimFacts ==
    ASSUME WarmInv, ReserveDelete, NEW uid, MayClaim(uid)
    PROVE  /\ cache' \in CacheEntry /\ cache'.uid = cache.uid /\ cache.uid \in Nat \ {0}
           /\ ver' \in Nat /\ ver' = ver + 1
  <1>1. cache \in CacheEntry /\ cache.uid # 0 /\ ver \in Nat
    BY DEF WarmInv, WarmTypes, MayClaim
  <1>2. cache' = [cache EXCEPT !.deleting = TRUE, !.ver = ver + 1] /\ ver' = ver + 1
    BY DEF ReserveDelete
  <1>3. cache' = [uid |-> cache.uid, ver |-> ver + 1, deleting |-> TRUE]
    BY <1>1, <1>2 DEF CacheEntry
  <1>4. cache.uid \in Nat /\ ver + 1 \in Nat
    BY <1>1, SMTT(60) DEF CacheEntry
  <1>5. cache' \in CacheEntry
    BY <1>3, <1>4 DEF CacheEntry
  <1>6. cache'.uid = cache.uid
    BY <1>3
  <1>7. QED
    BY <1>1, <1>2, <1>4, <1>5, <1>6

LEMMA AbsentKeeps == WarmInv /\ ProcessAbsent => WarmInv'
  <1> SUFFICES ASSUME WarmInv, ProcessAbsent PROVE WarmInv'
    OBVIOUS
  <1> USE DEF ProcessAbsent, apiVars, sinkVars, watchVars
  <1>0. proc # NoProc /\ proc.at = "absent" /\ proc.uid = 0
    BY SMTT(60) DEF WarmInv, ProcSound, NoProc
  <1>1. cache' \in CacheEntry /\ cache'.uid = cache.uid /\ ver' \in Nat
    BY ClaimFacts DEF cacheVars, WarmInv, WarmTypes
  <1>2. WarmTypes'
    <2>1. cache' = NoEntry \/ cache'.uid # 0
      BY ClaimFacts DEF cacheVars, WarmInv, WarmTypes
    <2>2. QED
      BY <1>1, <2>1 DEF WarmInv, WarmTypes
  <1>3. RunSound' /\ RecordsSound'
    BY DEF WarmInv, RunSound, RecordsSound, Records, ClosedIsDead
  <1>4. \A u \in Nat : Mentions(u)' <=> Mentions(u)
    BY <1>1 DEF Mentions, RunMentions, Records
  <1>5. CASE MayClaim(0)
    <2>1. /\ proc'.at = "stamp" /\ proc'.type = "Deleted" /\ proc'.uid = cache.uid
          /\ proc'.ver \in Nat /\ proc'.uid \in Nat \ {0}
      BY <1>5, ClaimFacts, SMTT(60)
    <2>2. Mentions(cache.uid) /\ cache.uid <= uids
      <3>1. Mentions(cache.uid)
        BY DEF Mentions
      <3>2. QED
        BY <3>1, <2>1 DEF WarmInv, Views
    <2>3. cache.uid # obj
      BY <2>1, <2>2, <1>0 DEF WarmInv, Views
    <2>4. ProcSound'
      BY <2>1, <2>2, <2>3, SMTT(60) DEF ProcSound, WarmInv, WarmTypes
    <2>5. Views'
      BY <1>0, <1>4, <2>1, <2>2, ViewsOfProcess DEF Upserting
    <2>6. QED
      BY <1>2, <1>3, <2>4, <2>5 DEF WarmInv
  <1>6. CASE ~MayClaim(0)
    <2>1. ProcSound'
      BY <1>6 DEF ProcSound
    <2>2. Views'
      BY <1>0, <1>4, <1>6, ViewsOfProcess
    <2>3. QED
      BY <1>2, <1>3, <2>1, <2>2 DEF WarmInv
  <1>7. QED
    BY <1>5, <1>6

LEMMA LoadKeeps == WarmInv /\ ProcessLoad => WarmInv'
  <1> SUFFICES ASSUME WarmInv, ProcessLoad PROVE WarmInv'
    OBVIOUS
  <1> USE DEF ProcessLoad, apiVars, sinkVars, watchVars, cacheVars
  <1>0. proc # NoProc /\ proc.at = "found" /\ proc.uid \in 1 .. uids /\ Upserting
    BY SMTT(60) DEF WarmInv, ProcSound, Upserting, NoProc
  <1>1. WarmTypes'
    BY DEF WarmInv, WarmTypes
  <1>2. RunSound' /\ RecordsSound'
    BY DEF WarmInv, RunSound, RecordsSound, Records, ClosedIsDead
  <1>3. \A u \in Nat : Mentions(u)' <=> Mentions(u)
    BY DEF Mentions, RunMentions, Records
  <1>4. cache # NoEntry => cache.uid \in Nat \ {0} /\ cache.uid <= proc.uid
    <2>1. Mentions(cache.uid)
      BY DEF Mentions
    <2>2. QED
      BY <2>1, <1>0 DEF WarmInv, WarmTypes, Views, CacheEntry
  <1>5. ProcSound'
    <2>1. uids \in Nat /\ obj \in {0, uids}
      BY DEF WarmInv, WarmTypes
    <2>2. QED
      BY <1>0, <1>4, <2>1, SMTT(60) DEF ProcSound
  <1>6. proc' = NoProc \/ (proc'.at \in {"missed", "reborn"} /\ proc'.uid = proc.uid)
    OBVIOUS
  <1>7. Views'
    BY <1>0, <1>3, <1>6, ViewsOfProcess, SMTT(60)
  <1>8. QED
    BY <1>1, <1>2, <1>5, <1>7 DEF WarmInv

\* A run is undisturbed by a step that only reads the clock.
LEMMA RunSoundKept ==
    ASSUME RunSound, clock \in Nat, UNCHANGED <<obj, synced, run>>, clock' \in {clock, clock + 1}
    PROVE  RunSound'
  <1>1. \A n \in Nat : n <= clock => n <= clock'
    BY SMTT(60)
  <1>2. ASSUME run \in [at : Following, current : Nat, priors : SUBSET [uid : Nat, ts : Nat]],
               \A p \in run.priors : p.uid \notin {0, obj} /\ p.ts <= clock
        PROVE  \A p \in run.priors : p.uid \notin {0, obj} /\ p.ts <= clock'
    <2>1. \A p \in run.priors : p.ts \in Nat
      BY <1>2
    <2>2. QED
      BY <1>1, <1>2, <2>1
  <1>3. QED
    BY <1>2 DEF RunSound

LEMMA UpsertKeeps == WarmInv /\ (ProcessMissed \/ ProcessReborn) => WarmInv'
  <1> SUFFICES ASSUME WarmInv, ProcessMissed \/ ProcessReborn PROVE WarmInv'
    OBVIOUS
  <1> USE DEF apiVars, sinkVars, watchVars
  <1>0. /\ proc # NoProc /\ proc.uid \in 1 .. uids /\ Upserting /\ uids \in Nat /\ ver \in Nat /\ clock \in Nat
        /\ proc.at = "reborn" => proc.old \in (1 .. uids) \ {obj}
    BY SMTT(60) DEF WarmInv, WarmTypes, ProcSound, Upserting, NoProc, ProcessMissed, ProcessReborn
  <1>1. /\ UNCHANGED <<obj, uids, rows, inserted, up, store, synced, queued, run>>
        /\ proc'.at = "stamp" /\ proc'.type \in {"Added", "Snapshot"} /\ proc'.uid = proc.uid
        /\ proc'.ver = ver + 1 /\ ver' = ver + 1
        /\ cache' = [uid |-> proc.uid, ver |-> ver + 1, deleting |-> FALSE]
    BY SMTT(60) DEF ProcessMissed, ProcessReborn, Reserve
  <1>2. \/ UNCHANGED <<clock, jobs>>
        \/ /\ clock' = clock + 1 /\ proc.old = cache.uid /\ proc.old \in (1 .. uids) \ {obj}
           /\ jobs' = jobs \cup {Job("Deleted", proc.old, clock + 1, 0)}
    BY <1>0, SMTT(60) DEF ProcessMissed, ProcessReborn, MayClaim
  <1>3. WarmTypes'
    <2>1. cache' \in CacheEntry /\ cache'.uid = proc.uid /\ proc.uid # 0
      <3>1. proc.uid \in Nat \ {0} /\ ver + 1 \in Nat
        BY <1>0, SMTT(60)
      <3>2. cache' = [uid |-> proc.uid, ver |-> ver + 1, deleting |-> FALSE]
        BY <1>1
      <3>3. QED
        BY <3>1, <3>2 DEF CacheEntry
    <2>2. clock' \in Nat
      BY <1>0, <1>2, SMTT(60)
    <2>3. QED
      BY <1>0, <1>1, <2>1, <2>2, SMTT(60) DEF WarmInv, WarmTypes
  <1>4. RunSound'
    BY <1>0, <1>1, <1>2, RunSoundKept DEF WarmInv
  <1>5. ProcSound'
    BY <1>0, <1>1, SMTT(60) DEF ProcSound
  <1>6. RecordsSound'
    <2>0. proc.old \in 1 .. uids => Job("Deleted", proc.old, clock + 1, 0) \in WriterJob
      <3>1. "Deleted" \in RowKinds /\ clock + 1 \in Nat /\ 0 \in Nat
        BY <1>0, SMTT(60) DEF RowKinds
      <3>2. proc.old \in 1 .. uids => proc.old \in Nat \ {0}
        BY <1>0, SMTT(60)
      <3>3. QED
        BY <3>1, <3>2, JobFacts
    <2>1. rows' \subseteq HistoryRow /\ jobs' \subseteq WriterJob
      BY <1>1, <1>2, <2>0 DEF WarmInv, RecordsSound
    <2>2. \A r \in Records' : r \in Records \/ (r.type = "Deleted" /\ r.uid # obj /\ r.ts <= clock')
      BY <1>0, <1>1, <1>2, SMTT(60) DEF Records, Job
    <2>3. QED
      BY <1>0, <1>1, <1>2, <2>1, <2>2, RecordsKept, SMTT(60)
  <1>7. \A u \in Nat : Mentions(u)' => Mentions(u) \/ u = proc.uid
    <2>1. \A r \in Records' : r \in Records \/ r.uid = cache.uid
      BY <1>1, <1>2, SMTT(60) DEF Records, Job
    <2>2. QED
      BY <1>1, <2>1 DEF Mentions, RunMentions
  <1>8. Views'
    BY <1>0, <1>1, <1>7, ViewsOfProcess, SMTT(60)
  <1>9. QED
    BY <1>3, <1>4, <1>5, <1>6, <1>8 DEF WarmInv

LEMMA EnqueueKeeps == WarmInv /\ ProcessEnqueue => WarmInv'
  <1> SUFFICES ASSUME WarmInv, ProcessEnqueue PROVE WarmInv'
    OBVIOUS
  <1> USE DEF apiVars, sinkVars, watchVars, cacheVars
  <1> DEFINE new == Job(proc.type, proc.uid, clock + 1, proc.ver)
  <1>0. /\ proc # NoProc /\ proc.uid \in 1 .. uids /\ proc.ver \in Nat /\ uids \in Nat /\ clock \in Nat
        /\ proc.type \in RowKinds /\ (proc.type # "Deleted" => Upserting)
        /\ (proc.type = "Deleted" => proc.uid # obj)
    BY SMTT(60) DEF WarmInv, WarmTypes, ProcSound, Upserting, RowKinds, NoProc, ProcessEnqueue
  <1>1. /\ UNCHANGED <<obj, uids, rows, inserted, up, store, synced, queued, run, cache, ver>>
        /\ clock' = clock + 1 /\ jobs' = jobs \cup {new} /\ proc' = NoProc
    BY DEF ProcessEnqueue
  <1>2. new \in WriterJob /\ new.uid = proc.uid /\ new.ts = clock + 1 /\ new.type = proc.type
    <2>1. proc.type \in RowKinds /\ proc.uid \in Nat \ {0} /\ clock + 1 \in Nat /\ proc.ver \in Nat
      BY <1>0, SMTT(60)
    <2>2. QED
      BY <2>1, JobFacts, SMTT(60)
  <1> HIDE DEF new
  <1>3. WarmTypes'
    BY <1>0, <1>1, SMTT(60) DEF WarmInv, WarmTypes
  <1>4. RunSound'
    BY <1>0, <1>1, RunSoundKept DEF WarmInv
  <1>5. ProcSound'
    BY <1>1 DEF ProcSound
  <1>6. RecordsSound'
    <2>1. Records' = Records \cup {new} /\ jobs' \subseteq WriterJob /\ rows' \subseteq HistoryRow
      BY <1>1, <1>2 DEF Records, WarmInv, RecordsSound
    <2>2. \A r \in Records : r.uid \in Nat \ {0} /\ r.ts \in Nat /\ r.ts <= clock /\ Mentions(r.uid)
      BY DEF WarmInv, RecordsSound, Records, Mentions, HistoryRow, WriterJob
    <2>3. new.type # "Deleted" => \A r \in Records : r.uid <= new.uid
      BY <1>0, <1>2, <2>2 DEF WarmInv, Views
    <2>4. \A r \in Records' : r.ts <= clock'
      BY <1>0, <1>1, <1>2, <2>1, <2>2, SMTT(60)
    <2>5. \A r, s \in Records' : r.type # "Deleted" /\ s.type # "Deleted" /\ r.uid < s.uid => r.ts < s.ts
      BY <1>0, <1>1, <1>2, <2>1, <2>2, <2>3, SMTT(60) DEF WarmInv, RecordsSound
    <2>6. ClosedIsDead'
      BY <1>0, <1>1, <1>2, <2>1 DEF WarmInv, RecordsSound, ClosedIsDead, Records
    <2>7. QED
      BY <2>1, <2>4, <2>5, <2>6 DEF RecordsSound
  <1>7. \A u \in Nat : Mentions(u)' => Mentions(u) \/ u = proc.uid
    BY <1>1, <1>2 DEF Mentions, RunMentions, Records
  <1>8. Views'
    BY <1>0, <1>1, <1>7, ViewsOfProcess
  <1>9. QED
    BY <1>3, <1>4, <1>5, <1>6, <1>8 DEF WarmInv

-----------------------------------------------------------------------------
\* What the history says.
LEMMA LastTSFacts ==
    ASSUME WarmInv, NEW u \in Recorded
    PROVE  /\ LastTS(u) \in Nat /\ LastTS(u) <= clock
           /\ \E r \in rows : r.uid = u /\ r.ts = LastTS(u)
           /\ \A r \in rows : r.uid = u => r.ts <= LastTS(u)
  <1> DEFINE stamps == {r.ts : r \in {q \in rows : q.uid = u}}
  <1>1. rows \subseteq HistoryRow /\ clock \in Nat
    BY DEF WarmInv, WarmTypes, RecordsSound
  <1>2. stamps \subseteq Nat /\ stamps # {} /\ \A t \in stamps : t <= clock
    <2>1. \A r \in rows : r.ts \in Nat /\ r.ts <= clock
      BY <1>1 DEF WarmInv, RecordsSound, Records, HistoryRow
    <2>2. \E r \in rows : r.uid = u
      BY DEF Recorded
    <2>3. QED
      BY <2>1, <2>2
  <1>3. LastTS(u) = CHOOSE t \in stamps : \A v \in stamps : v <= t
    BY DEF LastTS
  <1>4. \E t \in stamps : \A v \in stamps : v <= t
    <2> HIDE DEF stamps
    <2> QED
      BY <1>1, <1>2, MaxExists
  <1>5. LastTS(u) \in stamps /\ \A v \in stamps : v <= LastTS(u)
    <2> HIDE DEF stamps
    <2> QED
      BY <1>3, <1>4
  <1>6. QED
    BY <1>2, <1>5

\* An incarnation history holds open has a record other than its end as its last.
LEMMA OpenFacts ==
    ASSUME WarmInv, NEW open \in LastKnownStates
    PROVE  /\ open \subseteq Recorded
           /\ \A u \in open : \E r \in rows : r.uid = u /\ r.ts = LastTS(u) /\ r.type # "Deleted"
           /\ obj \in Recorded => obj \in open
  <1>1. open \subseteq Recorded
    BY DEF LastKnownStates
  <1>2. \A u \in open : LastTypes(u) # {"Deleted"}
    BY <1>1 DEF LastKnownStates
  <1>3. \A u \in Recorded : u \notin open => "Deleted" \in LastTypes(u)
    BY DEF LastKnownStates
  <1>4. ASSUME NEW u \in open PROVE \E r \in rows : r.uid = u /\ r.ts = LastTS(u) /\ r.type # "Deleted"
    <2>1. PICK q \in rows : q.uid = u /\ q.ts = LastTS(u)
      BY <1>1, LastTSFacts
    <2>2. q.type \in LastTypes(u)
      BY <2>1 DEF LastTypes
    <2>3. PICK t \in LastTypes(u) : t # "Deleted"
      BY <1>2, <2>2
    <2>4. QED
      BY <2>3 DEF LastTypes
  <1>5. obj \in Recorded => obj \in open
    <2>1. "Deleted" \in LastTypes(obj) => \E r \in rows : r.uid = obj /\ r.type = "Deleted"
      BY DEF LastTypes
    <2>2. QED
      BY <2>1, <1>3 DEF WarmInv, RecordsSound, ClosedIsDead
  <1>6. QED
    BY <1>1, <1>4, <1>5

\* The current incarnation is the latest of the open ones.
LEMMA CurrentFacts ==
    ASSUME WarmInv, NEW open \in LastKnownStates, open # {}
    PROVE  Current(open) \in open /\ \A u \in open : u <= Current(open)
  <1> DEFINE Leads(c) == \A other \in open : \/ LastTS(other) < LastTS(c)
                                             \/ (LastTS(other) = LastTS(c) /\ other <= c)
  <1>1. open \subseteq Recorded /\ \A u \in open : u \in Nat /\ u <= uids /\ LastTS(u) \in Nat
    <2>1. \A r \in rows : r.uid \in Nat /\ Mentions(r.uid)
      BY DEF WarmInv, RecordsSound, HistoryRow, Mentions, Records
    <2>2. \A u \in Recorded : u \in Nat /\ u <= uids
      BY <2>1 DEF Recorded, WarmInv, Views
    <2>3. QED
      BY <2>2, OpenFacts, LastTSFacts
  <1>2. \A u, v \in open : u < v => LastTS(u) < LastTS(v)
    BY OpenFacts, SMTT(60) DEF WarmInv, RecordsSound, Records
  <1>3. PICK c \in open : \A u \in open : u <= c
    BY <1>1, MaxExists DEF WarmInv, WarmTypes
  <1>4. Leads(c)
    BY <1>1, <1>2, <1>3, SMTT(60)
  <1>5. Current(open) = CHOOSE uid \in open : Leads(uid)
    BY DEF Current
  <1>6. Current(open) \in open /\ Leads(Current(open))
    <2> HIDE DEF Leads
    <2> QED
      BY <1>4, <1>5
  <1>7. QED
    BY <1>1, <1>2, <1>6, SMTT(60)

-----------------------------------------------------------------------------
\* The warm run.
LEMMA ReadKeeps == WarmInv /\ ReadHistory => WarmInv'
  <1> SUFFICES ASSUME WarmInv, ReadHistory PROVE WarmInv'
    OBVIOUS
  <1> USE DEF RunOnly, apiVars, sinkVars, watchVars, cacheVars
  <1>0. UNCHANGED <<obj, uids, rows, inserted, clock, store, synced, queued, proc, cache, ver, jobs>>
    BY DEF ReadHistory
  <1>1. PICK open \in LastKnownStates :
           LET current == IF open = {} THEN 0 ELSE Current(open)
           IN  run' = [at |-> "read", current |-> current,
                       priors |-> {[uid |-> u, ts |-> LastTS(u)] : u \in open \ {current}}]
    BY DEF ReadHistory
  <1> DEFINE current == IF open = {} THEN 0 ELSE Current(open)
             priors == {[uid |-> u, ts |-> LastTS(u)] : u \in open \ {current}}
  <1>2. run' = [at |-> "read", current |-> current, priors |-> priors]
    BY <1>1
  <1>3. \A u \in open : u \in Nat \ {0} /\ u <= uids /\ Mentions(u) /\ LastTS(u) \in Nat /\ LastTS(u) <= clock
    <2>1. \A r \in rows : r.uid \in Nat \ {0} /\ Mentions(r.uid)
      BY DEF WarmInv, RecordsSound, HistoryRow, Mentions, Records
    <2>2. \A u \in Recorded : u \in Nat \ {0} /\ Mentions(u) /\ u <= uids
      BY <2>1 DEF Recorded, WarmInv, Views
    <2>3. QED
      BY <2>2, OpenFacts, LastTSFacts
  <1>4. current = 0 \/ current \in open
    BY CurrentFacts
  <1>5. \A u \in open \ {current} : u # obj
    <2>1. SUFFICES ASSUME obj \in open PROVE current = obj
      OBVIOUS
    <2>2. Current(open) \in open /\ obj <= Current(open)
      BY <2>1, CurrentFacts
    <2>3. obj = uids /\ uids \in Nat
      BY <2>1, <1>3 DEF WarmInv, WarmTypes
    <2>4. Current(open) \in Nat /\ Current(open) <= uids
      BY <2>2, <1>3
    <2>5. current = Current(open)
      BY <2>1
    <2>6. QED
      BY <2>2, <2>3, <2>4, <2>5, SMTT(60)
  <1> HIDE DEF current
  <1>6. current \in Nat
    BY <1>3, <1>4, SMTT(60)
  <1>7. /\ priors \subseteq [uid : Nat, ts : Nat]
        /\ \A p \in priors : p.uid \notin {0, obj} /\ p.ts <= clock /\ p.uid \in open
    BY <1>3, <1>5, SMTT(60)
  <1> HIDE DEF priors
  <1>8. RunSound'
    <2>1. run' \in [at : Following, current : Nat, priors : SUBSET [uid : Nat, ts : Nat]]
      BY <1>2, <1>6, <1>7 DEF Following
    <2>2. run'.at = "read" /\ run'.priors = priors
      BY <1>2
    <2>3. QED
      BY <1>0, <1>7, <2>1, <2>2 DEF RunSound
  <1>9. \A u \in Nat : Mentions(u)' => Mentions(u) \/ u = 0
    <2>1. \A u \in Nat : RunMentions(u)' => u = current \/ \E p \in priors : p.uid = u
      BY <1>2 DEF RunMentions, Following
    <2>2. \A u \in Nat : RunMentions(u)' => Mentions(u) \/ u = 0
      BY <2>1, <1>3, <1>4, <1>7
    <2>3. QED
      BY <1>0, <2>2 DEF Mentions, Records
  <1>10. WarmTypes' /\ ProcSound' /\ RecordsSound'
    BY <1>0 DEF WarmInv, WarmTypes, ProcSound, RecordsSound, Records, ClosedIsDead
  <1>11. Views'
    BY <1>0, <1>9, ViewsKept
  <1>12. QED
    BY <1>8, <1>10, <1>11 DEF WarmInv

LEMMA RunFacts ==
    ASSUME WarmInv, run.at \in Following
    PROVE  /\ run \in [at : Following, current : Nat, priors : SUBSET [uid : Nat, ts : Nat]]
           /\ \A p \in run.priors : p.uid \in Nat \ {0, obj} /\ p.ts \in Nat /\ p.ts <= clock /\ Mentions(p.uid)
           /\ Mentions(run.current) /\ run.current \in Nat
           /\ run.at \in {"gate", "close", "gc"} => synced
           /\ run.at \notin {"read", "mark"} => run.current # 0
  <1>1. /\ run \in [at : Following, current : Nat, priors : SUBSET [uid : Nat, ts : Nat]]
        /\ \A p \in run.priors : p.uid \notin {0, obj} /\ p.ts <= clock
        /\ run.at \in {"gate", "close", "gc"} => synced
        /\ run.at \notin {"read", "mark"} => run.current # 0
    BY DEF WarmInv, RunSound, Following
  <1>2. Mentions(run.current) /\ \A p \in run.priors : Mentions(p.uid)
    BY DEF Mentions, RunMentions
  <1>3. QED
    BY <1>1, <1>2

\* A run that goes on with what it read.
LEMMA OnwardFacts ==
    ASSUME WarmInv, run.at \in Following, NEW at \in Following, run' = [run EXCEPT !.at = at],
           UNCHANGED <<obj, synced>>, clock' = clock,
           at \in {"gate", "close", "gc"} => synced,
           at \notin {"read", "mark"} => run.current # 0
    PROVE  RunSound' /\ \A u \in Nat : RunMentions(u)' => RunMentions(u)
  <1>1. run' \in [at : Following, current : Nat, priors : SUBSET [uid : Nat, ts : Nat]]
        /\ run'.at = at /\ run'.current = run.current /\ run'.priors = run.priors
    BY RunFacts
  <1>2. RunSound'
    BY <1>1, RunFacts DEF RunSound
  <1>3. QED
    BY <1>1, <1>2 DEF RunMentions, Following

LEMMA BaselineKeeps == WarmInv /\ StoreBaseline => WarmInv'
  <1> SUFFICES ASSUME WarmInv, StoreBaseline PROVE WarmInv'
    OBVIOUS
  <1> USE DEF apiVars, sinkVars, watchVars, cacheVars
  <1>0. /\ UNCHANGED <<obj, uids, rows, inserted, clock, store, synced, queued, proc, jobs>>
        /\ run.at = "read" /\ run.at \in Following /\ run' = [run EXCEPT !.at = "mark"]
        /\ "mark" \in Following
    BY DEF StoreBaseline, Following
  <1>1. \/ UNCHANGED <<cache, ver>>
        \/ /\ run.current # 0 /\ ver' = ver + 1
           /\ cache' = [uid |-> run.current, ver |-> ver + 1, deleting |-> FALSE]
    BY DEF StoreBaseline
  <1>2. RunSound' /\ \A u \in Nat : RunMentions(u)' => RunMentions(u)
    BY <1>0, OnwardFacts
  <1>3. WarmTypes'
    <2>1. CASE UNCHANGED <<cache, ver>>
      BY <1>0, <2>1 DEF WarmInv, WarmTypes
    <2>2. CASE ~UNCHANGED <<cache, ver>>
      <3>1. ver \in Nat /\ ver' \in Nat
        BY <1>1, <2>2, SMTT(60) DEF WarmInv, WarmTypes
      <3>2. cache' \in CacheEntry /\ cache'.uid # 0
        <4>1. run.current \in Nat \ {0}
          BY <1>0, <1>1, <2>2, RunFacts
        <4>2. cache' = [uid |-> run.current, ver |-> ver', deleting |-> FALSE]
          BY <1>1, <2>2
        <4>3. QED
          BY <3>1, <4>1, <4>2 DEF CacheEntry
      <3>3. QED
        BY <1>0, <3>1, <3>2 DEF WarmInv, WarmTypes
    <2>3. QED
      BY <2>1, <2>2
  <1>4. \A u \in Nat : Mentions(u)' => Mentions(u) \/ u = 0
    <2>1. cache'.uid = cache.uid \/ cache'.uid = run.current
      BY <1>1, SMTT(60)
    <2>2. QED
      BY <1>0, <1>2, <2>1, RunFacts DEF Mentions, Records
  <1>5. ProcSound' /\ RecordsSound'
    BY <1>0 DEF WarmInv, ProcSound, RecordsSound, Records, ClosedIsDead
  <1>6. Views'
    BY <1>0, <1>4, ViewsKept
  <1>7. QED
    BY <1>2, <1>3, <1>5, <1>6 DEF WarmInv

\* Steps of the run that write nothing.
LEMMA AdvanceKeeps ==
    WarmInv /\ (MarkWarm \/ AwaitScopeSync \/ ScopeWasActive \/ LookUp \/ RecoverTimesOut) => WarmInv'
  <1> SUFFICES ASSUME WarmInv, MarkWarm \/ AwaitScopeSync \/ ScopeWasActive \/ LookUp \/ RecoverTimesOut
               PROVE  WarmInv'
    OBVIOUS
  <1> USE DEF RunOnly, apiVars, sinkVars, watchVars, cacheVars
  <1>0. UNCHANGED <<obj, uids, rows, inserted, clock, store, synced, queued, proc, cache, ver, jobs>>
    BY DEF MarkWarm, AwaitScopeSync, ScopeWasActive, LookUp, RecoverTimesOut
  <1>1. RunSound' /\ \A u \in Nat : RunMentions(u)' => RunMentions(u)
    <2>1. CASE run' = [at |-> "done"]
      BY <2>1 DEF RunSound, RunMentions, Following
    <2>2. CASE run.at \in Following /\ \E at \in {"sync", "gate", "close"} : run' = [run EXCEPT !.at = at] /\ (at # "sync" => synced)
      <3>1. PICK at \in {"sync", "gate", "close"} : run' = [run EXCEPT !.at = at] /\ (at # "sync" => synced)
        BY <2>2
      <3>2. at \in Following
        BY DEF Following
      <3>3. run.current # 0
        BY <2>2, <3>1, RunFacts DEF MarkWarm, AwaitScopeSync, ScopeWasActive, LookUp,
           RecoverTimesOut
      <3>4. QED
        BY <1>0, <2>2, <3>1, <3>2, <3>3, OnwardFacts
    <2>3. CASE /\ run.at = "gc" /\ store # run.current
               /\ run' = [at |-> "got", current |-> run.current, found |-> store]
      <3>1. run.at \in Following
        BY <2>3 DEF Following
      <3>2. run.current \in Nat \ {0} /\ synced /\ Mentions(run.current)
        BY <2>3, <3>1, RunFacts
      <3>3. run.current # obj
        BY <2>3, <3>2 DEF WarmInv, Views
      <3>4. RunSound'
        BY <1>0, <2>3, <3>2, <3>3 DEF RunSound
      <3>5. QED
        BY <2>3, <3>1, <3>4 DEF RunMentions, Following
    <2>4. QED
      <3>1. run.at \in {"mark", "sync", "gate"} => run.at \in Following
        BY DEF Following
      <3>2. run.at = "gate" => synced
        BY <3>1, RunFacts
      <3>3. QED
        BY <2>1, <2>2, <2>3, <3>1, <3>2 DEF MarkWarm, AwaitScopeSync, ScopeWasActive, LookUp,
           RecoverTimesOut
  <1>2. \A u \in Nat : Mentions(u)' => Mentions(u) \/ u = 0
    BY <1>0, <1>1 DEF Mentions, Records
  <1>3. WarmTypes' /\ ProcSound' /\ RecordsSound'
    BY <1>0 DEF WarmInv, WarmTypes, ProcSound, RecordsSound, Records, ClosedIsDead
  <1>4. Views'
    BY <1>0, <1>2, ViewsKept
  <1>5. QED
    BY <1>1, <1>3, <1>4 DEF WarmInv

LEMMA ClaimKeeps == WarmInv /\ ClaimZombie => WarmInv'
  <1> SUFFICES ASSUME WarmInv, ClaimZombie PROVE WarmInv'
    OBVIOUS
  <1> USE DEF apiVars, sinkVars, watchVars
  <1>0. /\ UNCHANGED <<obj, uids, rows, inserted, clock, store, synced, queued, proc, jobs>>
        /\ run.at = "got" /\ run.current \in Nat \ {0, obj}
    BY DEF ClaimZombie, WarmInv, RunSound, Following
  <1>1. cache' \in CacheEntry /\ cache'.uid = cache.uid /\ ver \in Nat /\ ver' \in Nat
        /\ (cache' = NoEntry \/ cache'.uid # 0)
    BY ClaimFacts DEF ClaimZombie, cacheVars, WarmInv, WarmTypes
  <1>2. \/ run' = [at |-> "stamp", uid |-> run.current, ver |-> ver + 1]
        \/ run' = [at |-> "recover", target |-> run.current]
        \/ run' = [at |-> "done"]
    BY DEF ClaimZombie
  <1>3. RunSound'
    <2>1. CASE run' = [at |-> "stamp", uid |-> run.current, ver |-> ver + 1]
      BY <1>0, <1>1, <2>1, SMTT(60) DEF RunSound
    <2>2. CASE run' = [at |-> "recover", target |-> run.current]
      BY <1>0, <2>2 DEF RunSound
    <2>3. CASE run' = [at |-> "done"]
      BY <2>3 DEF RunSound
    <2>4. QED
      BY <1>2, <2>1, <2>2, <2>3
  <1>4. \A u \in Nat : RunMentions(u)' => RunMentions(u)
    BY <1>0, <1>2, SMTT(60) DEF RunMentions, Following
  <1>5. \A u \in Nat : Mentions(u)' => Mentions(u) \/ u = 0
    BY <1>0, <1>1, <1>4 DEF Mentions, Records
  <1>6. WarmTypes'
    BY <1>0, <1>1 DEF WarmInv, WarmTypes
  <1>7. ProcSound' /\ RecordsSound'
    BY <1>0 DEF WarmInv, ProcSound, RecordsSound, Records, ClosedIsDead
  <1>8. Views'
    BY <1>0, <1>5, ViewsKept
  <1>9. QED
    BY <1>3, <1>6, <1>7, <1>8 DEF WarmInv

\* A run that hands deletions to the writer, and reads no more.
LEMMA EmitKeeps == WarmInv /\ (EmitCloseOuts \/ EmitZombie \/ RecoverRefused) => WarmInv'
  <1> SUFFICES ASSUME WarmInv, EmitCloseOuts \/ EmitZombie \/ RecoverRefused PROVE WarmInv'
    OBVIOUS
  <1> USE DEF apiVars, sinkVars, watchVars, cacheVars
  <1>0. /\ UNCHANGED <<obj, uids, rows, inserted, store, synced, queued, proc, cache, ver>>
        /\ clock \in Nat /\ clock' \in {clock, clock + 1}
    BY DEF EmitCloseOuts, EmitZombie, RecoverRefused, WarmInv, WarmTypes
  <1>1. \A j \in jobs' : \/ j \in jobs
                         \/ /\ j \in WriterJob /\ j.type = "Deleted" /\ j.uid # obj /\ j.ts <= clock'
                            /\ Mentions(j.uid)
    <2>1. CASE EmitCloseOuts
      <3>1. run.at \in Following
        BY <2>1 DEF EmitCloseOuts, Following
      <3>2. \A p \in run.priors :
               /\ CloseOut(p) \in WriterJob /\ CloseOut(p).type = "Deleted"
               /\ CloseOut(p).uid = p.uid /\ CloseOut(p).ts = p.ts
        BY <3>1, RunFacts, JobFacts, SMTT(60) DEF CloseOut, RowKinds
      <3>3. jobs' = jobs \cup {CloseOut(p) : p \in run.priors} /\ clock' = clock
        BY <2>1 DEF EmitCloseOuts
      <3>4. QED
        BY <3>1, <3>2, <3>3, RunFacts, SMTT(60)
    <2>2. CASE EmitZombie
      <3>1. run.at = "stamp" /\ run.uid \in Nat \ {0, obj} /\ run.ver \in Nat
        BY <2>2 DEF EmitZombie, WarmInv, RunSound, Following
      <3>2. Mentions(run.uid)
        BY <3>1 DEF Mentions, RunMentions
      <3> DEFINE new == Job("Deleted", run.uid, clock + 1, run.ver)
      <3>3. new \in WriterJob /\ new.type = "Deleted" /\ new.uid = run.uid /\ new.ts = clock + 1
        <4>1. "Deleted" \in RowKinds /\ run.uid \in Nat \ {0} /\ clock + 1 \in Nat /\ run.ver \in Nat
          BY <1>0, <3>1, SMTT(60) DEF RowKinds
        <4>2. QED
          BY <4>1, JobFacts, SMTT(60)
      <3>4. jobs' = jobs \cup {new} /\ clock' = clock + 1
        BY <2>2 DEF EmitZombie
      <3> HIDE DEF new
      <3>5. QED
        BY <1>0, <3>1, <3>2, <3>3, <3>4, SMTT(60)
    <2>3. CASE RecoverRefused
      <3>1. run.at = "recover" /\ run.target \in Nat \ {0, obj}
        BY <2>3 DEF RecoverRefused, WarmInv, RunSound, Following
      <3>2. Mentions(run.target)
        BY <3>1 DEF Mentions, RunMentions
      <3> DEFINE new == CloseOut([uid |-> run.target, ts |-> LastTS(run.target)])
      <3>3. PICK open \in LastKnownStates : jobs' = IF run.target \in open THEN jobs \cup {new} ELSE jobs
        BY <2>3 DEF RecoverRefused
      <3>4. run.target \in open => LastTS(run.target) \in Nat /\ LastTS(run.target) <= clock
        BY OpenFacts, LastTSFacts
      <3>5. run.target \in open => /\ new \in WriterJob /\ new.type = "Deleted"
                                   /\ new.uid = run.target /\ new.ts = LastTS(run.target)
        BY <3>1, <3>4, JobFacts, SMTT(60) DEF CloseOut, RowKinds
      <3>6. clock' = clock
        BY <2>3 DEF RecoverRefused
      <3> HIDE DEF new
      <3>7. QED
        BY <3>1, <3>2, <3>3, <3>4, <3>5, <3>6
    <2>4. QED
      BY <2>1, <2>2, <2>3
  <1>2. RunSound' /\ \A u \in Nat : RunMentions(u)' => RunMentions(u)
    <2>1. CASE run' = [at |-> "done"]
      BY <2>1 DEF RunSound, RunMentions, Following
    <2>2. CASE EmitCloseOuts
      <3>1. run.at \in Following /\ "gc" \in Following /\ run.at = "close" /\ run' = [run EXCEPT !.at = "gc"] /\ clock' = clock
        BY <2>2 DEF EmitCloseOuts, Following
      <3>2. QED
        BY <1>0, <3>1, OnwardFacts, RunFacts
    <2>3. QED
      BY <2>1, <2>2 DEF EmitZombie, RecoverRefused
  <1>3. WarmTypes'
    BY <1>0, SMTT(60) DEF WarmInv, WarmTypes
  <1>4. ProcSound'
    BY <1>0 DEF WarmInv, ProcSound
  <1>5. RecordsSound'
    <2>1. rows' \subseteq HistoryRow /\ jobs' \subseteq WriterJob
      BY <1>0, <1>1 DEF WarmInv, RecordsSound
    <2>2. \A r \in Records' : r \in Records \/ (r.type = "Deleted" /\ r.uid # obj /\ r.ts <= clock')
      BY <1>0, <1>1 DEF Records
    <2>3. QED
      BY <1>0, <2>1, <2>2, RecordsKept, SMTT(60)
  <1>6. \A u \in Nat : Mentions(u)' => Mentions(u) \/ u = 0
    BY <1>0, <1>1, <1>2 DEF Mentions, Records
  <1>7. Views'
    BY <1>0, <1>6, ViewsKept
  <1>8. QED
    BY <1>2, <1>3, <1>4, <1>5, <1>7 DEF WarmInv

-----------------------------------------------------------------------------
LEMMA WarmInit == Init => WarmInv
  <1> SUFFICES ASSUME Init PROVE WarmInv
    OBVIOUS
  <1> USE DEF Init
  <1>1. WarmTypes
    <2>1. synced \in BOOLEAN /\ (queued => synced)
      OBVIOUS
    <2>2. cache \in CacheEntry /\ cache = NoEntry
      BY NoEntryType
    <2>3. QED
      BY <2>1, <2>2, SMTT(60) DEF WarmTypes
  <1>2. RunSound /\ ProcSound
    BY DEF RunSound, ProcSound
  <1>3. RecordsSound
    BY DEF RecordsSound, Records, ClosedIsDead
  <1>4. \A u \in Nat : Mentions(u) => u = 0
    BY NoEntryType DEF Mentions, RunMentions, Records, Following
  <1>5. Views
    BY <1>4, SMTT(60) DEF Views, Upserting, NoProc
  <1>6. QED
    BY <1>1, <1>2, <1>3, <1>5 DEF WarmInv

LEMMA WarmStep == WarmInv /\ [Next]_vars => WarmInv'
  <1> SUFFICES ASSUME WarmInv, [Next]_vars PROVE WarmInv'
    OBVIOUS
  <1>1. CASE UNCHANGED vars
    <2>1. UNCHANGED <<obj, uids, rows, inserted, clock, store, synced, queued, proc, cache, ver, jobs, run>>
      BY <1>1 DEF vars, apiVars, sinkVars, watchVars, cacheVars
    <2>2. WarmTypes' /\ RunSound' /\ ProcSound' /\ RecordsSound'
      BY <2>1, SMTT(60) DEF WarmInv, WarmTypes, RunSound, ProcSound, RecordsSound, Records, ClosedIsDead
    <2>3. \A u \in Nat : Mentions(u)' => Mentions(u)
      BY <2>1 DEF Mentions, RunMentions, Records
    <2>4. QED
      BY <2>1, <2>2, <2>3, ViewsKept DEF WarmInv
  <1>2. CASE Process
    BY <1>2, GetKeeps, AbsentKeeps, LoadKeeps, UpsertKeeps, EnqueueKeeps DEF Process
  <1>3. CASE WarmRun
    BY <1>3, ReadKeeps, BaselineKeeps, AdvanceKeeps, ClaimKeeps, EmitKeeps DEF WarmRun
  <1>4. QED
    BY <1>1, <1>2, <1>3, ObjectKeeps, InformerKeeps, ProcessEndsKeep, SinkKeeps, AdvanceKeeps DEF Next

\* Whatever is closed is dead, for any number of incarnations, crashes and
\* expiries: no Deleted row, inserted or on its way, names the object that exists
\* (emitDelete's UID gate, the wait for the informer, the evidence a close-out
\* waits for).
THEOREM WhatIsClosedIsDead == Spec => []ClosedIsDead
  <1>1. Spec => []WarmInv
    BY WarmInit, WarmStep, PTL DEF Spec
  <1>2. WarmInv => ClosedIsDead
    BY DEF WarmInv, RecordsSound
  <1>3. QED
    BY <1>1, <1>2, PTL

-----------------------------------------------------------------------------
\* The warm coordinator.
Run == [scope : Scopes, epoch : Nat \ {0}, cancelled : BOOLEAN, at : {"seed", "mark", "reconcile"}]
Request == [scope : Scopes, epoch : Nat \ {0}]
Pass == [at : {"replace", "start", "stop", "evict"}, scope : Scopes, ts : Nat \ {0}]

\* A request that waits for Start is the only one of its scope and of the epoch that is
\* served, and a scope that is about to be started has none, and no run that was not
\* cancelled.
Unclaimed ==
    /\ served[pass.scope] = pass.ts
    /\ \A p \in pending : p.scope # pass.scope
    /\ \A g \in gor : g.scope = pass.scope => g.cancelled

LifeInv ==
    /\ now \in Nat /\ runs \in [Scopes -> Nat] /\ served \in [Scopes -> Nat]
    /\ gor \subseteq Run
    /\ pending \subseteq Request
    /\ \A p \in pending : served[p.scope] = p.epoch \/ Stopping(p.scope)
    /\ \A p, q \in pending : p.scope = q.scope => p.epoch = q.epoch
    /\ pass = Idle \/ pass \in Pass
    /\ pass.at = "start" => Unclaimed
    /\ LiveRunIsCurrent

LEMMA CancelledFacts ==
    ASSUME gor \subseteq Run, NEW W, NEW h \in Cancelled(W)
    PROVE  h \in Run /\ (h.cancelled \/ (h \in gor /\ h.scope \notin W))
  <1>1. PICK g \in gor : h = IF g.scope \in W THEN [g EXCEPT !.cancelled = TRUE] ELSE g
    BY DEF Cancelled
  <1>2. g \in Run
    OBVIOUS
  <1>3. [g EXCEPT !.cancelled = TRUE] \in Run /\ [g EXCEPT !.cancelled = TRUE].cancelled
    BY <1>2 DEF Run
  <1>4. QED
    BY <1>1, <1>2, <1>3

LEMMA GoroutineFacts ==
    ASSUME NEW s \in Scopes, NEW e \in Nat \ {0}
    PROVE  /\ Goroutine(s, e) \in Run
           /\ Goroutine(s, e).scope = s /\ Goroutine(s, e).epoch = e
  BY DEF Run, Goroutine

\* Every run is told to stop.
LEMMA AllCancelled ==
    ASSUME LifeInv, gor' = Cancelled(Scopes)
    PROVE  gor' \subseteq Run /\ LiveRunIsCurrent' /\ \A h \in gor' : h.cancelled
  <1>1. \A h \in gor' : h \in Run /\ h.cancelled
    BY CancelledFacts, SMTT(60) DEF LifeInv, Run
  <1>2. QED
    BY <1>1 DEF LiveRunIsCurrent

\* Start and stop of the coordinator, and the sink that is forgotten.
LEMMA CoordinatorKeeps ==
    ASSUME LifeInv, Start \/ Stop \/ Ended \/ ForgetSink
    PROVE  LifeInv'
  <1>1. CASE Start
    <2>1. /\ UNCHANGED <<served, pass, now>> /\ pending' = {}
      BY <1>1 DEF Start, manVars
    <2> DEFINE newest == {p \in pending : \A q \in pending : q.scope = p.scope => q.epoch <= p.epoch}
    <2>2. /\ gor' = {[Goroutine(p.scope, p.epoch) EXCEPT !.cancelled = p \notin newest] : p \in pending}
          /\ runs' = [s \in Scopes |->
                         IF \E p \in newest : p.scope = s
                         THEN (CHOOSE p \in newest : p.scope = s).epoch ELSE 0]
      BY <1>1 DEF Start
    <2>3. \A p \in pending : p \in newest /\ p.scope \in Scopes /\ p.epoch \in Nat \ {0}
      BY SMTT(60) DEF LifeInv, Request
    <2>4. \A s \in Scopes : /\ \A p \in pending : p.scope = s => runs'[s] = p.epoch
                            /\ runs'[s] \in Nat
      <3> SUFFICES ASSUME NEW s \in Scopes
                   PROVE  /\ \A p \in pending : p.scope = s => runs'[s] = p.epoch
                          /\ runs'[s] \in Nat
        OBVIOUS
      <3>1. newest = pending
        BY <2>3
      <3> HIDE DEF newest
      <3>2. CASE \E p \in newest : p.scope = s
        <4>1. PICK p \in pending : p.scope = s /\ runs'[s] = p.epoch
          BY <2>2, <3>1, <3>2
        <4>2. QED
          BY <2>3, <4>1 DEF LifeInv
      <3>3. CASE ~\E p \in newest : p.scope = s
        BY <2>2, <3>1, <3>3
      <3>4. QED
        BY <3>2, <3>3
    <2>5. ASSUME NEW g \in gor' PROVE g \in Run /\ \E p \in pending : p.scope = g.scope /\ p.epoch = g.epoch
      <3>1. PICK p \in pending : g = [Goroutine(p.scope, p.epoch) EXCEPT !.cancelled = p \notin newest]
        BY <2>2
      <3>2. (p \notin newest) \in BOOLEAN
        OBVIOUS
      <3> HIDE DEF newest
      <3>3. QED
        BY <2>3, <3>1, <3>2 DEF Goroutine, Run
    <2>6. runs' \in [Scopes -> Nat]
      BY <2>2, <2>4
    <2>7. LiveRunIsCurrent'
      BY <2>1, <2>3, <2>4, <2>5 DEF LifeInv, LiveRunIsCurrent, Stopping
    <2>8. pass.at = "start" => Unclaimed'
      BY <2>1, <2>5 DEF LifeInv, Unclaimed
    <2>9. QED
      BY <2>1, <2>5, <2>6, <2>7, <2>8 DEF LifeInv, Stopping
  <1>2. CASE Stop \/ ForgetSink
    <2>1. /\ gor' = Cancelled(Scopes) /\ runs' = [s \in Scopes |-> 0]
          /\ UNCHANGED <<served, pass, now>> /\ pending' \in {pending, {}}
      BY <1>2 DEF Stop, ForgetSink, manVars
    <2>2. gor' \subseteq Run /\ LiveRunIsCurrent' /\ \A h \in gor' : h.cancelled
      BY <2>1, AllCancelled
    <2>3. pass.at = "start" => Unclaimed'
      BY <2>1, <2>2 DEF LifeInv, Unclaimed
    <2>4. QED
      BY <2>1, <2>2, <2>3 DEF LifeInv, Stopping
  <1>3. CASE Ended
    BY <1>3 DEF Ended, manVars, LifeInv, LiveRunIsCurrent, Stopping, Unclaimed
  <1>4. QED
    BY <1>1, <1>2, <1>3

\* A pass of the watch manager over a scope.
LEMMA PassKeeps ==
    ASSUME LifeInv,
           \/ \E s \in Scopes : BeginPass(s)
           \/ Replace \/ ScopeStarted \/ ScopeStopped \/ EvictScope
    PROVE  LifeInv'
  <1>1. ASSUME NEW s \in Scopes, BeginPass(s) PROVE LifeInv'
    <2>1. UNCHANGED <<pending, runs, gor, served>> /\ now' = now + 1
      BY <1>1 DEF BeginPass, coordVars
    <2>2. pass' \in Pass /\ pass'.at = "replace" /\ pass.at = "idle"
      BY <1>1, SMTT(60) DEF BeginPass, LifeInv, Pass, Idle
    <2>3. now' \in Nat
      BY <2>1, SMTT(60) DEF LifeInv
    <2>4. LiveRunIsCurrent'
      BY <2>1, <2>2 DEF LifeInv, LiveRunIsCurrent, Stopping
    <2>5. QED
      BY <2>1, <2>2, <2>3, <2>4 DEF LifeInv, Stopping
  <1>2. CASE Replace
    <2> DEFINE s == pass.scope
    <2>1. pass \in Pass /\ pass.at = "replace" /\ s \in Scopes /\ pass.ts \in Nat \ {0}
      BY <1>2, SMTT(60) DEF Replace, LifeInv, Pass, Idle
    <2>2. /\ served' = [served EXCEPT ![s] = IF Desired(s) THEN 0 ELSE pass.ts]
          /\ pass' = [pass EXCEPT !.at = IF Desired(s) THEN "stop" ELSE "start"]
          /\ UNCHANGED <<pending, runs, gor, now>>
      BY <1>2 DEF Replace, coordVars
    <2>3. /\ pass' \in Pass /\ pass'.scope = s /\ pass'.ts = pass.ts
          /\ pass'.at = IF Desired(s) THEN "stop" ELSE "start"
      BY <2>1, <2>2 DEF Pass
    <2>4. /\ served' \in [Scopes -> Nat] /\ \A q \in Scopes : q # s => served'[q] = served[q]
          /\ ~Desired(s) => served'[s] = pass.ts
      BY <2>1, <2>2 DEF LifeInv
    <2>5. /\ \A p \in pending : p.scope \in Scopes /\ served[p.scope] = p.epoch /\ p.epoch # 0
          /\ \A g \in gor : g.scope \in Scopes /\ g.epoch # 0
                          /\ (~g.cancelled => runs[g.scope] = g.epoch /\ served[g.scope] = g.epoch)
      BY <2>1 DEF LifeInv, LiveRunIsCurrent, Stopping, Request, Run
    <2>6. CASE Desired(s)
      <3>1. pass'.at = "stop"
        BY <2>3, <2>6
      <3>2. \A p \in pending : served'[p.scope] = p.epoch \/ Stopping(p.scope)'
        BY <2>2, <2>3, <2>4, <2>5, <3>1 DEF Stopping
      <3>3. LiveRunIsCurrent'
        BY <2>2, <2>3, <2>4, <2>5, <3>1 DEF LiveRunIsCurrent, Stopping
      <3>4. QED
        BY <2>2, <2>3, <2>4, <3>1, <3>2, <3>3 DEF LifeInv, Stopping
    <2>7. CASE ~Desired(s)
      <3>1. /\ \A p \in pending : p.scope # s
            /\ \A g \in gor : g.scope = s => g.cancelled
        BY <2>5, <2>7 DEF Desired
      <3>2. Unclaimed'
        BY <2>2, <2>3, <2>4, <2>7, <3>1 DEF Unclaimed
      <3>3. LiveRunIsCurrent' /\ \A p \in pending : served'[p.scope] = p.epoch
        BY <2>2, <2>4, <2>5, <3>1 DEF LiveRunIsCurrent
      <3>4. QED
        BY <2>2, <2>3, <2>4, <3>2, <3>3 DEF LifeInv, Stopping
    <2>8. QED
      BY <2>6, <2>7
  <1>3. CASE ScopeStarted
    <2> DEFINE s == pass.scope
               e == pass.ts
    <2>a. pass.at = "start" /\ pass # Idle
      BY <1>3, SMTT(60) DEF ScopeStarted, Idle
    <2>b. pass \in Pass /\ Unclaimed /\ \A q \in Scopes : ~Stopping(q)
      BY <2>a DEF LifeInv, Stopping
    <2>1. /\ pass \in Pass /\ s \in Scopes /\ e \in Nat \ {0} /\ served[s] = e
          /\ \A g \in gor : g.scope = s => g.cancelled
          /\ \A p \in pending : p.scope # s
      BY <2>b DEF Pass, Unclaimed
    <2>2. pass' = Idle /\ UNCHANGED <<served, now>> /\ WarmScope(s, e)
      BY <1>3 DEF ScopeStarted
    <2> HIDE DEF s, e
    <2>3. served' \in [Scopes -> Nat] /\ served'[s] = e /\ \A q \in Scopes : served'[q] = served[q]
      BY <2>1, <2>2 DEF LifeInv
    <2>4. \A g \in gor : ~g.cancelled => g.scope # s /\ runs[g.scope] = g.epoch /\ served[g.scope] = g.epoch
      BY <2>b, <2>1 DEF LifeInv, Run, LiveRunIsCurrent
    <2>6. \A p \in pending : p \in Request /\ served'[p.scope] = p.epoch
      BY <2>b, <2>3 DEF LifeInv, Request
    <2>7. /\ pending' \subseteq Request /\ \A p \in pending' : served'[p.scope] = p.epoch
          /\ \A p, q \in pending' : p.scope = q.scope => p.epoch = q.epoch
      <3>1. pending' = pending \/ pending' = pending \cup {[scope |-> s, epoch |-> e]}
        BY <2>2 DEF WarmScope
      <3>2. [scope |-> s, epoch |-> e] \in Request
        BY <2>1 DEF Request
      <3>3. QED
        BY <2>3, <2>6, <3>1, <3>2, SMTT(60)
    <2>8. runs' \in [Scopes -> Nat] /\ gor' \subseteq Run /\ LiveRunIsCurrent'
      <3>1. CASE UNCHANGED <<runs, gor>>
        BY <2>3, <2>4, <3>1 DEF LifeInv, LiveRunIsCurrent, Run
      <3>2. CASE /\ runs' = [runs EXCEPT ![s] = e]
                 /\ gor' = Cancelled({s}) \cup {Goroutine(s, e)}
        <4>1. runs' \in [Scopes -> Nat] /\ runs'[s] = e /\ \A q \in Scopes : q # s => runs'[q] = runs[q]
          BY <2>1, <3>2 DEF LifeInv
        <4>2. ASSUME NEW h \in gor'
              PROVE  h \in Run /\ (~h.cancelled => runs'[h.scope] = h.epoch /\ served'[h.scope] = h.epoch)
          <5>1. CASE h \in Cancelled({s})
            <6>1. h \in Run /\ (h.cancelled \/ (h \in gor /\ h.scope # s))
              BY <5>1, CancelledFacts DEF LifeInv
            <6>2. QED
              BY <2>3, <2>4, <4>1, <6>1, SMTT(60) DEF Run
          <5>2. CASE h = Goroutine(s, e)
            BY <2>1, <2>3, <4>1, <5>2, GoroutineFacts
          <5>3. QED
            BY <3>2, <5>1, <5>2
        <4>3. QED
          BY <4>1, <4>2 DEF LiveRunIsCurrent
      <3>3. QED
        BY <2>2, <3>1, <3>2 DEF WarmScope, StartLocked
    <2>9. QED
      BY <2>2, <2>3, <2>7, <2>8, SMTT(60) DEF LifeInv, Idle
  <1>4. CASE ScopeStopped
    <2> DEFINE s == pass.scope
    <2>1. pass \in Pass /\ s \in Scopes /\ \A q : q # s => ~Stopping(q)
      BY <1>4, SMTT(60) DEF ScopeStopped, LifeInv, Pass, Idle, Stopping
    <2>2. /\ UNCHANGED served /\ pass' = [pass EXCEPT !.at = "evict"] /\ UNCHANGED now
          /\ gor' = Cancelled({s}) /\ runs' = [runs EXCEPT ![s] = 0]
          /\ pending' = {p \in pending : p.scope # s}
      BY <1>4 DEF ScopeStopped, StopScope
    <2>3. pass' \in Pass /\ pass'.at = "evict"
      BY <2>1, <2>2 DEF Pass
    <2> HIDE DEF s
    <2>4. /\ served' \in [Scopes -> Nat] /\ runs' \in [Scopes -> Nat]
          /\ \A q \in Scopes : q # s => served'[q] = served[q] /\ runs'[q] = runs[q]
      BY <2>1, <2>2 DEF LifeInv
    <2>5. \A h \in gor' : h \in Run /\ (h.cancelled \/ (h \in gor /\ h.scope # s))
      BY <2>2, CancelledFacts DEF LifeInv
    <2>6. pending' \subseteq Request /\ \A p \in pending' : served'[p.scope] = p.epoch
      BY <2>1, <2>2, <2>4 DEF LifeInv, Request
    <2>7. gor' \subseteq Run /\ LiveRunIsCurrent'
      BY <2>1, <2>4, <2>5 DEF LifeInv, LiveRunIsCurrent, Run
    <2>8. QED
      BY <2>2, <2>3, <2>4, <2>6, <2>7 DEF LifeInv
  <1>5. CASE EvictScope
    <2>1. pass.at = "evict" /\ pass' = Idle /\ UNCHANGED <<pending, runs, gor, served, now>>
      BY <1>5 DEF EvictScope, coordVars
    <2>2. pass'.at # "start" /\ \A q \in Scopes : ~Stopping(q)
      BY <2>1, SMTT(60) DEF Idle, Stopping
    <2>3. QED
      BY <2>1, <2>2 DEF LifeInv, LiveRunIsCurrent, Request, Run
  <1>6. QED
    BY <1>1, <1>3, <1>4, <1>5, <1>2

\* A run moves on, or ends.
LEMMA RunKeeps == ASSUME LifeInv, NEW g \in gor, RunStep(g) PROVE LifeInv'
  <1>1. UNCHANGED <<pending, runs, served, pass, now>>
    BY DEF RunStep, manVars
  <1>2. PICK at \in {"mark", "reconcile"} :
           gor' = gor \ {g} \/ gor' = (gor \ {g}) \cup {[g EXCEPT !.at = at]}
    BY DEF RunStep
  <1> DEFINE h == [g EXCEPT !.at = at]
  <1>3. h \in Run /\ h.scope = g.scope /\ h.epoch = g.epoch /\ h.cancelled = g.cancelled
    BY DEF LifeInv, Run
  <1>4. gor' \subseteq Run /\ LiveRunIsCurrent'
    <2>1. \A i \in gor' : i \in gor \/ i = h
      BY <1>2
    <2> HIDE DEF h
    <2>2. gor' \subseteq Run
      BY <1>3, <2>1 DEF LifeInv
    <2>3. LiveRunIsCurrent'
      BY <1>1, <1>3, <2>1 DEF LifeInv, LiveRunIsCurrent, Stopping
    <2>4. QED
      BY <2>2, <2>3, SMTT(60)
  <1>5. pass.at = "start" => Unclaimed'
    <2>1. \A i \in gor' : i \in gor \/ i = h
      BY <1>2
    <2> HIDE DEF h
    <2>2. QED
      BY <1>1, <1>3, <2>1 DEF LifeInv, Unclaimed
  <1>6. QED
    BY <1>1, <1>4, <1>5 DEF LifeInv, Stopping

\* The log, the boot pass and the sink's comings and goings.
LEMMA SurroundingsKeep ==
    ASSUME LifeInv, \/ Settle \/ Flush \/ Boot \/ SinkComes \/ SinkGone
                    \/ UNCHANGED lifeVars
    PROVE  LifeInv'
  <1>1. UNCHANGED <<pending, runs, gor, served, pass>> /\ now' \in {now, now + 1}
    BY DEF Settle, Flush, Boot, BootRead, BootCheck, BootStamp,
           BootFails, MarkBootReconciled, SinkComes, SinkGone,
           lifeVars, coordVars, manVars
  <1>2. QED
    BY <1>1, SMTT(60) DEF LifeInv, LiveRunIsCurrent, Stopping, Unclaimed

LEMMA LifeStep == LifeInv /\ [CoordNext]_lifeVars => LifeInv'
  BY CoordinatorKeeps, PassKeeps, RunKeeps, SurroundingsKeep DEF CoordNext

LEMMA LifeInit == CoordInit => LifeInv
  BY SMTT(60) DEF CoordInit, LifeInv, Idle, LiveRunIsCurrent

\* A warm run that was not cancelled is the registered run of the epoch its scope is
\* served in, whatever starts, stops and deletions of the sink came before, until the
\* pass that drops the scope has told the coordinator: neither a stopped scope nor a
\* superseded epoch has a run that may still write (WarmScope, StopScope, startLocked,
\* ForgetSink).
THEOREM OnlyTheCurrentRunWrites == CoordSpec => []LiveRunIsCurrent
  <1>1. LifeInv => LiveRunIsCurrent
    BY DEF LifeInv
  <1>2. QED
    BY <1>1, LifeInit, LifeStep, PTL DEF CoordSpec

-----------------------------------------------------------------------------
\* The rows and jobs of one instant are of one incarnation, and only the first of
\* them may be other than its end: what a merge keeps closes what it drops.
SameInstant ==
    /\ \A r \in rows : r.at <= inserted
    /\ \A r, s \in rows : r.ts = s.ts => r.uid = s.uid /\ (r.at < s.at => s.type = "Deleted")
    /\ \A j \in jobs, r \in rows : j.ts = r.ts => j.uid = r.uid /\ j.type = "Deleted"
    /\ \A j, i \in jobs : j.ts = i.ts => j.uid = i.uid /\ (j.type # "Deleted" => i = j)

\* The steps of a run that holds the prior incarnations it read, and of one that
\* has seeded the cache.
Priming == {"read", "mark", "sync", "gate", "close"}
Seeded == {"mark", "sync", "gate", "close", "gc"}

PriorsDated == run.at \in Priming => \A p \in run.priors : \E r \in rows : r.uid = p.uid /\ r.ts = p.ts

\* A claim's version is that of no entry but the one it claimed.
Claims(v) == v \in 1 .. ver /\ (v = cache.ver => cache.deleting)

VersionsSound ==
    /\ cache.ver <= ver /\ (cache # NoEntry => cache.ver > 0)
    /\ \A j \in jobs : j.type = "Deleted" => j.ver = 0 \/ Claims(j.ver)
    /\ proc.at = "stamp" /\ proc.type = "Deleted" => Claims(proc.ver)
    /\ run.at = "stamp" => Claims(run.ver)

DownSound == ~up => cache = NoEntry /\ jobs = {} /\ proc = NoProc /\ run = NoRun /\ store = 0 /\ ~queued

Ledger == SameInstant /\ PriorsDated /\ VersionsSound /\ DownSound /\ timeouts \in Nat

LEMMA RecordTypes ==
    ASSUME WarmInv
    PROVE  /\ \A r \in Records : r.uid \in Nat \ {0} /\ r.ts \in Nat /\ r.ts <= clock
           /\ clock \in Nat /\ inserted \in Nat /\ ver \in Nat
           /\ cache \in CacheEntry /\ cache.uid \in Nat /\ cache.ver \in Nat /\ cache.deleting \in BOOLEAN
           /\ cache # NoEntry <=> cache.uid # 0
           /\ \A r \in rows : r.at \in Nat
  <1>1. \A r \in Records : r.uid \in Nat \ {0} /\ r.ts \in Nat /\ r.ts <= clock
    BY DEF WarmInv, RecordsSound, Records, HistoryRow, WriterJob
  <1>2. \A r \in rows : r.at \in Nat
    BY DEF WarmInv, RecordsSound, HistoryRow
  <1>3. cache \in CacheEntry /\ (cache # NoEntry <=> cache.uid # 0)
    BY NoEntryType DEF WarmInv, WarmTypes
  <1>4. cache.uid \in Nat /\ cache.ver \in Nat /\ cache.deleting \in BOOLEAN
    BY <1>3 DEF CacheEntry
  <1>5. QED
    BY <1>1, <1>2, <1>3, <1>4 DEF WarmInv, WarmTypes

LEMMA FreshInstant ==
    ASSUME WarmInv, SameInstant, NEW n, n.ts = clock + 1, jobs' = jobs \cup {n}, UNCHANGED <<rows, inserted>>
    PROVE  SameInstant'
  <1>1. \A r \in Records : r.ts # n.ts
    BY RecordTypes, SMTT(60)
  <1>2. \A r \in rows : r.ts # n.ts
    BY <1>1 DEF Records
  <1>3. \A j \in jobs : j.ts # n.ts
    BY <1>1 DEF Records
  <1>4. QED
    BY <1>2, <1>3 DEF SameInstant

LEMMA DatedInstant ==
    ASSUME WarmInv, SameInstant, UNCHANGED <<rows, inserted>>,
           \A j \in jobs' : \/ j \in jobs
                            \/ j.type = "Deleted" /\ \E r \in rows : r.uid = j.uid /\ r.ts = j.ts
    PROVE  SameInstant'
  <1>1. \A j \in jobs', r \in rows : j.ts = r.ts => j.uid = r.uid /\ j.type = "Deleted"
    BY SMTT(60) DEF SameInstant
  <1>2. \A j, i \in jobs' : j.ts = i.ts => j.uid = i.uid /\ (j.type # "Deleted" => i = j)
    BY <1>1, SMTT(60) DEF SameInstant
  <1>3. QED
    BY <1>1, <1>2 DEF SameInstant

LEMMA LandInstant ==
    ASSUME WarmInv, SameInstant, NEW j \in jobs, Land(j)
    PROVE  SameInstant'
  <1> DEFINE n == [type |-> j.type, uid |-> j.uid, ts |-> j.ts, at |-> inserted + 1]
  <1>1. rows' = rows \cup {n} /\ inserted' = inserted + 1 /\ jobs' = jobs \ {j}
    BY DEF Land
  <1>2. n.type = j.type /\ n.uid = j.uid /\ n.ts = j.ts /\ n.at = inserted + 1
    OBVIOUS
  <1> HIDE DEF n
  <1>3. \A r \in rows' : r.at <= inserted'
    BY <1>1, <1>2, RecordTypes, SMTT(60) DEF SameInstant
  <1>4. \A r \in rows : ~(n.at < r.at)
    BY <1>2, RecordTypes, SMTT(60) DEF SameInstant
  <1>5. ~(n.at < n.at)
    BY <1>2, RecordTypes, SMTT(60)
  <1>6. \A r, s \in rows' : r.ts = s.ts => r.uid = s.uid /\ (r.at < s.at => s.type = "Deleted")
    BY <1>1, <1>2, <1>4, <1>5, SMTT(60) DEF SameInstant
  <1>7. \A i \in jobs', r \in rows' : i.ts = r.ts => i.uid = r.uid /\ i.type = "Deleted"
    BY <1>1, <1>2, SMTT(60) DEF SameInstant
  <1>8. QED
    BY <1>1, <1>3, <1>6, <1>7 DEF SameInstant

\* A record stamped now, and one dated by the history.
Fresh(n, type, uid, v) == n.type = type /\ n.uid = uid /\ n.ts = clock + 1 /\ n.ver = v
Dated(n, uid, ts) == n.type = "Deleted" /\ n.uid = uid /\ n.ts = ts /\ n.ver = 0

LEMMA FreshFacts ==
    ASSUME NEW type, NEW uid, NEW v
    PROVE  Fresh(Job(type, uid, clock + 1, v), type, uid, v)
  BY DEF Fresh, Job

LEMMA DatedFacts ==
    ASSUME NEW uid, NEW ts
    PROVE  Dated(CloseOut([uid |-> uid, ts |-> ts]), uid, ts)
  BY DEF Dated, CloseOut, Job

LEMMA RebornFacts ==
    ASSUME ProcessReborn
    PROVE  \/ ~MayClaim(proc.old) /\ UNCHANGED <<clock, jobs>>
           \/ /\ MayClaim(proc.old) /\ clock' = clock + 1
              /\ \E n : Fresh(n, "Deleted", proc.old, 0) /\ jobs' = jobs \cup {n}
  BY FreshFacts DEF ProcessReborn

LEMMA EnqueueFacts ==
    ASSUME ProcessEnqueue
    PROVE  clock' = clock + 1 /\ \E n : Fresh(n, proc.type, proc.uid, proc.ver) /\ jobs' = jobs \cup {n}
  BY FreshFacts DEF ProcessEnqueue

LEMMA ZombieFacts ==
    ASSUME EmitZombie
    PROVE  clock' = clock + 1 /\ \E n : Fresh(n, "Deleted", run.uid, run.ver) /\ jobs' = jobs \cup {n}
  BY FreshFacts DEF EmitZombie

LEMMA CloseOutFacts ==
    ASSUME PriorsDated, EmitCloseOuts
    PROVE  /\ \A j \in jobs' : j \in jobs \/ \E p \in run.priors, r \in rows :
                                               Dated(j, p.uid, p.ts) /\ r.uid = p.uid /\ r.ts = p.ts
           /\ \A p \in run.priors : \E j \in jobs' : Dated(j, p.uid, p.ts)
           /\ jobs \subseteq jobs'
  <1>1. jobs' = jobs \cup {CloseOut(p) : p \in run.priors}
    BY DEF EmitCloseOuts
  <1>2. \A p \in run.priors : Dated(CloseOut(p), p.uid, p.ts)
    BY DEF Dated, CloseOut, Job
  <1>3. \A p \in run.priors : \E r \in rows : r.uid = p.uid /\ r.ts = p.ts
    BY DEF PriorsDated, EmitCloseOuts, Priming
  <1>4. QED
    BY <1>1, <1>2, <1>3

LEMMA RecoverFacts ==
    ASSUME RecoverRefused
    PROVE  \E open \in LastKnownStates :
              \/ run.target \notin open /\ jobs' = jobs
              \/ /\ run.target \in open
                 /\ \E n : Dated(n, run.target, LastTS(run.target)) /\ jobs' = jobs \cup {n}
  BY DatedFacts DEF RecoverRefused

\* The steps that change what is recorded, and the others.
LEMMA RecordingSteps ==
    ASSUME Next
    PROVE  \/ UNCHANGED <<rows, inserted, jobs>>
           \/ UNCHANGED <<rows, inserted>> /\ (Crash \/ ProcessReborn \/ ProcessEnqueue \/ EmitCloseOuts
                                               \/ EmitZombie \/ RecoverRefused)
           \/ \E j \in jobs : Land(j)
           \/ Merge
  <1> USE DEF sinkVars, RunOnly
  <1>1. CASE Process
    BY <1>1 DEF Process, ProcessGet, ProcessAbsent, ProcessLoad, ProcessMissed, ProcessReborn,
       ProcessEnqueue
  <1>2. CASE WarmRun
    BY <1>2 DEF WarmRun, ReadHistory, StoreBaseline, MarkWarm, AwaitScopeSync, ScopeWasActive,
       EmitCloseOuts, LookUp, ClaimZombie, EmitZombie, RecoverRefused
  <1>3. QED
    BY <1>1, <1>2 DEF Next, CreateOrDelete, InformerSees, Crash, Restart, LogStarted, RecoverTimesOut

LEMMA InstantStep == WarmInv /\ Ledger /\ Next => SameInstant'
  <1> SUFFICES ASSUME WarmInv, Ledger, Next PROVE SameInstant'
    OBVIOUS
  <1>0. SameInstant /\ PriorsDated
    BY DEF Ledger
  <1>1. CASE UNCHANGED <<rows, inserted, jobs>>
    BY <1>0, <1>1 DEF SameInstant
  <1>2. CASE UNCHANGED <<rows, inserted>> /\ Crash
    BY <1>0, <1>2 DEF SameInstant, Crash
  <1>3. CASE UNCHANGED <<rows, inserted>> /\ (ProcessReborn \/ ProcessEnqueue \/ EmitZombie)
    <2>1. jobs' = jobs \/ \E n : n.ts = clock + 1 /\ jobs' = jobs \cup {n}
      BY <1>3, RebornFacts, EnqueueFacts, ZombieFacts DEF Fresh
    <2>2. CASE jobs' = jobs
      BY <1>0, <1>3, <2>2 DEF SameInstant
    <2>3. CASE jobs' # jobs
      BY <1>0, <1>3, <2>1, <2>3, FreshInstant
    <2>4. QED
      BY <2>2, <2>3
  <1>4. CASE UNCHANGED <<rows, inserted>> /\ EmitCloseOuts
    <2>1. \A j \in jobs' : \/ j \in jobs
                           \/ j.type = "Deleted" /\ \E r \in rows : r.uid = j.uid /\ r.ts = j.ts
      <3>1. ASSUME NEW j \in jobs', j \notin jobs
            PROVE  j.type = "Deleted" /\ \E r \in rows : r.uid = j.uid /\ r.ts = j.ts
        <4>1. PICK p \in run.priors, r \in rows : Dated(j, p.uid, p.ts) /\ r.uid = p.uid /\ r.ts = p.ts
          BY <1>0, <1>4, <3>1, CloseOutFacts
        <4>2. QED
          BY <4>1 DEF Dated
      <3>2. QED
        BY <3>1
    <2>2. QED
      BY <1>0, <1>4, <2>1, DatedInstant
  <1>5. CASE UNCHANGED <<rows, inserted>> /\ RecoverRefused
    <2>1. \A open \in LastKnownStates : run.target \in open =>
             \E r \in rows : r.uid = run.target /\ r.ts = LastTS(run.target)
      BY OpenFacts
    <2>2. \A j \in jobs' : \/ j \in jobs
                           \/ j.type = "Deleted" /\ \E r \in rows : r.uid = j.uid /\ r.ts = j.ts
      BY <1>5, <2>1, RecoverFacts DEF Dated
    <2>3. QED
      BY <1>0, <1>5, <2>2, DatedInstant
  <1>6. CASE \E j \in jobs : Land(j)
    BY <1>0, <1>6, LandInstant
  <1>7. CASE Merge
    <2>1. rows' \subseteq rows /\ UNCHANGED <<inserted, jobs>>
      BY <1>7 DEF Merge
    <2>2. QED
      BY <1>0, <2>1 DEF SameInstant
  <1>8. QED
    BY <1>1, <1>2, <1>3, <1>4, <1>5, <1>6, <1>7, RecordingSteps

LEMMA PriorsStep == WarmInv /\ Ledger /\ Next => PriorsDated'
  <1> SUFFICES ASSUME WarmInv, Ledger, Next PROVE PriorsDated'
    OBVIOUS
  <1>0. SameInstant /\ PriorsDated
    BY DEF Ledger
  <1>1. \A r \in rows : \E s \in rows' : s.uid = r.uid /\ s.ts = r.ts
    <2>1. CASE Merge
      <3>1. PICK r, s \in rows : r.ts = s.ts /\ r.at < s.at /\ rows' = rows \ {r}
        BY <2>1 DEF Merge
      <3>2. s # r /\ s.uid = r.uid
        BY <1>0, <3>1, RecordTypes, SMTT(60) DEF SameInstant
      <3>3. QED
        BY <3>1, <3>2
    <2>2. CASE \E j \in jobs : Land(j)
      BY <2>2 DEF Land
    <2>3. QED
      BY <2>1, <2>2, RecordingSteps
  <1>2. CASE ReadHistory
    <2>1. PICK open \in LastKnownStates :
             LET current == IF open = {} THEN 0 ELSE Current(open)
             IN  run' = [at |-> "read", current |-> current,
                         priors |-> {[uid |-> u, ts |-> LastTS(u)] : u \in open \ {current}}]
      BY <1>2 DEF ReadHistory
    <2> DEFINE current == IF open = {} THEN 0 ELSE Current(open)
               priors == {[uid |-> u, ts |-> LastTS(u)] : u \in open \ {current}}
    <2>0. run' = [at |-> "read", current |-> current, priors |-> priors]
      BY <2>1
    <2>2. \A p \in run'.priors : \E u \in open : p.uid = u /\ p.ts = LastTS(u)
      <3> HIDE DEF current
      <3>1. \A p \in priors : \E u \in open : p.uid = u /\ p.ts = LastTS(u)
        BY SMTT(60)
      <3>2. QED
        BY <2>0, <3>1
    <2>3. \A u \in open : \E r \in rows : r.uid = u /\ r.ts = LastTS(u)
      BY OpenFacts
    <2>4. \A p \in run'.priors : \E r \in rows : r.uid = p.uid /\ r.ts = p.ts
      BY <2>2, <2>3, SMTT(60)
    <2>5. QED
      BY <1>1, <2>4, SMTT(60) DEF PriorsDated
  <1>3. CASE run'.at \in Priming => run.at \in Priming /\ run'.priors = run.priors
    BY <1>0, <1>1, <1>3 DEF PriorsDated
  <1>4. QED
    <2> DEFINE Kept == run'.at \in Priming => run.at \in Priming /\ run'.priors = run.priors
    <2>1. Kept \/ ReadHistory \/ StoreBaseline \/ MarkWarm \/ AwaitScopeSync \/ ScopeWasActive \/ EmitCloseOuts
      <3>1. CASE run' = run
        BY <3>1
      <3>2. CASE WarmRun
        <4>1. LookUp \/ ClaimZombie \/ EmitZombie \/ RecoverRefused => run'.at \notin Priming
          BY SMTT(60) DEF LookUp, ClaimZombie, EmitZombie, RecoverRefused, Priming
        <4>2. QED
          BY <3>2, <4>1 DEF WarmRun
      <3>3. CASE Process
        BY <3>3, <3>1 DEF Process, ProcessGet, ProcessAbsent, ProcessLoad, ProcessMissed,
           ProcessReborn, ProcessEnqueue
      <3>4. CASE Crash \/ Restart \/ RecoverTimesOut
        <4>1. Crash => run'.at \notin Priming
          BY SMTT(60) DEF Crash, NoRun, Priming
        <4>2. Restart => run'.at \notin Priming
          BY SMTT(60) DEF Restart, NoRun, Priming
        <4>3. RecoverTimesOut => run'.at \notin Priming
          BY SMTT(60) DEF RecoverTimesOut, NoRun, Priming
        <4>4. QED
          BY <3>4, <4>1, <4>2, <4>3
      <3>5. QED
        BY <3>1, <3>2, <3>3, <3>4 DEF Next, CreateOrDelete, InformerSees, LogStarted, Land, Merge
    <2>2. CASE StoreBaseline \/ MarkWarm \/ AwaitScopeSync \/ ScopeWasActive \/ EmitCloseOuts
      <3>1. run.at \in Following /\ run.at \in Priming
        BY <2>2 DEF StoreBaseline, MarkWarm, AwaitScopeSync, ScopeWasActive, EmitCloseOuts, Following,
           Priming
      <3>2. run' = [at |-> "done"] \/ \E at \in Following : run' = [run EXCEPT !.at = at]
        BY <2>2 DEF StoreBaseline, MarkWarm, AwaitScopeSync, ScopeWasActive, EmitCloseOuts, Following
      <3>3. run \in [at : Following, current : Nat, priors : SUBSET [uid : Nat, ts : Nat]]
        BY <3>1, RunFacts
      <3>4. Kept
        <4>1. CASE run' = [at |-> "done"]
          BY <4>1, SMTT(60) DEF Priming
        <4>2. ASSUME NEW at \in Following, run' = [run EXCEPT !.at = at] PROVE run'.priors = run.priors
          BY <3>3, <4>2
        <4>3. QED
          BY <3>1, <3>2, <4>1, <4>2
      <3>5. QED
        BY <3>4, <1>3
    <2>3. QED
      BY <2>1, <2>2, <1>2, <1>3

LEMMA VersionsStep == WarmInv /\ Ledger /\ Next => VersionsSound'
  <1> SUFFICES ASSUME WarmInv, Ledger, Next PROVE VersionsSound'
    OBVIOUS
  <1> USE DEF sinkVars, cacheVars, RunOnly
  <1>0. VersionsSound /\ ver \in Nat /\ cache.ver \in Nat
    BY RecordTypes DEF Ledger
  <1> DEFINE Same == UNCHANGED <<cache, ver>> /\ (proc' = proc \/ proc'.at # "stamp")
                     /\ (run' = run \/ run'.at # "stamp")
             Only(v) == \A j \in jobs' : j \in jobs \/ (j.type = "Deleted" => j.ver = v)
  <1>1. CASE Same /\ jobs' \subseteq jobs
    BY <1>0, <1>1 DEF VersionsSound, Claims
  <1>2. CASE Crash
    BY <1>0, <1>2, SMTT(60) DEF VersionsSound, Crash, NoEntry, NoProc, NoRun
  <1>3. CASE \E j \in jobs : Land(j)
    <2>1. UNCHANGED <<ver, proc, run>> /\ jobs' \subseteq jobs /\ cache' \in {cache, NoEntry}
      BY <1>3 DEF Land
    <2>2. NoEntry.ver = 0
      BY DEF NoEntry
    <2>3. \A v : Claims(v) => Claims(v)'
      BY <1>0, <2>1, <2>2, SMTT(60) DEF Claims
    <2>4. QED
      BY <1>0, <2>1, <2>2, <2>3, SMTT(60) DEF VersionsSound
  <1>4. CASE ProcessAbsent \/ ClaimZombie
    <2>1. CASE UNCHANGED cacheVars
      <3>1. ~ReserveDelete /\ jobs' = jobs
        BY <1>0, <1>4, <2>1, SMTT(60) DEF ProcessAbsent, ClaimZombie, ReserveDelete
      <3>2. (proc' = proc \/ proc'.at # "stamp") /\ (run' = run \/ run'.at # "stamp")
        BY <1>4, <3>1, SMTT(60) DEF ProcessAbsent, ClaimZombie, NoProc
      <3>3. QED
        BY <1>1, <2>1, <3>1, <3>2
    <2>2. CASE ~UNCHANGED cacheVars
      <3>1. ReserveDelete /\ jobs' = jobs /\ \E uid : MayClaim(uid)
        BY <1>4, <2>2 DEF ProcessAbsent, ClaimZombie
      <3>2. cache' = [uid |-> cache.uid, ver |-> ver + 1, deleting |-> TRUE] /\ ver' = ver + 1
        BY <3>1, RecordTypes DEF ReserveDelete, CacheEntry
      <3>3. cache'.ver = ver + 1 /\ cache'.deleting
        BY <3>2
      <3>4. \A v : Claims(v) => Claims(v)'
        BY <1>0, <3>2, <3>3, SMTT(60) DEF Claims
      <3>5. \A v : v = ver + 1 => Claims(v)'
        BY <1>0, <3>2, <3>3, SMTT(60) DEF Claims
      <3>6. proc' = proc \/ proc'.ver = ver + 1
        BY <1>4, <2>2, SMTT(60) DEF ProcessAbsent, ClaimZombie
      <3>7. run' = run \/ run'.ver = ver + 1
        BY <1>4, <2>2, SMTT(60) DEF ProcessAbsent, ClaimZombie
      <3>8. cache'.ver <= ver' /\ cache'.ver > 0
        BY <1>0, <3>2, <3>3, SMTT(60)
      <3>9. QED
        BY <1>0, <3>1, <3>4, <3>5, <3>6, <3>7, <3>8 DEF VersionsSound
    <2>3. QED
      BY <2>1, <2>2
  <1>5. CASE ProcessMissed \/ ProcessReborn \/ StoreBaseline
    <2>1. CASE UNCHANGED cacheVars
      <3>1. StoreBaseline
        BY <1>5, <1>0, <2>1, SMTT(60) DEF ProcessMissed, ProcessReborn
      <3>2. run'.at # "stamp"
        <4>1. run.at \in Following
          BY <3>1 DEF StoreBaseline, Following
        <4>2. QED
          BY <3>1, <4>1, RunFacts DEF StoreBaseline
      <3>3. QED
        BY <1>1, <2>1, <3>1, <3>2 DEF StoreBaseline
    <2>2. CASE ~UNCHANGED cacheVars
      <3>1. cache'.ver = ver + 1 /\ ver' = ver + 1
        BY <1>5, <2>2, SMTT(60) DEF ProcessMissed, ProcessReborn, StoreBaseline, Reserve
      <3>2. \A v : Claims(v) => Claims(v)'
        BY <1>0, <3>1, SMTT(60) DEF Claims
      <3>3. Only(0)
        BY <1>5, RebornFacts DEF Fresh, ProcessMissed, StoreBaseline
      <3>4. proc' = proc \/ proc'.type # "Deleted"
        BY <1>5, SMTT(60) DEF ProcessMissed, ProcessReborn, StoreBaseline
      <3>5. run' = run \/ run'.at # "stamp"
        <4>1. StoreBaseline => run.at \in Following
          BY DEF StoreBaseline, Following
        <4>2. StoreBaseline => run'.at # "stamp"
          BY <4>1, RunFacts DEF StoreBaseline
        <4>3. QED
          BY <1>5, <4>2 DEF ProcessMissed, ProcessReborn
      <3>6. cache'.ver <= ver' /\ cache'.ver > 0
        BY <1>0, <3>1, SMTT(60)
      <3>7. QED
        BY <1>0, <3>2, <3>3, <3>4, <3>5, <3>6 DEF VersionsSound
    <2>3. QED
      BY <2>1, <2>2
  <1>6. CASE ProcessEnqueue
    <2>1. Only(proc.ver) /\ UNCHANGED <<cache, ver, run>> /\ proc'.at # "stamp" /\ proc.at = "stamp"
      BY <1>6, EnqueueFacts, SMTT(60) DEF Fresh, ProcessEnqueue, NoProc
    <2>2. \A j \in jobs' : j.type = "Deleted" => j.ver = 0 \/ Claims(j.ver)
      BY <1>0, <1>6, <2>1, EnqueueFacts DEF Fresh, VersionsSound
    <2>3. QED
      BY <1>0, <2>1, <2>2 DEF VersionsSound, Claims
  <1>7. CASE EmitZombie \/ EmitCloseOuts \/ RecoverRefused
    <2>1. UNCHANGED <<cache, ver, proc>>
      BY <1>7 DEF EmitZombie, EmitCloseOuts, RecoverRefused
    <2>2. run'.at # "stamp"
      <3>1. EmitCloseOuts => run.at \in Following
        BY DEF EmitCloseOuts, Following
      <3>2. EmitCloseOuts => run'.at # "stamp"
        BY <3>1, RunFacts DEF EmitCloseOuts
      <3>3. QED
        BY <1>7, <3>2, SMTT(60) DEF EmitZombie, RecoverRefused
    <2>3. \A j \in jobs' : j \in jobs \/ j.ver = 0 \/ (run.at = "stamp" /\ j.ver = run.ver)
      BY <1>7, ZombieFacts, CloseOutFacts, RecoverFacts DEF Fresh, Dated, EmitZombie, Ledger
    <2>4. QED
      BY <1>0, <2>1, <2>2, <2>3 DEF VersionsSound, Claims
  <1>8. QED
    <2>1. CASE ProcessGet \/ ProcessLoad
      BY <1>1, <2>1, SMTT(60) DEF ProcessGet, ProcessLoad, NoProc
    <2>2. CASE ReadHistory \/ MarkWarm \/ AwaitScopeSync \/ ScopeWasActive \/ LookUp \/ RecoverTimesOut \/ Restart
      <3>1. run'.at # "stamp"
        <4>1. CASE MarkWarm \/ AwaitScopeSync \/ ScopeWasActive
          <5>1. run.at \in Following
            BY <4>1 DEF MarkWarm, AwaitScopeSync, ScopeWasActive, Following
          <5>2. QED
            BY <4>1, <5>1, RunFacts, SMTT(60) DEF MarkWarm, AwaitScopeSync, ScopeWasActive
        <4>2. CASE ReadHistory \/ LookUp \/ RecoverTimesOut \/ Restart
          BY <4>2, SMTT(60) DEF ReadHistory, LookUp, RecoverTimesOut, Restart
        <4>3. QED
          BY <2>2, <4>1, <4>2
      <3>2. QED
        BY <1>1, <2>2, <3>1 DEF ReadHistory, MarkWarm, AwaitScopeSync, ScopeWasActive, LookUp,
           RecoverTimesOut, Restart
    <2>3. CASE CreateOrDelete \/ InformerSees \/ LogStarted \/ Merge
      BY <1>1, <2>3 DEF CreateOrDelete, InformerSees, LogStarted, Merge
    <2>4. QED
      BY <1>2, <1>3, <1>4, <1>5, <1>6, <1>7, <2>1, <2>2, <2>3 DEF Next, Process, WarmRun

\* A process that is down does nothing.
LEMMA DownStep == WarmInv /\ Ledger /\ Next => DownSound' /\ timeouts' \in Nat
  <1> SUFFICES ASSUME WarmInv, Ledger, Next PROVE DownSound' /\ timeouts' \in Nat
    OBVIOUS
  <1> USE DEF watchVars, cacheVars, RunOnly
  <1>0. DownSound /\ timeouts \in Nat
    BY DEF Ledger
  <1>1. CASE Crash
    BY <1>0, <1>1 DEF Crash, DownSound
  <1>2. CASE ~Crash
    <2>1. timeouts' = timeouts \/ timeouts' = timeouts + 1
      <3>1. CASE Process
        BY <3>1 DEF Process, ProcessGet, ProcessAbsent, ProcessLoad, ProcessMissed, ProcessReborn,
           ProcessEnqueue
      <3>2. CASE WarmRun
        BY <3>2 DEF WarmRun, ReadHistory, StoreBaseline, MarkWarm, AwaitScopeSync, ScopeWasActive,
           EmitCloseOuts, LookUp, ClaimZombie, EmitZombie, RecoverRefused
      <3>3. QED
        BY <1>2, <3>1, <3>2 DEF Next, CreateOrDelete, InformerSees, Restart, LogStarted, Land, Merge,
           RecoverTimesOut
    <2>2. timeouts' \in Nat
      BY <1>0, <2>1, SMTT(60)
    <2>3. CASE up
      <3>1. up'
        <4>1. CASE Process
          BY <2>3, <4>1 DEF Process, ProcessGet, ProcessAbsent, ProcessLoad, ProcessMissed,
             ProcessReborn, ProcessEnqueue
        <4>2. CASE WarmRun
          BY <2>3, <4>2 DEF WarmRun, ReadHistory, StoreBaseline, MarkWarm, AwaitScopeSync,
             ScopeWasActive, EmitCloseOuts, LookUp, ClaimZombie, EmitZombie, RecoverRefused
        <4>3. QED
          BY <1>2, <2>3, <4>1, <4>2 DEF Next, CreateOrDelete, InformerSees, Restart, LogStarted, Land,
             Merge, RecoverTimesOut
      <3>2. QED
        BY <2>2, <3>1 DEF DownSound
    <2>4. CASE ~up
      <3>1. jobs = {} /\ proc.at = "idle" /\ run.at = "none"
        BY <1>0, <2>4, SMTT(60) DEF DownSound, NoProc, NoRun
      <3>2. ~Process
        BY <2>4, <3>1 DEF Process, ProcessGet, ProcessAbsent, ProcessLoad, ProcessMissed,
           ProcessReborn, ProcessEnqueue
      <3>3. ~WarmRun /\ ~RecoverTimesOut
        BY <3>1 DEF WarmRun, ReadHistory, StoreBaseline, MarkWarm, AwaitScopeSync, ScopeWasActive,
           EmitCloseOuts, LookUp, ClaimZombie, EmitZombie, RecoverRefused, RecoverTimesOut
      <3>4. CreateOrDelete \/ Restart \/ Merge
        BY <1>2, <2>4, <3>1, <3>2, <3>3 DEF Next, InformerSees, LogStarted
      <3>5. up' \/ UNCHANGED <<cache, jobs, proc, run, store, queued>>
        BY <3>4 DEF CreateOrDelete, Restart, Merge
      <3>6. ASSUME ~up'
            PROVE  cache' = NoEntry /\ jobs' = {} /\ proc' = NoProc /\ run' = NoRun /\ store' = 0 /\ ~queued'
        BY <1>0, <2>4, <3>5, <3>6, SMTT(60) DEF DownSound
      <3>7. QED
        BY <2>2, <3>6 DEF DownSound
    <2>5. QED
      BY <2>3, <2>4
  <1>3. QED
    BY <1>1, <1>2

LEMMA LedgerStep == WarmInv /\ Ledger /\ Next => Ledger'
  BY InstantStep, PriorsStep, VersionsStep, DownStep DEF Ledger

LEMMA LedgerInit == Init => Ledger
  <1> SUFFICES ASSUME Init PROVE Ledger
    OBVIOUS
  <1> USE DEF Init
  <1>1. SameInstant /\ PriorsDated
    BY DEF SameInstant, PriorsDated, Priming
  <1>2. VersionsSound
    BY SMTT(60) DEF VersionsSound, NoEntry, NoProc
  <1>3. QED
    BY <1>1, <1>2 DEF Ledger, DownSound

-----------------------------------------------------------------------------
\* The last record of an incarnation, inserted or on its way, is a deletion.
Closed(u) ==
    \E d \in Records : /\ d.uid = u /\ d.type = "Deleted"
                       /\ \A r \in Records : r.uid = u => r.ts <= d.ts

LEMMA ClosedKept ==
    ASSUME WarmInv, NEW u, NEW t \in Nat, Closed(u),
           \A r \in Records' : r.uid = u => \/ \E q \in Records : q.uid = u /\ q.ts = r.ts
                                            \/ r.type = "Deleted" /\ r.ts = t,
           \A q \in Records : q.uid = u /\ q.type = "Deleted" =>
                                 \E r \in Records' : r.uid = u /\ r.type = "Deleted" /\ r.ts = q.ts
    PROVE  Closed(u)'
  <1>1. PICK d \in Records : d.uid = u /\ d.type = "Deleted" /\ \A r \in Records : r.uid = u => r.ts <= d.ts
    BY DEF Closed
  <1>2. PICK e \in Records' : e.uid = u /\ e.type = "Deleted" /\ e.ts = d.ts
    BY <1>1
  <1>3. d.ts \in Nat
    BY <1>1, RecordTypes
  <1>4. \A r \in Records' : r.uid = u => r.ts <= d.ts \/ (r.type = "Deleted" /\ r.ts = t)
    BY <1>1, SMTT(60)
  <1>5. CASE \E n \in Records' : n.uid = u /\ n.type = "Deleted" /\ n.ts = t /\ d.ts < t
    <2>1. PICK n \in Records' : n.uid = u /\ n.type = "Deleted" /\ n.ts = t /\ d.ts < t
      BY <1>5
    <2>2. \A r \in Records' : r.uid = u => r.ts <= n.ts
      BY <1>1, <1>3, <1>4, <2>1, RecordTypes, SMTT(60)
    <2>3. QED
      BY <2>1, <2>2 DEF Closed
  <1>6. CASE ~\E n \in Records' : n.uid = u /\ n.type = "Deleted" /\ n.ts = t /\ d.ts < t
    <2>1. \A r \in Records' : r.uid = u => r.ts <= e.ts
      BY <1>2, <1>3, <1>4, <1>6, SMTT(60)
    <2>2. QED
      BY <1>2, <2>1 DEF Closed
  <1>7. QED
    BY <1>5, <1>6

\* What is closed stays closed unless the object it names is recorded again.
LEMMA ClosedStep ==
    ASSUME WarmInv, Ledger, NEW u, Closed(u),
           \/ UNCHANGED <<rows, jobs>> \/ (\E j \in jobs : Land(j)) \/ Merge
           \/ ProcessReborn \/ EmitZombie \/ EmitCloseOuts \/ RecoverRefused
           \/ ProcessEnqueue /\ (proc.type = "Deleted" \/ proc.uid # u)
    PROVE  Closed(u)'
  <1>0. clock + 1 \in Nat /\ SameInstant /\ PriorsDated
    BY RecordTypes, SMTT(60) DEF Ledger
  <1>1. CASE UNCHANGED <<rows, jobs>>
    BY <1>1 DEF Closed, Records
  <1>2. CASE rows' = rows /\ jobs \subseteq jobs' /\ \A j \in jobs' :
                j \in jobs \/ j.uid # u \/ (j.type = "Deleted" /\ j.ts = clock + 1)
                \/ \E r \in rows : r.uid = j.uid /\ r.ts = j.ts
    <2>1. \A r \in Records' : r.uid = u => \/ \E q \in Records : q.uid = u /\ q.ts = r.ts
                                           \/ r.type = "Deleted" /\ r.ts = clock + 1
      BY <1>2, SMTT(60) DEF Records
    <2>2. Records \subseteq Records'
      BY <1>2 DEF Records
    <2>3. QED
      BY <1>0, <2>1, <2>2, ClosedKept
  <1>3. CASE ProcessReborn
    BY <1>1, <1>2, <1>3, RebornFacts DEF Fresh, ProcessReborn, sinkVars
  <1>4. CASE ProcessEnqueue /\ (proc.type = "Deleted" \/ proc.uid # u)
    BY <1>2, <1>4, EnqueueFacts DEF Fresh, ProcessEnqueue, sinkVars
  <1>5. CASE EmitZombie
    BY <1>2, <1>5, ZombieFacts DEF Fresh, EmitZombie, sinkVars
  <1>6. CASE EmitCloseOuts
    <2>1. \A j \in jobs' : j \in jobs \/ \E r \in rows : r.uid = j.uid /\ r.ts = j.ts
      BY <1>0, <1>6, CloseOutFacts, SMTT(60) DEF Dated
    <2>2. QED
      BY <1>0, <1>2, <1>6, <2>1, CloseOutFacts DEF EmitCloseOuts, sinkVars
  <1>7. CASE RecoverRefused
    <2>1. \A open \in LastKnownStates : run.target \in open =>
             \E r \in rows : r.uid = run.target /\ r.ts = LastTS(run.target)
      BY OpenFacts
    <2>2. \A j \in jobs' : j \in jobs \/ \E r \in rows : r.uid = j.uid /\ r.ts = j.ts
      BY <1>7, <2>1, RecoverFacts DEF Dated
    <2>3. jobs \subseteq jobs' /\ rows' = rows
      BY <1>7, RecoverFacts DEF RecoverRefused, sinkVars
    <2>4. QED
      BY <1>2, <2>2, <2>3
  <1>8. CASE \E j \in jobs : Land(j)
    <2>1. PICK j \in jobs : Land(j)
      BY <1>8, SMTT(60)
    <2> DEFINE n == [type |-> j.type, uid |-> j.uid, ts |-> j.ts, at |-> inserted + 1]
    <2>2. rows' = rows \cup {n} /\ jobs' = jobs \ {j}
      BY <2>1 DEF Land
    <2>3. n.type = j.type /\ n.uid = j.uid /\ n.ts = j.ts
      OBVIOUS
    <2> HIDE DEF n
    <2>4. \A r \in Records' : r \in Records \/ (r.uid = j.uid /\ r.ts = j.ts)
      BY <2>2, <2>3 DEF Records
    <2>5. \A q \in Records : q \in Records' \/ (n \in Records' /\ q = j)
      BY <2>2 DEF Records
    <2>6. j \in Records
      BY DEF Records
    <2>7. \A q \in Records : \E r \in Records' : r.uid = q.uid /\ r.type = q.type /\ r.ts = q.ts
      BY <2>3, <2>5
    <2>8. \A r \in Records' : \E q \in Records : q.uid = r.uid /\ q.ts = r.ts
      BY <2>4, <2>6
    <2>9. QED
      BY <1>0, <2>7, <2>8, ClosedKept, SMTT(60)
  <1>9. CASE Merge
    <2>1. PICK r, s \in rows : r.ts = s.ts /\ r.at < s.at /\ rows' = rows \ {r} /\ jobs' = jobs
      BY <1>9 DEF Merge
    <2>2. s # r /\ s.uid = r.uid /\ s.type = "Deleted"
      BY <1>0, <2>1, RecordTypes, SMTT(60) DEF SameInstant
    <2>3. Records' \subseteq Records /\ s \in Records' /\ \A q \in Records : q = r \/ q \in Records'
      BY <2>1, <2>2 DEF Records
    <2>4. \A q \in Records : q.uid = u /\ q.type = "Deleted" =>
                                 \E e \in Records' : e.uid = u /\ e.type = "Deleted" /\ e.ts = q.ts
      BY <2>1, <2>2, <2>3
    <2>5. QED
      BY <1>0, <2>3, <2>4, ClosedKept
  <1>10. QED
    BY <1>1, <1>3, <1>4, <1>5, <1>6, <1>7, <1>8, <1>9

-----------------------------------------------------------------------------
\* Who will close an incarnation that is not closed yet: the entry that stands for
\* it, a claim about to be stamped, or the run.
Held(u) ==
    \/ cache.uid = u /\ ~cache.deleting
    \/ proc.at = "stamp" /\ proc.type = "Deleted" /\ proc.uid = u
    \/ run.at = "seed"
    \/ run.at \in Priming /\ \E p \in run.priors : p.uid = u
    \/ run.at \in {"read", "got"} \cup Seeded /\ run.current = u
    \/ run.at = "stamp" /\ run.uid = u
    \/ run.at = "recover" /\ run.target = u

Tracked == \A r \in Records : Closed(r.uid) \/ Held(r.uid)

\* The entry is the run's to close.
OfRun == run.at \in Seeded \cup {"got"} /\ cache.uid = run.current

\* An entry stands for the object the informer holds, or a work item that finds
\* out it does not is queued or running, or the run will ask.
EntryAnswered ==
    cache # NoEntry /\ ~cache.deleting =>
        cache.uid = store \/ queued \/ proc.at = "absent" \/ (Upserting /\ proc.uid # cache.uid) \/ OfRun

CallFresh == proc.at = "absent" \/ Upserting => proc.uid = store \/ queued

CallHolds ==
    /\ proc.at = "stamp" /\ proc.type # "Deleted" => cache.uid = proc.uid /\ ~cache.deleting
    /\ proc.at = "missed" => cache.uid \in {0, proc.uid} \/ cache.deleting \/ OfRun
    /\ proc.at = "reborn" => cache.uid \in {0, proc.old}

\* While a run is under way and no object is deleted, the informer holds the object
\* that exists or none yet, and nothing else closes or records another one.
UnderWay == run.at \notin {"none", "done"}

Calm ==
    /\ store \in {0, obj} /\ (queued => store # 0)
    /\ proc # NoProc => store # 0 /\ Upserting /\ proc.uid = obj
    /\ \A j \in jobs : IF j.uid = obj THEN cache.uid = obj /\ ~cache.deleting ELSE Closed(j.uid)

\* What the run read is the last that is recorded of a prior incarnation.
PriorLast(p) == Closed(p.uid) \/ \A r \in Records : r.uid = p.uid => r.ts <= p.ts

RunCalm ==
    /\ run.at \in {"seed", "read"} => cache.uid \in {0, obj} /\ ~cache.deleting /\ proc.at # "reborn"
    /\ run.at \in Priming =>
          /\ run.current = 0 => run.priors = {}
          /\ \A p \in run.priors : PriorLast(p)
    /\ run.at \in Seeded \cup {"got"} =>
          /\ ~cache.deleting /\ cache.uid \in {0, obj, run.current}
          /\ run.current # 0 => cache.uid # 0
    /\ run.at \in Seeded /\ run.current # 0 => cache.uid = run.current \/ Closed(run.current) \/ store # 0
    /\ run.at = "got" /\ run.found = 0 => Closed(run.current) \/ (cache.uid = run.current /\ proc.at # "missed")

Watch == Tracked /\ EntryAnswered /\ CallFresh /\ CallHolds /\ (UnderWay => Calm /\ RunCalm)

\* The epochs the property is about.
Served == up /\ wasOpen /\ timeouts = 0 /\ ~churned

DeathInv == WarmInv /\ Ledger /\ (Served => Watch)

LEMMA WatchSame ==
    ASSUME Watch, UNCHANGED <<obj, rows, store, queued, proc, cache, jobs, run>> PROVE Watch'
  <1>1. \A u : (Closed(u)' <=> Closed(u)) /\ (Held(u)' <=> Held(u))
    BY DEF Closed, Records, Held
  <1>2. Tracked' /\ EntryAnswered' /\ CallFresh' /\ CallHolds'
    BY <1>1 DEF Watch, Tracked, EntryAnswered, CallFresh, CallHolds, OfRun, Upserting, Records
  <1>3. Closed(run.current)' <=> Closed(run.current)
    BY DEF Closed, Records
  <1>4. UnderWay => Calm' /\ RunCalm'
    BY <1>1, <1>3 DEF Watch, Calm, RunCalm, PriorLast, Upserting, Records
  <1>5. QED
    BY <1>2, <1>4 DEF Watch, UnderWay

LEMMA ObjectWatch ==
    ASSUME WarmInv, Ledger, Watch, CreateOrDelete, ~churned' PROVE Watch'
  <1>1. UNCHANGED <<rows, jobs, cache, proc, run, store, queued>>
    BY DEF CreateOrDelete, sinkVars, watchVars, cacheVars
  <1>2. \A u : Closed(u)' <=> Closed(u)
    BY <1>1 DEF Closed, Records
  <1>3. Tracked' /\ EntryAnswered' /\ CallFresh' /\ CallHolds'
    BY <1>1, <1>2 DEF Watch, Tracked, Held, EntryAnswered, CallFresh, CallHolds, OfRun, Upserting, Records
  <1>4. CASE UnderWay
    <2>1. obj = 0 /\ obj' = uids + 1 /\ store = 0 /\ proc = NoProc
      BY <1>4 DEF UnderWay, Watch, Calm, CreateOrDelete
    <2>2. \A j \in jobs : j.uid \in Nat \ {0} /\ j.uid <= uids
      BY RecordTypes DEF Records, Mentions, WarmInv, Views
    <2>3. \A j \in jobs : j.uid # obj' /\ j.uid # obj
      BY <2>1, <2>2, SMTT(60) DEF WarmInv, WarmTypes
    <2>4. Calm'
      BY <1>1, <1>2, <1>4, <2>1, <2>3 DEF Watch, Calm, Upserting
    <2>5. RunCalm'
      BY <1>1, <1>2, <1>4, <2>1 DEF Watch, RunCalm, PriorLast, Records
    <2>6. QED
      BY <1>3, <2>4, <2>5 DEF Watch
  <1>5. QED
    BY <1>1, <1>3, <1>4 DEF Watch, UnderWay

LEMMA InformerWatch ==
    ASSUME WarmInv, Ledger, Watch, InformerSees PROVE Watch'
  <1> USE DEF InformerSees, apiVars, sinkVars, cacheVars
  <1>1. UNCHANGED <<rows, jobs, cache, proc, run, obj>> /\ store' = obj /\ (queued' <=> (queued \/ store # obj))
    OBVIOUS
  <1>2. \A u : Closed(u)' <=> Closed(u)
    BY <1>1 DEF Closed, Records
  <1>3. Tracked' /\ EntryAnswered' /\ CallFresh' /\ CallHolds'
    BY <1>1, <1>2 DEF Watch, Tracked, Held, EntryAnswered, CallFresh, CallHolds, OfRun, Upserting, Records
  <1>4. CASE UnderWay
    <2>1. (store # 0 => store' = store) /\ (queued' => store' # 0)
      BY <1>1, <1>4 DEF Watch, Calm
    <2>2. Calm'
      BY <1>1, <1>2, <1>4, <2>1 DEF Watch, Calm, Upserting
    <2>3. RunCalm'
      BY <1>1, <1>2, <1>4, <2>1 DEF Watch, RunCalm, PriorLast, Records
    <2>4. QED
      BY <1>3, <2>2, <2>3 DEF Watch
  <1>5. QED
    BY <1>1, <1>3, <1>4 DEF Watch, UnderWay

\* A process starts with the history to read.
LEMMA RestartWatch ==
    ASSUME WarmInv, Ledger, Restart PROVE Watch'
  <1>1. /\ cache' = NoEntry /\ jobs' = {} /\ proc' = NoProc /\ store' = 0 /\ ~queued' /\ run' = [at |-> "seed"]
        /\ run'.at = "seed" /\ proc'.at = "idle" /\ cache'.uid = 0 /\ ~cache'.deleting
    BY SMTT(60) DEF Ledger, DownSound, Restart, cacheVars, watchVars, NoEntry, NoProc
  <1>2. Tracked' /\ EntryAnswered' /\ CallFresh' /\ CallHolds'
    BY <1>1 DEF Tracked, Held, EntryAnswered, CallFresh, CallHolds, Upserting
  <1>3. Calm' /\ RunCalm'
    BY <1>1 DEF Calm, RunCalm, Priming, Seeded
  <1>4. QED
    BY <1>2, <1>3 DEF Watch

\* The writer inserts, the table merges.
LEMMA SinkWatch ==
    ASSUME WarmInv, Ledger, Watch, (\E j \in jobs : Land(j)) \/ Merge PROVE Watch'
  <1>1. UNCHANGED <<proc, run, obj, store, queued>> /\ jobs' \subseteq jobs
    BY DEF Land, Merge, apiVars, watchVars
  <1>2. \A u : Closed(u) => Closed(u)'
    BY ClosedStep
  <1>3. cache' = cache \/ (cache.deleting /\ cache' = NoEntry)
    <2>1. CASE Merge
      BY <2>1 DEF Merge, cacheVars
    <2>2. ASSUME NEW j \in jobs, Land(j), cache' # cache PROVE cache.deleting /\ cache' = NoEntry
      <3>1. j.type = "Deleted" /\ j.ver = cache.ver /\ cache' = NoEntry
        BY <2>2 DEF Land
      <3>2. cache.ver # 0
        BY <2>2, <3>1, SMTT(60) DEF Ledger, VersionsSound
      <3>3. QED
        BY <3>1, <3>2 DEF Ledger, VersionsSound, Claims
    <2>3. QED
      BY <2>1, <2>2
  <1>4. \A r \in Records' : \E q \in Records : q.uid = r.uid /\ q.ts = r.ts
    BY SMTT(60) DEF Records, Land, Merge
  <1>5. NoEntry.uid = 0 /\ ~NoEntry.deleting
    BY DEF NoEntry
  <1>6. \A u : Held(u) => Held(u)'
    BY <1>1, <1>3 DEF Held
  <1>7. Tracked'
    BY <1>2, <1>4, <1>6 DEF Watch, Tracked
  <1>8. EntryAnswered' /\ CallFresh'
    BY <1>1, <1>3 DEF Watch, EntryAnswered, CallFresh, OfRun, Upserting
  <1>9. CallHolds'
    BY <1>1, <1>3, <1>5 DEF Watch, CallHolds, OfRun
  <1>10. CASE UnderWay
    <2>1. Calm'
      BY <1>1, <1>2, <1>3, <1>10 DEF Watch, Calm, Upserting
    <2>2. \A p : PriorLast(p) => PriorLast(p)'
      BY <1>2, <1>4 DEF PriorLast
    <2>3. RunCalm'
      BY <1>1, <1>2, <1>3, <1>10, <2>2 DEF Watch, RunCalm
    <2>4. QED
      BY <1>7, <1>8, <1>9, <2>1, <2>3 DEF Watch
  <1>11. QED
    BY <1>1, <1>7, <1>8, <1>9, <1>10 DEF Watch, UnderWay

-----------------------------------------------------------------------------
\* The work item.
LEMMA GetWatch ==
    ASSUME WarmInv, Ledger, Watch, ProcessGet PROVE Watch'
  <1>1. /\ UNCHANGED <<rows, jobs, cache, run, obj, store>> /\ queued /\ ~queued' /\ proc = NoProc
        /\ proc'.at = (IF store = 0 THEN "absent" ELSE "found") /\ proc'.uid = store
    BY SMTT(60) DEF ProcessGet, apiVars, sinkVars, watchVars, cacheVars
  <1>2. \A u : (Closed(u)' <=> Closed(u)) /\ (Held(u)' <=> Held(u))
    <2>1. proc.at = "idle"
      BY <1>1 DEF NoProc
    <2>2. QED
      BY <1>1, <2>1 DEF Closed, Records, Held
  <1>3. Tracked'
    BY <1>1, <1>2 DEF Watch, Tracked, Records
  <1>4. EntryAnswered' /\ CallFresh' /\ CallHolds'
    BY <1>1 DEF EntryAnswered, CallFresh, CallHolds, Upserting
  <1>5. CASE UnderWay
    <2>1. store # 0 /\ store = obj /\ Upserting' /\ proc'.uid = obj /\ proc'.at = "found"
      BY <1>1, <1>5 DEF Watch, Calm, Upserting
    <2>2. Calm'
      BY <1>1, <1>2, <1>5, <2>1 DEF Watch, Calm
    <2>3. RunCalm'
      BY <1>1, <1>2, <1>5, <2>1 DEF Watch, RunCalm, PriorLast, Records
    <2>4. QED
      BY <1>3, <1>4, <2>2, <2>3 DEF Watch
  <1>6. QED
    BY <1>1, <1>3, <1>4, <1>5 DEF Watch, UnderWay

LEMMA AbsentWatch ==
    ASSUME WarmInv, Ledger, Watch, ProcessAbsent PROVE Watch'
  <1>1. UNCHANGED <<rows, jobs, run, obj, store, queued>> /\ proc.at = "absent"
    BY DEF ProcessAbsent, apiVars, sinkVars, watchVars
  <1>2. \A u : Closed(u)' <=> Closed(u)
    BY <1>1 DEF Closed, Records
  <1>3. ~UnderWay'
    <2>1. proc # NoProc /\ ~Upserting
      BY <1>1, NoProcIdle DEF Upserting
    <2>2. ~UnderWay
      BY <2>1 DEF Watch, Calm
    <2>3. QED
      BY <1>1, <2>2 DEF UnderWay
  <1>4. \/ /\ proc'.at = "stamp" /\ proc'.type = "Deleted" /\ proc'.uid = cache.uid
           /\ cache'.deleting /\ cache'.uid = cache.uid
        \/ /\ proc' = NoProc /\ proc'.at = "idle" /\ cache' = cache
           /\ cache = NoEntry \/ cache.deleting
    <2>1. CASE MayClaim(0)
      <3>1. cache \in CacheEntry
        BY RecordTypes
      <3>2. cache' = [cache EXCEPT !.deleting = TRUE, !.ver = ver + 1]
        BY <2>1 DEF ProcessAbsent, ReserveDelete
      <3>3. cache'.deleting /\ cache'.uid = cache.uid
        BY <3>1, <3>2, SMTT(60) DEF CacheEntry
      <3>4. proc' = [at |-> "stamp", type |-> "Deleted", uid |-> cache.uid, ver |-> ver + 1]
        BY <2>1 DEF ProcessAbsent
      <3>5. QED
        BY <3>3, <3>4
    <2>2. CASE ~MayClaim(0)
      <3>1. proc' = NoProc /\ cache' = cache
        BY <2>2 DEF ProcessAbsent, cacheVars
      <3>2. cache = NoEntry \/ cache.deleting
        BY <2>2, SMTT(60) DEF MayClaim
      <3>3. QED
        BY <3>1, <3>2 DEF NoProc
    <2>3. QED
      BY <2>1, <2>2
  <1>5. \A r \in Records : Held(r.uid) => Held(r.uid)'
    BY <1>1, <1>4 DEF Held
  <1>6. Tracked'
    BY <1>1, <1>2, <1>5 DEF Watch, Tracked, Records
  <1>7. EntryAnswered' /\ CallFresh' /\ CallHolds'
    BY <1>4 DEF EntryAnswered, CallFresh, CallHolds, Upserting
  <1>8. QED
    BY <1>3, <1>6, <1>7 DEF Watch

LEMMA LoadWatch ==
    ASSUME WarmInv, Ledger, Watch, ProcessLoad PROVE Watch'
  <1>1. UNCHANGED <<rows, jobs, run, obj, store, queued, cache>> /\ proc.at = "found"
    BY DEF ProcessLoad, apiVars, sinkVars, watchVars, cacheVars
  <1>2. \/ cache = NoEntry /\ proc'.at = "missed" /\ proc'.uid = proc.uid
        \/ cache # NoEntry /\ cache.uid = proc.uid /\ proc' = NoProc /\ proc'.at = "idle"
        \/ /\ cache # NoEntry /\ cache.uid # proc.uid
           /\ proc'.at = "reborn" /\ proc'.uid = proc.uid /\ proc'.old = cache.uid
    BY SMTT(60) DEF ProcessLoad, NoProc
  <1>3. \A u : (Closed(u)' <=> Closed(u)) /\ (Held(u)' <=> Held(u))
    BY <1>1, <1>2 DEF Closed, Records, Held
  <1>4. Tracked'
    BY <1>1, <1>3 DEF Watch, Tracked, Records
  <1>5. EntryAnswered' /\ CallFresh'
    BY <1>1, <1>2 DEF Watch, EntryAnswered, CallFresh, Upserting, OfRun
  <1>6. CallHolds'
    <2>1. cache # NoEntry <=> cache.uid # 0
      BY RecordTypes
    <2>2. QED
      BY <1>1, <1>2, <2>1 DEF CallHolds
  <1>7. CASE UnderWay
    <2>0. cache # NoEntry <=> cache.uid # 0
      BY RecordTypes
    <2>1. store # 0 /\ proc.uid = obj
      BY <1>1, <1>7, SMTT(60) DEF Watch, Calm, NoProc
    <2>2. Calm'
      BY <1>1, <1>2, <1>3, <1>7, <2>1 DEF Watch, Calm, Upserting
    <2>3. run.at \in {"seed", "read"} => cache.uid \in {0, obj} /\ ~cache.deleting /\ proc'.at # "reborn"
      BY <1>2, <1>7, <2>0, <2>1 DEF Watch, RunCalm
    <2>4. run.at = "got" /\ cache.uid = run.current => proc'.at # "missed"
      BY <1>2, <2>0 DEF WarmInv, RunSound, Following
    <2>5. RunCalm'
      BY <1>1, <1>3, <1>7, <2>3, <2>4 DEF Watch, RunCalm, PriorLast, Records
    <2>6. QED
      BY <1>4, <1>5, <1>6, <2>2, <2>5 DEF Watch
  <1>8. QED
    BY <1>1, <1>4, <1>5, <1>6, <1>7 DEF Watch, UnderWay

\* What an upsert reserves.
LEMMA ReserveFacts ==
    ASSUME WarmInv, ProcessMissed \/ ProcessReborn
    PROVE  /\ UNCHANGED <<rows, run, obj, store, queued>>
           /\ proc # NoProc /\ Upserting /\ proc.uid # 0
           /\ proc'.at = "stamp" /\ proc'.type # "Deleted" /\ proc'.uid = proc.uid
           /\ cache' # NoEntry /\ cache'.uid = proc.uid /\ ~cache'.deleting
  <1>1. UNCHANGED <<rows, run, obj, store, queued>>
    BY DEF ProcessMissed, ProcessReborn, apiVars, sinkVars, watchVars
  <1>2. proc # NoProc /\ Upserting /\ proc.uid # 0
    <2>1. proc.at \in {"missed", "reborn"}
      BY DEF ProcessMissed, ProcessReborn
    <2>2. proc # NoProc
      BY <2>1, NoProcIdle
    <2>3. QED
      BY <2>1, <2>2, SMTT(60) DEF Upserting, WarmInv, ProcSound
  <1>3. proc'.at = "stamp" /\ proc'.type # "Deleted" /\ proc'.uid = proc.uid
    <2>1. PICK t \in {"Added", "Snapshot"} :
             proc' = [at |-> "stamp", type |-> t, uid |-> proc.uid, ver |-> ver + 1]
      BY DEF ProcessMissed, ProcessReborn
    <2>2. proc'.at = "stamp" /\ proc'.type = t /\ proc'.uid = proc.uid
      BY <2>1
    <2>3. QED
      BY <2>2
  <1>4. cache'.uid = proc.uid /\ ~cache'.deleting
    BY SMTT(60) DEF ProcessMissed, ProcessReborn, Reserve
  <1>5. cache' # NoEntry
    BY <1>2, <1>4, NoEntryType, SMTT(60)
  <1>6. QED
    BY <1>1, <1>2, <1>3, <1>4, <1>5

\* An upsert that keeps every incarnation closed or held.
LEMMA UpsertWatch ==
    ASSUME WarmInv, Watch, ProcessMissed \/ ProcessReborn,
           \A u : Closed(u) => Closed(u)',
           \A r \in Records' : Closed(r.uid)' \/ Held(r.uid)',
           UnderWay =>
              /\ \A j \in jobs' : j \in jobs \/ Closed(j.uid)'
              /\ run.at \in {"seed", "read"} => proc.at # "reborn"
              /\ run.at \in Priming => \A p \in run.priors : PriorLast(p) => PriorLast(p)'
              /\ run.at = "got" /\ run.found = 0 => Closed(run.current)'
    PROVE  Watch'
  <1>1. EntryAnswered' /\ CallFresh' /\ CallHolds'
    BY ReserveFacts DEF Watch, EntryAnswered, CallFresh, CallHolds, Upserting
  <1>2. Tracked'
    BY DEF Tracked
  <1>3. CASE UnderWay
    <2>1. store # 0 /\ proc.uid = obj /\ cache'.uid = obj /\ obj # 0 /\ obj' = obj
      BY <1>3, ReserveFacts DEF Watch, Calm
    <2>2. \A j \in jobs' : IF j.uid = obj THEN cache'.uid = obj /\ ~cache'.deleting ELSE Closed(j.uid)'
      BY <1>3, <2>1, ReserveFacts DEF Watch, Calm
    <2>3. Calm'
      BY <1>3, <2>1, <2>2, ReserveFacts DEF Watch, Calm, Upserting
    <2>4. RunCalm'
      BY <1>3, <2>1, ReserveFacts DEF Watch, RunCalm
    <2>5. QED
      BY <1>1, <1>2, <2>3, <2>4 DEF Watch
  <1>4. QED
    BY <1>1, <1>2, <1>3, ReserveFacts DEF Watch, UnderWay

LEMMA MissedWatch ==
    ASSUME WarmInv, Ledger, Watch, ProcessMissed PROVE Watch'
  <1>1. UNCHANGED <<rows, jobs, run>> /\ proc.at = "missed"
    BY DEF ProcessMissed, sinkVars
  <1>2. \A u : Closed(u)' <=> Closed(u)
    BY <1>1 DEF Closed, Records
  <1>3. \A r \in Records : Held(r.uid) => Held(r.uid)'
    <2>1. \A r \in Records : r.uid # 0
      BY RecordTypes, SMTT(60)
    <2>2. cache.uid \in {0, proc.uid} \/ cache.deleting \/ OfRun
      BY <1>1 DEF Watch, CallHolds
    <2>3. cache'.uid = proc.uid /\ ~cache'.deleting
      BY ReserveFacts
    <2>4. ASSUME NEW u, u # 0, Held(u) PROVE Held(u)'
      <3>1. CASE cache.uid = u /\ ~cache.deleting
        BY <1>1, <2>2, <2>3, <2>4, <3>1 DEF Held, OfRun
      <3>2. CASE ~(cache.uid = u /\ ~cache.deleting)
        BY <1>1, <2>4, <3>2 DEF Held
      <3>3. QED
        BY <3>1, <3>2
    <2>5. QED
      BY <2>1, <2>4
  <1>4. \A r \in Records' : Closed(r.uid)' \/ Held(r.uid)'
    BY <1>1, <1>2, <1>3 DEF Watch, Tracked, Records
  <1>5. UnderWay => /\ run.at \in Priming => \A p \in run.priors : PriorLast(p) => PriorLast(p)'
                    /\ run.at = "got" /\ run.found = 0 => Closed(run.current)'
    BY <1>1, <1>2 DEF Watch, RunCalm, PriorLast, Records
  <1>6. QED
    BY <1>1, <1>2, <1>4, <1>5, UpsertWatch

LEMMA FreshCloses ==
    ASSUME WarmInv, NEW n, NEW u, NEW v, Fresh(n, "Deleted", u, v), jobs' = jobs \cup {n}, rows' = rows
    PROVE  Closed(u)'
  <1>1. Records' = Records \cup {n}
    BY DEF Records
  <1>2. \A r \in Records' : r.ts <= n.ts
    BY <1>1, RecordTypes, SMTT(60) DEF Fresh
  <1>3. QED
    BY <1>1, <1>2 DEF Closed, Fresh

LEMMA RebornWatch ==
    ASSUME WarmInv, Ledger, Watch, ProcessReborn PROVE Watch'
  <1>1. UNCHANGED <<rows, run, obj>> /\ proc.at = "reborn" /\ proc.old \notin {0, obj}
    BY SMTT(60) DEF ProcessReborn, sinkVars, apiVars, WarmInv, ProcSound, NoProc
  <1>2. \A u : Closed(u) => Closed(u)'
    BY ClosedStep
  <1>3. cache.uid \in {0, proc.old} /\ (cache # NoEntry <=> cache.uid # 0)
    BY <1>1, RecordTypes DEF Watch, CallHolds
  <1>4. \A u : u # 0 /\ cache.uid = u /\ ~cache.deleting => MayClaim(u) /\ u = proc.old
    BY <1>3 DEF MayClaim
  <1>5. \A u : u = proc.old /\ MayClaim(u) => Closed(u)'
    BY <1>1, RebornFacts, FreshCloses
  <1>6. \A j \in jobs' : j \in jobs \/ (j.uid = proc.old /\ MayClaim(proc.old))
    BY RebornFacts DEF Fresh
  <1>7. \A r \in Records' : r \in Records \/ (r.uid = proc.old /\ MayClaim(proc.old))
    BY <1>1, <1>6 DEF Records
  <1>8. \A u : u # 0 /\ Held(u) => Closed(u)' \/ Held(u)'
    <2>1. \A u : u # 0 /\ cache.uid = u /\ ~cache.deleting => Closed(u)'
      BY <1>4, <1>5
    <2>2. \A u : Held(u) /\ ~(cache.uid = u /\ ~cache.deleting) => Held(u)'
      BY <1>1 DEF Held
    <2>3. QED
      BY <2>1, <2>2
  <1>9. \A r \in Records' : Closed(r.uid)' \/ Held(r.uid)'
    <2>1. \A r \in Records : r.uid # 0
      BY RecordTypes, SMTT(60)
    <2>2. QED
      BY <1>2, <1>5, <1>7, <1>8, <2>1 DEF Watch, Tracked
  <1>10. ASSUME UnderWay
         PROVE  /\ \A j \in jobs' : j \in jobs \/ Closed(j.uid)'
                /\ run.at \notin {"seed", "read"}
                /\ \A p : PriorLast(p) => PriorLast(p)'
                /\ run.at = "got" /\ run.found = 0 => Closed(run.current)'
    <2>1. \A j \in jobs' : j \in jobs \/ Closed(j.uid)'
      BY <1>5, <1>6
    <2>2. run.at \notin {"seed", "read"}
      BY <1>1, <1>10 DEF Watch, RunCalm
    <2>3. \A p : PriorLast(p) => PriorLast(p)'
      BY <1>2, <1>5, <1>7 DEF PriorLast
    <2>4. run.at = "got" => run.current # 0
      BY DEF WarmInv, RunSound, Following
    <2>5. run.at = "got" /\ run.found = 0 => Closed(run.current)'
      <3>1. \A u : u = run.current /\ run.at = "got" /\ run.found = 0 => Closed(u)'
        BY <1>2, <1>4, <1>5, <1>10, <2>4 DEF Watch, RunCalm, Seeded
      <3>2. QED
        BY <1>1, <3>1 DEF Closed
    <2>6. QED
      BY <2>1, <2>2, <2>3, <2>5
  <1>11. QED
    BY <1>2, <1>9, <1>10, UpsertWatch

LEMMA EnqueueWatch ==
    ASSUME WarmInv, Ledger, Watch, ProcessEnqueue PROVE Watch'
  <1>1. /\ UNCHANGED <<rows, run, obj, store, queued, cache>> /\ proc.at = "stamp"
        /\ proc' = NoProc /\ proc'.at = "idle"
    BY DEF ProcessEnqueue, sinkVars, apiVars, watchVars, cacheVars, NoProc
  <1>2. PICK n : Fresh(n, proc.type, proc.uid, proc.ver) /\ jobs' = jobs \cup {n}
    BY EnqueueFacts
  <1>3. \A r \in Records' : r \in Records \/ r.uid = proc.uid
    BY <1>1, <1>2 DEF Records, Fresh
  <1>4. \A u : Closed(u) => Closed(u)' \/ (proc.type # "Deleted" /\ proc.uid = u)
    BY ClosedStep
  <1>5. CallFresh' /\ CallHolds'
    BY <1>1 DEF CallFresh, CallHolds, Upserting
  <1>6. CASE proc.type = "Deleted"
    <2>1. \A u : u = proc.uid => Closed(u)'
      BY <1>1, <1>2, <1>6, FreshCloses
    <2>2. \A u : Held(u) => Held(u)' \/ u = proc.uid
      BY <1>1 DEF Held
    <2>3. Tracked'
      BY <1>3, <1>4, <1>6, <2>1, <2>2 DEF Watch, Tracked
    <2>4. EntryAnswered'
      BY <1>1, <1>6 DEF Watch, EntryAnswered, Upserting, OfRun
    <2>5. ~UnderWay'
      BY <1>1, <1>6 DEF Watch, Calm, UnderWay, Upserting, NoProc
    <2>6. QED
      BY <1>5, <2>3, <2>4, <2>5 DEF Watch
  <1>7. CASE proc.type # "Deleted"
    <2>1. cache.uid = proc.uid /\ ~cache.deleting
      BY <1>1, <1>7 DEF Watch, CallHolds
    <2>2. \A u : u = proc.uid \/ Held(u) => Held(u)'
      BY <1>1, <1>7, <2>1 DEF Held
    <2>3. Tracked'
      BY <1>3, <1>4, <2>2 DEF Watch, Tracked
    <2>4. EntryAnswered'
      BY <1>1, <2>1 DEF Watch, EntryAnswered, OfRun
    <2>5. CASE UnderWay
      <3>1. store # 0 /\ proc.uid = obj
        BY <1>1, <2>5, SMTT(60) DEF Watch, Calm, NoProc
      <3>2. \A j \in jobs' : j \in jobs \/ j.uid = obj
        BY <1>2, <3>1 DEF Fresh
      <3>3. Calm'
        BY <1>1, <1>4, <2>1, <2>5, <3>1, <3>2 DEF Watch, Calm
      <3>4. run.at \in Priming => \A p \in run.priors : PriorLast(p) => PriorLast(p)'
        <4>1. run.at \in Priming => \A p \in run.priors : p.uid # obj
          <5>1. Priming \subseteq Following
            BY DEF Priming, Following
          <5>2. QED
            BY <5>1, RunFacts
        <4>2. QED
          BY <1>3, <1>4, <3>1, <4>1 DEF PriorLast
      <3>5. run.at = "got" => run.current # obj
        BY DEF WarmInv, RunSound, Following
      <3>6. RunCalm'
        BY <1>1, <1>4, <2>5, <3>1, <3>4, <3>5 DEF Watch, RunCalm
      <3>7. QED
        BY <1>5, <2>3, <2>4, <3>3, <3>6 DEF Watch
    <2>6. QED
      BY <1>1, <1>5, <2>3, <2>4, <2>5 DEF Watch, UnderWay
  <1>8. QED
    BY <1>6, <1>7

-----------------------------------------------------------------------------
\* The warm run: what it does not find open is closed, and nothing later is known
\* of what it does.
LEMMA ReadCloses ==
    ASSUME WarmInv, Calm, NEW open \in LastKnownStates, NEW u \in Recorded, u \notin open
    PROVE  Closed(u)
  <1>1. PICK d \in rows : d.uid = u /\ d.ts = LastTS(u) /\ d.type = "Deleted"
    BY DEF LastKnownStates, LastTypes
  <1>2. u # obj
    BY <1>1 DEF WarmInv, RecordsSound, ClosedIsDead
  <1>3. CASE \E j \in jobs : j.uid = u
    BY <1>2, <1>3 DEF Calm
  <1>4. CASE ~\E j \in jobs : j.uid = u
    <2>1. \A r \in Records : r.uid = u => r.ts <= d.ts
      BY <1>1, <1>4, LastTSFacts DEF Records
    <2>2. QED
      BY <1>1, <2>1 DEF Closed, Records
  <1>5. QED
    BY <1>3, <1>4

LEMMA ReadLast ==
    ASSUME WarmInv, Calm, NEW u \in Recorded, u # obj
    PROVE  Closed(u) \/ \A r \in Records : r.uid = u => r.ts <= LastTS(u)
  <1>1. CASE \E j \in jobs : j.uid = u
    BY <1>1 DEF Calm
  <1>2. CASE ~\E j \in jobs : j.uid = u
    BY <1>2, LastTSFacts DEF Records
  <1>3. QED
    BY <1>1, <1>2

LEMMA ReadWatch ==
    ASSUME WarmInv, Ledger, Watch, ReadHistory PROVE Watch'
  <1>0. UNCHANGED <<obj, rows, store, queued, proc, cache, jobs>> /\ run.at = "seed"
    BY DEF ReadHistory, RunOnly, apiVars, sinkVars, watchVars, cacheVars
  <1>1. PICK open \in LastKnownStates :
           LET current == IF open = {} THEN 0 ELSE Current(open)
           IN  run' = [at |-> "read", current |-> current,
                       priors |-> {[uid |-> u, ts |-> LastTS(u)] : u \in open \ {current}}]
    BY DEF ReadHistory
  <1> DEFINE current == IF open = {} THEN 0 ELSE Current(open)
             priors == {[uid |-> u, ts |-> LastTS(u)] : u \in open \ {current}}
  <1>2. run'.at = "read" /\ run'.current = current /\ run'.priors = priors
    BY <1>1
  <1>3. open \subseteq Recorded /\ (obj \in Recorded => obj \in open)
    BY OpenFacts
  <1>4. current = 0 => open = {}
    <2>1. \A u \in Recorded : u # 0
      BY RecordTypes, SMTT(60) DEF Recorded, Records
    <2>2. QED
      BY <1>3, <2>1, CurrentFacts
  <1>5. \A u \in open \ {current} : u # obj
    <2>1. WarmInv'
      BY ReadKeeps
    <2>2. \A p \in priors : p.uid # obj
      BY <1>0, <1>2, <2>1 DEF WarmInv, RunSound
    <2>3. \A u \in open \ {current} : \E p \in priors : p.uid = u
      <3>1. \A u \in open \ {current} : [uid |-> u, ts |-> LastTS(u)] \in priors
        OBVIOUS
      <3>2. QED
        BY <3>1
    <2>4. QED
      BY <2>2, <2>3
  <1> HIDE DEF current
  <1>6. \A p \in priors : p.uid \in open \ {current} /\ p.ts = LastTS(p.uid)
    BY SMTT(60)
  <1>7. \A u \in open \ {current} : \E p \in priors : p.uid = u
    <2>1. \A u \in open \ {current} : [uid |-> u, ts |-> LastTS(u)] \in priors
      OBVIOUS
    <2>2. QED
      BY <2>1
  <1> HIDE DEF priors
  <1>8. \A u : Closed(u)' <=> Closed(u)
    BY <1>0 DEF Closed, Records
  <1>9. UnderWay /\ Calm /\ RunCalm
    BY <1>0, SMTT(60) DEF Watch, UnderWay
  <1>10. Calm'
    BY <1>0, <1>8, <1>9 DEF Calm, Upserting
  <1>11. RunCalm'
    <2>1. run'.current = 0 => run'.priors = {}
      BY <1>2, <1>4, <1>6
    <2>2. \A p \in priors : Closed(p.uid) \/ \A r \in Records : r.uid = p.uid => r.ts <= p.ts
      BY <1>3, <1>5, <1>6, <1>9, ReadLast
    <2>3. \A p \in run'.priors : PriorLast(p)'
      BY <1>0, <1>2, <1>8, <2>2 DEF PriorLast, Records
    <2>4. QED
      BY <1>0, <1>2, <1>9, <2>1, <2>3 DEF RunCalm, Seeded
  <1>12. Tracked'
    <2>1. \A u \in open : Held(u)'
      BY <1>2, <1>7 DEF Held, Priming
    <2>2. \A j \in jobs : Closed(j.uid)' \/ Held(j.uid)'
      <3>1. \A u : cache.uid = u /\ ~cache.deleting => Held(u)'
        BY <1>0 DEF Held
      <3>2. QED
        BY <1>8, <1>9, <3>1 DEF Calm
    <2>3. \A r \in rows : Closed(r.uid)' \/ Held(r.uid)'
      <3>1. \A u \in Recorded : u \notin open => Closed(u)
        BY <1>9, ReadCloses
      <3>2. \A u \in Recorded : Closed(u)' \/ Held(u)'
        BY <1>8, <2>1, <3>1
      <3>3. QED
        BY <3>2 DEF Recorded
    <2>4. QED
      BY <1>0, <2>2, <2>3 DEF Tracked, Records
  <1>13. EntryAnswered' /\ CallFresh' /\ CallHolds'
    BY <1>0 DEF Watch, EntryAnswered, CallFresh, CallHolds, Upserting, OfRun, Seeded
  <1>14. QED
    BY <1>10, <1>11, <1>12, <1>13 DEF Watch

\* A run that goes on with what it read.
LEMMA OnwardRun ==
    ASSUME WarmInv, run.at \in Following, NEW at, run' = [run EXCEPT !.at = at]
    PROVE  run'.at = at /\ run'.current = run.current /\ run'.priors = run.priors
  BY RunFacts

LEMMA BaselineWatch ==
    ASSUME WarmInv, Ledger, Watch, StoreBaseline PROVE Watch'
  <1>0. UNCHANGED <<obj, rows, store, queued, proc, jobs>> /\ run.at = "read"
    BY DEF StoreBaseline, apiVars, sinkVars, watchVars
  <1>1. run'.at = "mark" /\ run'.current = run.current /\ run'.priors = run.priors
    BY <1>0, OnwardRun DEF StoreBaseline, Following
  <1>2. \/ cache' = cache /\ (run.current = 0 \/ cache # NoEntry)
        \/ /\ cache = NoEntry /\ run.current # 0 /\ cache'.uid = run.current /\ ~cache'.deleting
    BY SMTT(60) DEF StoreBaseline, cacheVars
  <1>3. cache # NoEntry <=> cache.uid # 0
    BY RecordTypes
  <1>4. \A u : Closed(u)' <=> Closed(u)
    BY <1>0 DEF Closed, Records
  <1>5. UnderWay /\ Calm /\ RunCalm
    BY <1>0, SMTT(60) DEF Watch, UnderWay
  <1>6. Tracked'
    <2>1. \A u : u # 0 /\ Held(u) => Held(u)'
      BY <1>0, <1>1, <1>2, <1>3 DEF Held, Priming, Seeded
    <2>2. \A r \in Records : r.uid # 0
      BY RecordTypes, SMTT(60)
    <2>3. QED
      BY <1>0, <1>4, <2>1, <2>2 DEF Watch, Tracked, Records
  <1>7. EntryAnswered'
    BY <1>0, <1>1, <1>2 DEF Watch, EntryAnswered, OfRun, Seeded, Upserting
  <1>8. CallFresh'
    BY <1>0 DEF Watch, CallFresh, Upserting
  <1>9. CallHolds'
    <2>1. proc.at # "reborn"
      BY <1>0, <1>5 DEF RunCalm
    <2>2. proc.at = "stamp" => proc.uid # 0
      BY SMTT(60) DEF WarmInv, ProcSound, NoProc
    <2>3. QED
      BY <1>0, <1>1, <1>2, <1>3, <2>1, <2>2 DEF Watch, CallHolds, OfRun, Seeded
  <1>10. Calm'
    <2>1. \A j \in jobs : j.uid # 0
      BY RecordTypes, SMTT(60) DEF Records
    <2>2. \A j \in jobs : j.uid = obj => cache' = cache
      BY <1>2, <1>3, <1>5, <2>1 DEF Calm
    <2>3. QED
      BY <1>0, <1>4, <1>5, <2>2 DEF Calm, Upserting
  <1>11. RunCalm'
    <2>1. run.current # 0 /\ cache'.uid # run.current => store # 0
      <3>1. SUFFICES ASSUME run.current # 0, cache'.uid # run.current PROVE store # 0
        OBVIOUS
      <3>2. cache # NoEntry /\ cache.uid = obj /\ ~cache.deleting
        BY <1>0, <1>2, <1>3, <1>5, <3>1 DEF RunCalm
      <3>3. cache.uid = store \/ queued \/ proc.at = "absent" \/ Upserting
        BY <1>0, <3>2 DEF Watch, EntryAnswered, OfRun, Seeded
      <3>4. proc.at = "absent" \/ Upserting => proc # NoProc
        BY SMTT(60) DEF NoProc, Upserting
      <3>5. QED
        BY <1>3, <1>5, <3>2, <3>3, <3>4 DEF Calm
    <2>2. ~cache'.deleting /\ cache'.uid \in {0, obj, run.current} /\ (run.current # 0 => cache'.uid # 0)
      BY <1>0, <1>2, <1>3, <1>5 DEF RunCalm
    <2>3. (run.current = 0 => run.priors = {}) /\ \A p \in run.priors : PriorLast(p)'
      BY <1>0, <1>4, <1>5 DEF RunCalm, Priming, PriorLast, Records
    <2>4. QED
      BY <1>0, <1>1, <2>1, <2>2, <2>3 DEF RunCalm
  <1>12. QED
    BY <1>6, <1>7, <1>8, <1>9, <1>10, <1>11 DEF Watch

LEMMA AdvanceWatch ==
    ASSUME WarmInv, Ledger, Watch, wasOpen, MarkWarm \/ AwaitScopeSync \/ ScopeWasActive PROVE Watch'
  <1>0. UNCHANGED <<obj, rows, store, queued, proc, jobs, cache>> /\ run.at \in {"mark", "sync", "gate"}
    BY DEF MarkWarm, AwaitScopeSync, ScopeWasActive, RunOnly, apiVars, sinkVars, watchVars, cacheVars
  <1>1. run.at \in Following /\ run.at \in Priming /\ run.at \in Seeded /\ UnderWay
    BY <1>0 DEF Following, Priming, Seeded, UnderWay
  <1>2. \A u : Closed(u)' <=> Closed(u)
    BY <1>0 DEF Closed, Records
  <1>3. CASE run' = [at |-> "done"]
    <2>1. run'.at = "done" /\ run.current = 0 /\ run.priors = {}
      <3>1. MarkWarm
        <4>1. run'.at = "done"
          BY <1>3
        <4>2. AwaitScopeSync \/ ScopeWasActive => run'.at \in {"gate", "close"}
          BY <1>1, OnwardRun DEF AwaitScopeSync, ScopeWasActive, PreviousEpochOpen
        <4>3. QED
          BY <4>1, <4>2
      <3>2. run.current = 0
        <4>1. run.current # 0 => run'.at = "sync"
          BY <1>1, <3>1, OnwardRun DEF MarkWarm
        <4>2. QED
          BY <1>3, <4>1
      <3>3. QED
        BY <1>1, <1>3, <3>2 DEF Watch, RunCalm
    <2>2. \A u : u # 0 /\ Held(u) => Held(u)'
      BY <1>0, <2>1 DEF Held
    <2>3. Tracked'
      <3>1. \A r \in Records : r.uid # 0
        BY RecordTypes, SMTT(60)
      <3>2. QED
        BY <1>0, <1>2, <2>2, <3>1 DEF Watch, Tracked, Records
    <2>4. cache # NoEntry <=> cache.uid # 0
      BY RecordTypes
    <2>5. EntryAnswered' /\ CallFresh' /\ CallHolds'
      BY <1>0, <2>1, <2>4 DEF Watch, EntryAnswered, CallFresh, CallHolds, OfRun, Upserting
    <2>6. ~UnderWay'
      BY <2>1 DEF UnderWay
    <2>7. QED
      BY <2>3, <2>5, <2>6 DEF Watch
  <1>4. CASE \E at \in {"sync", "gate", "close"} : run' = [run EXCEPT !.at = at]
    <2>1. run'.at \in {"sync", "gate", "close"} /\ run'.current = run.current /\ run'.priors = run.priors
      BY <1>1, <1>4, OnwardRun
    <2>2. run'.at \in Priming /\ run'.at \in Seeded
      BY <2>1 DEF Priming, Seeded
    <2>3. Tracked'
      <3>1. \A u : Held(u) => Held(u)'
        BY <1>0, <2>1, <2>2 DEF Held
      <3>2. QED
        BY <1>0, <1>2, <3>1 DEF Watch, Tracked, Records
    <2>4. EntryAnswered' /\ CallFresh' /\ CallHolds'
      BY <1>0, <1>1, <2>1, <2>2 DEF Watch, EntryAnswered, CallFresh, CallHolds, OfRun, Upserting
    <2>5. Calm'
      BY <1>0, <1>1, <1>2 DEF Watch, Calm, Upserting
    <2>6. \A u : u = run.current => (Closed(u)' <=> Closed(u))
      BY <1>2
    <2>7. Closed(run.current) => Closed(run.current)'
      BY <1>0, <2>1 DEF Closed, Records
    <2>8. RunCalm'
      BY <1>0, <1>1, <1>2, <2>1, <2>2, <2>7 DEF Watch, RunCalm, PriorLast, Records
    <2>9. QED
      BY <2>3, <2>4, <2>5, <2>8 DEF Watch
  <1>5. QED
    BY <1>3, <1>4 DEF MarkWarm, AwaitScopeSync, ScopeWasActive

LEMMA CloseOutWatch ==
    ASSUME WarmInv, Ledger, Watch, EmitCloseOuts PROVE Watch'
  <1>0. UNCHANGED <<obj, rows, store, queued, proc, cache>> /\ run.at = "close"
    BY DEF EmitCloseOuts, apiVars, sinkVars, watchVars, cacheVars
  <1>1. run.at \in Following /\ run.at \in Priming /\ run.at \in Seeded /\ UnderWay
    BY <1>0 DEF Following, Priming, Seeded, UnderWay
  <1>2. run'.at = "gc" /\ run'.current = run.current /\ run'.at \in Seeded /\ run'.at \notin Priming
    <2>1. run'.at = "gc" /\ run'.current = run.current
      BY <1>1, OnwardRun DEF EmitCloseOuts
    <2>2. QED
      BY <2>1 DEF Seeded, Priming
  <1>3. \A u : Closed(u) => Closed(u)'
    BY ClosedStep
  <1>4. PriorsDated /\ Calm /\ RunCalm
    BY <1>1 DEF Ledger, Watch
  <1>5. \A p \in run.priors : p.uid # obj
    BY <1>1, RunFacts
  <1>6. \A p \in run.priors : \A u : u = p.uid => Closed(u)'
    <2>1. ASSUME NEW p \in run.priors, \A r \in Records : r.uid = p.uid => r.ts <= p.ts
          PROVE  \E d \in Records' : /\ d.uid = p.uid /\ d.type = "Deleted"
                                     /\ \A r \in Records' : r.uid = p.uid => r.ts <= d.ts
      <3>1. PICK d \in jobs' : Dated(d, p.uid, p.ts)
        BY <1>4, CloseOutFacts
      <3>2. \A r \in Records' : r \in Records \/ \E q \in rows : q.uid = r.uid /\ q.ts = r.ts
        BY <1>0, <1>4, CloseOutFacts, SMTT(60) DEF Dated, Records
      <3>3. \A r \in Records' : r.uid = p.uid => r.ts <= p.ts
        BY <2>1, <3>2 DEF Records
      <3>4. QED
        BY <3>1, <3>3 DEF Dated, Records
    <2>2. \A p \in run.priors : (\A r \in Records : r.uid = p.uid => r.ts <= p.ts) => \A u : u = p.uid => Closed(u)'
      BY <2>1 DEF Closed
    <2>3. QED
      BY <1>1, <1>3, <1>4, <2>2 DEF RunCalm, PriorLast
  <1>7. \A j \in jobs' : j \in jobs \/ \E p \in run.priors : j.uid = p.uid
    BY <1>4, CloseOutFacts DEF Dated
  <1>8. \A j \in jobs' : j \in jobs \/ (j.uid # obj /\ Closed(j.uid)')
    BY <1>5, <1>6, <1>7
  <1>9. Tracked'
    <2>1. \A u : Held(u) => Held(u)' \/ Closed(u)'
      <3>1. \A u : Held(u) => Held(u)' \/ \E p \in run.priors : p.uid = u
        BY <1>0, <1>1, <1>2 DEF Held
      <3>2. QED
        BY <1>6, <3>1
    <2>2. QED
      BY <1>0, <1>3, <1>8, <2>1 DEF Watch, Tracked, Records
  <1>10. EntryAnswered' /\ CallFresh' /\ CallHolds'
    BY <1>0, <1>1, <1>2 DEF Watch, EntryAnswered, CallFresh, CallHolds, OfRun, Upserting
  <1>11. Calm'
    BY <1>0, <1>3, <1>4, <1>8 DEF Calm, Upserting
  <1>12. RunCalm'
    <2>1. \A u : u = run.current /\ Closed(u) => Closed(u)'
      BY <1>3
    <2>2. Closed(run.current) => Closed(run.current)'
      BY <1>2, <2>1 DEF Closed
    <2>3. QED
      BY <1>0, <1>1, <1>2, <1>4, <2>2 DEF RunCalm
  <1>13. QED
    BY <1>9, <1>10, <1>11, <1>12 DEF Watch

LEMMA LookUpWatch ==
    ASSUME WarmInv, Ledger, Watch, LookUp PROVE Watch'
  <1>0. UNCHANGED <<obj, rows, store, queued, proc, jobs, cache>> /\ run.at = "gc"
    BY DEF LookUp, RunOnly, apiVars, sinkVars, watchVars, cacheVars
  <1>1. run.at \in Following /\ run.at \notin Priming /\ run.at \in Seeded /\ UnderWay
    BY <1>0 DEF Following, Priming, Seeded, UnderWay
  <1>2. run.current # 0 /\ Calm /\ RunCalm
    BY <1>0, <1>1, RunFacts DEF Watch
  <1>3. ~cache.deleting /\ cache.uid \in {obj, run.current} /\ cache.uid # 0
    BY <1>1, <1>2 DEF RunCalm
  <1>4. \A u : Closed(u)' <=> Closed(u)
    BY <1>0 DEF Closed, Records
  <1>5. CASE store = run.current
    <2>1. run'.at = "done" /\ cache.uid = run.current /\ run.current = obj
      BY <1>2, <1>3, <1>5 DEF LookUp, Calm
    <2>2. \A u : Held(u) => Held(u)'
      BY <1>0, <1>1, <1>3, <2>1 DEF Held
    <2>3. Tracked'
      BY <1>0, <1>4, <2>2 DEF Watch, Tracked, Records
    <2>4. proc # NoProc => proc.uid = obj
      BY <1>2 DEF Calm
    <2>5. proc.at = "missed" => cache.uid = proc.uid
      BY <2>1, <2>4, SMTT(60) DEF NoProc
    <2>6. EntryAnswered' /\ CallFresh' /\ CallHolds'
      BY <1>0, <1>5, <2>1, <2>5 DEF Watch, EntryAnswered, CallFresh, CallHolds, Upserting
    <2>7. QED
      BY <2>1, <2>3, <2>6 DEF Watch, UnderWay
  <1>6. CASE store # run.current
    <2>1. run'.at = "got" /\ run'.current = run.current /\ run'.found = store
      BY <1>6 DEF LookUp
    <2>2. \A u : Held(u) => Held(u)'
      BY <1>0, <1>1, <2>1 DEF Held
    <2>3. Tracked'
      BY <1>0, <1>4, <2>2 DEF Watch, Tracked, Records
    <2>4. EntryAnswered' /\ CallFresh' /\ CallHolds'
      BY <1>0, <1>1, <2>1 DEF Watch, EntryAnswered, CallFresh, CallHolds, Upserting, OfRun
    <2>5. Calm'
      BY <1>0, <1>2, <1>4 DEF Calm, Upserting
    <2>6. store = 0 => proc.at # "missed"
      BY <1>2, SMTT(60) DEF Calm, NoProc
    <2>7. Closed(run.current) => Closed(run.current)'
      BY <1>0, <2>1 DEF Closed, Records
    <2>8. RunCalm'
      <3>1. "got" \notin Priming /\ "got" \notin Seeded
        BY DEF Priming, Seeded
      <3>2. QED
        BY <1>0, <1>1, <1>2, <1>3, <2>1, <2>6, <2>7, <3>1 DEF RunCalm
    <2>9. QED
      BY <2>3, <2>4, <2>5, <2>8 DEF Watch
  <1>7. QED
    BY <1>5, <1>6

LEMMA ClaimWatch ==
    ASSUME WarmInv, Ledger, Watch, ClaimZombie PROVE Watch'
  <1>0. UNCHANGED <<obj, rows, store, queued, proc, jobs>> /\ run.at = "got" /\ run.current \notin {0, obj}
    BY DEF ClaimZombie, apiVars, sinkVars, watchVars, WarmInv, RunSound, Following
  <1>1. run.at \notin Priming /\ run.at \notin Seeded /\ UnderWay
    BY <1>0 DEF Priming, Seeded, UnderWay
  <1>2. Calm /\ RunCalm /\ ~cache.deleting /\ cache.uid \in {obj, run.current} /\ cache.uid # 0
    <2>1. Calm /\ RunCalm
      BY <1>1 DEF Watch
    <2>2. QED
      BY <1>0, <2>1 DEF RunCalm
  <1>3. cache # NoEntry
    BY <1>2, RecordTypes
  <1>4. \A u : Closed(u)' <=> Closed(u)
    BY <1>0 DEF Closed, Records
  <1>5. CASE cache.uid = run.current
    <2>1. MayClaim(run.current)
      BY <1>2, <1>3, <1>5 DEF MayClaim
    <2>2. cache'.deleting /\ cache'.uid = cache.uid
      <3>1. cache' = [cache EXCEPT !.deleting = TRUE, !.ver = ver + 1] /\ cache \in CacheEntry
        BY <2>1, RecordTypes DEF ClaimZombie, ReserveDelete
      <3>2. QED
        BY <3>1, SMTT(60) DEF CacheEntry
    <2>3. run'.at = "stamp" /\ run'.uid = run.current
      BY <2>1, SMTT(60) DEF ClaimZombie
    <2>4. \A u : Held(u) => Held(u)'
      BY <1>0, <1>1, <1>5, <2>3 DEF Held
    <2>5. Tracked'
      BY <1>0, <1>4, <2>4 DEF Watch, Tracked, Records
    <2>6. EntryAnswered' /\ CallFresh'
      BY <1>0, <2>2 DEF Watch, EntryAnswered, CallFresh, Upserting
    <2>7. CallHolds'
      <3>1. proc.at = "stamp" => proc.uid = obj
        BY <1>2, SMTT(60) DEF Calm, NoProc
      <3>2. ~(proc.at = "stamp" /\ proc.type # "Deleted")
        BY <1>0, <1>5, <3>1 DEF Watch, CallHolds
      <3>3. QED
        BY <1>0, <2>2, <3>2 DEF Watch, CallHolds
    <2>8. Calm'
      BY <1>0, <1>2, <1>4, <1>5 DEF Calm, Upserting
    <2>9. RunCalm'
      BY <2>3 DEF RunCalm, Priming, Seeded
    <2>10. QED
      BY <2>5, <2>6, <2>7, <2>8, <2>9 DEF Watch
  <1>6. CASE cache.uid # run.current
    <2>1. ~MayClaim(run.current)
      BY <1>0, <1>6 DEF MayClaim
    <2>2. cache' = cache
      BY <2>1 DEF ClaimZombie, cacheVars
    <2>3. \/ run'.at = "recover" /\ run'.target = run.current
          \/ run'.at = "done" /\ run.found = 0
      BY <1>3, <1>6, <2>1, SMTT(60) DEF ClaimZombie
    <2>4. run'.at = "done" => Closed(run.current)
      BY <1>0, <1>2, <1>6, <2>3 DEF RunCalm
    <2>5. \A u : Held(u) => Held(u)' \/ Closed(u)
      BY <1>0, <1>1, <2>2, <2>3, <2>4 DEF Held
    <2>6. Tracked'
      BY <1>0, <1>4, <2>5 DEF Watch, Tracked, Records
    <2>7. EntryAnswered' /\ CallFresh' /\ CallHolds'
      BY <1>0, <1>6, <2>2 DEF Watch, EntryAnswered, CallFresh, CallHolds, Upserting, OfRun
    <2>8. Calm'
      BY <1>0, <1>2, <1>4, <2>2 DEF Calm, Upserting
    <2>9. run'.at = "recover" => RunCalm'
      BY DEF RunCalm, Priming, Seeded
    <2>10. QED
      BY <2>3, <2>6, <2>7, <2>8, <2>9 DEF Watch, UnderWay
  <1>7. QED
    BY <1>5, <1>6

\* A run that ends with a deletion handed to the writer, or with none needed.
LEMMA EndWatch ==
    ASSUME WarmInv, Ledger, Watch, EmitZombie \/ RecoverRefused PROVE Watch'
  <1>0. /\ UNCHANGED <<obj, rows, store, queued, proc, cache>> /\ run'.at = "done"
        /\ run.at \in {"stamp", "recover"} /\ run.at \notin Seeded /\ run.at \notin Priming
    <2>1. UNCHANGED <<obj, rows, store, queued, proc, cache>> /\ run' = [at |-> "done"]
      BY DEF EmitZombie, RecoverRefused, apiVars, sinkVars, watchVars, cacheVars
    <2>2. QED
      BY <2>1 DEF EmitZombie, RecoverRefused, Seeded, Priming
  <1> DEFINE Target(u) == (run.at = "stamp" /\ run.uid = u) \/ (run.at = "recover" /\ run.target = u)
  <1>1. \A u : Closed(u) => Closed(u)'
    BY ClosedStep
  <1>2. \A j \in jobs' : j \in jobs \/ Target(j.uid)
    BY <1>0, ZombieFacts, RecoverFacts DEF Fresh, Dated, EmitZombie, RecoverRefused
  <1>3. \A u : Target(u) => Closed(u)' \/ \A r \in Records' : r.uid # u
    <2>1. CASE EmitZombie
      <3>1. \A u : u = run.uid => Closed(u)'
        BY <1>0, <2>1, ZombieFacts, FreshCloses
      <3>2. QED
        BY <2>1, <3>1 DEF EmitZombie
    <2>2. CASE RecoverRefused
      <3>1. run.at = "recover" /\ run.target \notin {0, obj}
        BY <2>2 DEF RecoverRefused, WarmInv, RunSound, Following
      <3>2. Calm
        BY <3>1 DEF Watch, UnderWay
      <3>3. PICK open \in LastKnownStates :
              \/ run.target \notin open /\ jobs' = jobs
              \/ /\ run.target \in open
                 /\ \E n : Dated(n, run.target, LastTS(run.target)) /\ jobs' = jobs \cup {n}
        BY <2>2, RecoverFacts
      <3>4. CASE run.target \in open
        <4>1. PICK n : Dated(n, run.target, LastTS(run.target)) /\ jobs' = jobs \cup {n}
          BY <3>3, <3>4
        <4>2. run.target \in Recorded
          BY <3>4, OpenFacts
        <4>3. CASE Closed(run.target)
          BY <1>1, <3>1, <4>3
        <4>4. CASE \A r \in Records : r.uid = run.target => r.ts <= LastTS(run.target)
          <5>1. Records' = Records \cup {n} /\ LastTS(run.target) \in Nat
            BY <1>0, <4>1, <4>2, LastTSFacts DEF Records
          <5>2. \A r \in Records' : r.uid = run.target => r.ts <= n.ts
            BY <4>1, <4>4, <5>1, SMTT(60) DEF Dated
          <5>3. \A u : u = run.target => Closed(u)'
            BY <4>1, <5>1, <5>2 DEF Closed, Dated
          <5>4. QED
            BY <3>1, <5>3
        <4>5. QED
          BY <3>1, <3>2, <4>2, <4>3, <4>4, ReadLast
      <3>5. CASE run.target \notin open /\ run.target \in Recorded
        <4>1. Closed(run.target)
          BY <3>2, <3>5, ReadCloses
        <4>2. QED
          BY <1>1, <3>1, <4>1
      <3>6. CASE run.target \notin open /\ run.target \notin Recorded
        <4>1. jobs' = jobs /\ rows' = rows
          BY <1>0, <3>3, <3>6
        <4>2. CASE \E j \in jobs : j.uid = run.target
          <5>1. Closed(run.target)
            BY <3>1, <3>2, <4>2 DEF Calm
          <5>2. QED
            BY <1>1, <3>1, <5>1
        <4>3. CASE ~\E j \in jobs : j.uid = run.target
          BY <3>1, <3>6, <4>1, <4>3 DEF Records, Recorded
        <4>4. QED
          BY <4>2, <4>3
      <3>7. QED
        BY <3>4, <3>5, <3>6
    <2>3. QED
      BY <2>1, <2>2
  <1>4. \A u : Held(u) => Held(u)' \/ Target(u)
    BY <1>0 DEF Held
  <1>5. \A r \in Records' : r \in Records \/ Target(r.uid)
    BY <1>0, <1>2 DEF Records
  <1> HIDE DEF Target
  <1>6. Tracked'
    BY <1>1, <1>3, <1>4, <1>5 DEF Watch, Tracked
  <1>7. EntryAnswered' /\ CallFresh' /\ CallHolds'
    BY <1>0 DEF Watch, EntryAnswered, CallFresh, CallHolds, Upserting, OfRun
  <1>8. QED
    BY <1>0, <1>6, <1>7 DEF Watch, UnderWay

-----------------------------------------------------------------------------
\* An epoch stays one the property is about, or was none before.
LEMMA ServedBefore ==
    ASSUME Ledger, Next, ~Restart, Served' PROVE Served /\ ~Crash /\ ~RecoverTimesOut
  <1>1. ~Crash
    BY DEF Crash, Served
  <1>2. ~RecoverTimesOut
    <2>1. RecoverTimesOut => timeouts' = timeouts + 1
      BY DEF RecoverTimesOut
    <2>2. timeouts \in Nat /\ timeouts' = 0
      BY DEF Served, Ledger
    <2>3. QED
      BY <2>1, <2>2, SMTT(60)
  <1>3. up' = up /\ wasOpen' = wasOpen /\ timeouts' = timeouts
    <2> USE DEF scopeVars, RunOnly
    <2>1. CASE Process
      BY <2>1 DEF Process, ProcessGet, ProcessAbsent, ProcessLoad, ProcessMissed, ProcessReborn,
         ProcessEnqueue
    <2>2. CASE WarmRun
      BY <2>2 DEF WarmRun, ReadHistory, StoreBaseline, MarkWarm, AwaitScopeSync, ScopeWasActive,
         EmitCloseOuts, LookUp, ClaimZombie, EmitZombie, RecoverRefused
    <2>3. QED
      BY <1>1, <1>2, <2>1, <2>2 DEF Next, CreateOrDelete, InformerSees, LogStarted, Land, Merge
  <1>4. churned => churned'
    <2> USE DEF ghosts, RunOnly
    <2>1. CASE Process
      BY <2>1 DEF Process, ProcessGet, ProcessAbsent, ProcessLoad, ProcessMissed, ProcessReborn,
         ProcessEnqueue
    <2>2. CASE WarmRun
      BY <2>2 DEF WarmRun, ReadHistory, StoreBaseline, MarkWarm, AwaitScopeSync, ScopeWasActive,
         EmitCloseOuts, LookUp, ClaimZombie, EmitZombie, RecoverRefused
    <2>3. QED
      BY <1>1, <1>2, <2>1, <2>2 DEF Next, CreateOrDelete, InformerSees, LogStarted, Land, Merge
  <1>5. QED
    BY <1>1, <1>2, <1>3, <1>4 DEF Served

LEMMA WatchStep == WarmInv /\ Ledger /\ (Served => Watch) /\ Next => (Served' => Watch')
  <1> SUFFICES ASSUME WarmInv, Ledger, Served => Watch, Next, Served' PROVE Watch'
    OBVIOUS
  <1>1. CASE Restart
    BY <1>1, RestartWatch
  <1>2. CASE ~Restart
    <2>1. Watch /\ wasOpen /\ ~churned' /\ ~Crash /\ ~RecoverTimesOut
      BY <1>2, ServedBefore DEF Served
    <2>2. CASE Process
      BY <2>1, <2>2, GetWatch, AbsentWatch, LoadWatch, MissedWatch, RebornWatch, EnqueueWatch DEF Process
    <2>3. CASE WarmRun
      BY <2>1, <2>3, ReadWatch, BaselineWatch, AdvanceWatch, CloseOutWatch, LookUpWatch, ClaimWatch, EndWatch
         DEF WarmRun
    <2>4. CASE LogStarted
      <3>1. UNCHANGED <<obj, rows, store, queued, proc, cache, jobs, run>>
        BY <2>4 DEF LogStarted, apiVars, sinkVars, watchVars, cacheVars
      <3>2. QED
        BY <2>1, <3>1, WatchSame
    <2>5. QED
      BY <1>2, <2>1, <2>2, <2>3, <2>4, ObjectWatch, InformerWatch, SinkWatch DEF Next
  <1>3. QED
    BY <1>1, <1>2

LEMMA DeathStep == DeathInv /\ [Next]_vars => DeathInv'
  <1> SUFFICES ASSUME DeathInv, [Next]_vars PROVE DeathInv'
    OBVIOUS
  <1>1. CASE Next
    BY <1>1, WarmStep, LedgerStep, WatchStep DEF DeathInv
  <1>2. CASE UNCHANGED vars
    <2>1. UNCHANGED <<obj, rows, inserted, store, queued, proc, cache, ver, jobs, run, up, wasOpen, timeouts,
                      churned>>
      BY <1>2 DEF vars, apiVars, sinkVars, watchVars, cacheVars, scopeVars, ghosts
    <2>2. Ledger'
      BY <2>1 DEF DeathInv, Ledger, SameInstant, PriorsDated, VersionsSound, Claims, DownSound
    <2>3. Served' => Watch'
      BY <2>1, WatchSame DEF DeathInv, Served
    <2>4. QED
      BY <2>2, <2>3, WarmStep DEF DeathInv
  <1>3. QED
    BY <1>1, <1>2

\* What is left to close when all has settled is what nobody holds.
LEMMA SettledFacts == DeathInv => DeathsRecorded
  <1> SUFFICES ASSUME DeathInv, Settled, Served, NEW u \in Recorded, u # obj, "Deleted" \notin LastTypes(u)
               PROVE  FALSE
    BY DEF DeathsRecorded, Unclosed, Served, Settled
  <1>1. WarmInv /\ Watch /\ jobs = {} /\ proc.at = "idle" /\ run.at = "done" /\ store = obj /\ ~queued
    BY DEF DeathInv, Settled, NoProc
  <1>2. PICK r \in Records : r.uid = u
    BY DEF Recorded, Records
  <1>3. ~Closed(u)
    <2>1. SUFFICES ASSUME NEW d \in rows, d.uid = u, d.type = "Deleted", \A q \in rows : q.uid = u => q.ts <= d.ts
                   PROVE  FALSE
      BY <1>1 DEF Closed, Records
    <2>2. d.ts <= LastTS(u) /\ LastTS(u) <= d.ts /\ LastTS(u) \in Nat /\ d.ts \in Nat
      <3>1. /\ LastTS(u) \in Nat /\ \E q \in rows : q.uid = u /\ q.ts = LastTS(u)
            /\ \A q \in rows : q.uid = u => q.ts <= LastTS(u)
        BY <1>1, LastTSFacts
      <3>2. d.ts \in Nat
        BY <1>1, <2>1, RecordTypes DEF Records
      <3>3. QED
        BY <2>1, <3>1, <3>2
    <2>3. d.ts = LastTS(u)
      BY <2>2, SMTT(60)
    <2>4. QED
      BY <2>1, <2>3 DEF LastTypes
  <1>4. ~Held(u)
    <2>1. u # 0 /\ (cache # NoEntry <=> cache.uid # 0)
      BY <1>1, <1>2, RecordTypes
    <2>2. ~(cache.uid = u /\ ~cache.deleting)
      BY <1>1, <2>1 DEF Watch, EntryAnswered, OfRun, Seeded, Upserting
    <2>3. QED
      BY <1>1, <2>2 DEF Held, Priming, Seeded
  <1>5. QED
    BY <1>1, <1>2, <1>3, <1>4 DEF Watch, Tracked

\* In a scope whose previous epoch was left open every incarnation that history
\* knows and the cluster does not have is closed once all has settled, if no
\* object was deleted while the run was under way and no recovery gave up, for any
\* number of incarnations and crashes (gcPass, emitCloseOuts, processUpsert,
\* recoverRefusedReincarnations).
THEOREM DeathsAreRecorded == Spec => []DeathsRecorded
  <1>1. Init => DeathInv
    <2>1. Init => ~Served
      BY DEF Init, Served
    <2>2. QED
      BY <2>1, WarmInit, LedgerInit DEF DeathInv
  <1>2. Spec => []DeathInv
    BY <1>1, DeathStep, PTL DEF Spec
  <1>3. QED
    BY <1>2, SettledFacts, PTL
=============================================================================
