---------------------------- MODULE ScopeProofs -----------------------------
(***************************************************************************)
(* Proofs about the scope log (ScopePath: the recorder and the writer's    *)
(* scope worker): the epochs of a scope alternate, none is lost silently,  *)
(* and they land in the order they happened.                               *)
(*                                                                         *)
(* LogInv, RecorderInv, WriterInv and OrderInv are the inductive           *)
(* invariants, each proved from the ones before it.                        *)
(***************************************************************************)
EXTENDS ScopePath, TLAPS

\* The prover of a leaf that names none; SMT is named where arithmetic is needed.
USE ZenonT(60)

LEMMA RangeOf == ASSUME NEW s, NEW x PROVE x \in Range(s) <=> \E i \in DOMAIN s : s[i] = x
  BY DEF Range

LEMMA RangeAppend == ASSUME NEW S, NEW s \in Seq(S), NEW x \in S PROVE Range(Append(s, x)) = Range(s) \cup {x}
  <1>1. \A i \in DOMAIN Append(s, x) : Append(s, x)[i] = x \/ (i \in DOMAIN s /\ Append(s, x)[i] = s[i])
    BY SMTT(60)
  <1>2. \A i \in DOMAIN s : i \in DOMAIN Append(s, x) /\ Append(s, x)[i] = s[i]
    BY SMTT(60)
  <1>3. Len(s) + 1 \in DOMAIN Append(s, x) /\ Append(s, x)[Len(s) + 1] = x
    BY SMTT(60)
  <1>4. QED
    BY <1>1, <1>2, <1>3 DEF Range

LEMMA RangeTail ==
    ASSUME NEW S, NEW s \in Seq(S), s # <<>>
    PROVE  /\ Head(s) \in S /\ Head(s) = s[1] /\ 1 \in DOMAIN s /\ Tail(s) \in Seq(S) /\ Range(s) = {Head(s)} \cup Range(Tail(s))
           /\ \A i \in DOMAIN Tail(s) : i + 1 \in DOMAIN s /\ Tail(s)[i] = s[i + 1]
  <1>1. Head(s) \in S /\ Tail(s) \in Seq(S) /\ \A i \in DOMAIN Tail(s) : i + 1 \in DOMAIN s /\ Tail(s)[i] = s[i + 1]
    BY SMTT(60)
  <1>2. 1 \in DOMAIN s /\ s[1] = Head(s)
    BY SMTT(60)
  <1>3. \A i \in DOMAIN s : i = 1 \/ (i - 1 \in DOMAIN Tail(s) /\ Tail(s)[i - 1] = s[i])
    BY SMTT(60)
  <1>4. ASSUME NEW i \in DOMAIN s PROVE s[i] \in {Head(s)} \cup Range(Tail(s))
    BY <1>2, <1>3 DEF Range
  <1>5. \A x \in Range(Tail(s)) : x \in Range(s)
    BY <1>1 DEF Range
  <1>6. Head(s) \in Range(s)
    BY <1>2 DEF Range
  <1>7. \A x \in Range(s) : x \in {Head(s)} \cup Range(Tail(s))
    BY <1>4 DEF Range
  <1>8. QED
    BY <1>1, <1>2, <1>5, <1>6, <1>7

LEMMA RangeConcat ==
    ASSUME NEW S, NEW s \in Seq(S), NEW t \in Seq(S)
    PROVE  s \o t \in Seq(S) /\ Range(s \o t) = Range(s) \cup Range(t)
  <1>1. s \o t \in Seq(S) /\ Len(s \o t) = Len(s) + Len(t)
    BY SMTT(60)
  <1>2. \A i \in DOMAIN s : i \in DOMAIN (s \o t) /\ (s \o t)[i] = s[i]
    BY <1>1, SMTT(60)
  <1>3. \A i \in DOMAIN t : Len(s) + i \in DOMAIN (s \o t) /\ (s \o t)[Len(s) + i] = t[i]
    BY <1>1, SMTT(60)
  <1>4. \A i \in DOMAIN (s \o t) : i \in DOMAIN s \/ (i - Len(s) \in DOMAIN t /\ (s \o t)[i] = t[i - Len(s)])
    BY <1>1, SMTT(60)
  <1>5. \A x \in Range(s) : x \in Range(s \o t)
    BY <1>2 DEF Range
  <1>6. \A x \in Range(t) : x \in Range(s \o t)
    BY <1>3 DEF Range
  <1>7. \A x \in Range(s \o t) : x \in Range(s) \cup Range(t)
    BY <1>2, <1>4 DEF Range
  <1>8. QED
    BY <1>1, <1>5, <1>6, <1>7

\* A queue that overflows loses its oldest elements.
LEMMA Overflows ==
    ASSUME NEW S, NEW s \in Seq(S), NEW n \in 0 .. Len(s)
    PROVE  /\ SubSeq(s, n + 1, Len(s)) \in Seq(S) /\ SubSeq(s, 1, n) \in Seq(S)
           /\ Range(s) = Range(SubSeq(s, 1, n)) \cup Range(SubSeq(s, n + 1, Len(s)))
           /\ \A i \in DOMAIN SubSeq(s, n + 1, Len(s)) :
                 i \in Nat \ {0} /\ i + n \in DOMAIN s /\ SubSeq(s, n + 1, Len(s))[i] = s[i + n]
  <1>1. SubSeq(s, n + 1, Len(s)) \in Seq(S) /\ SubSeq(s, 1, n) \in Seq(S)
    BY SMTT(60)
  <1>2. Len(SubSeq(s, n + 1, Len(s))) = Len(s) - n /\ Len(SubSeq(s, 1, n)) = n
    BY SMTT(60)
  <1>3. \A i \in DOMAIN SubSeq(s, 1, n) : i \in DOMAIN s /\ SubSeq(s, 1, n)[i] = s[i]
    BY <1>1, <1>2, SMTT(60)
  <1>4. \A i \in DOMAIN SubSeq(s, n + 1, Len(s)) :
            i \in Nat \ {0} /\ i + n \in DOMAIN s /\ SubSeq(s, n + 1, Len(s))[i] = s[i + n]
    BY <1>1, <1>2, SMTT(60)
  <1>5. \A i \in DOMAIN s : i \in DOMAIN SubSeq(s, 1, n) \/ i - n \in DOMAIN SubSeq(s, n + 1, Len(s))
    BY <1>1, <1>2, SMTT(60)
  <1>6. ASSUME NEW i \in DOMAIN s PROVE s[i] \in Range(SubSeq(s, 1, n)) \cup Range(SubSeq(s, n + 1, Len(s)))
    BY <1>3, <1>4, <1>5, SMTT(60) DEF Range
  <1>7. Range(s) \subseteq Range(SubSeq(s, 1, n)) \cup Range(SubSeq(s, n + 1, Len(s)))
    BY <1>6 DEF Range
  <1>8. Range(SubSeq(s, 1, n)) \subseteq Range(s)
    BY <1>3 DEF Range
  <1>9. Range(SubSeq(s, n + 1, Len(s))) \subseteq Range(s)
    BY <1>4 DEF Range
  <1>10. QED
    BY <1>1, <1>4, <1>7, <1>8, <1>9

-----------------------------------------------------------------------------
\* The edges of a scope: what is recorded of them, and what the interests say.
LogInv ==
    /\ happened \in Seq(ScopeEvent) /\ \A i \in DOMAIN happened : happened[i].ts = i
    /\ active \in [Keys -> SUBSET Targets] /\ warming \in [Keys -> Nat]
    /\ EpochsAlternate

LEMMA EventFacts ==
    ASSUME NEW k \in Keys, NEW action \in {"Started", "Stopped"}, happened \in Seq(ScopeEvent),
           Len(happened) < MaxTransitions
    PROVE  /\ EventFor(k, action) \in ScopeEvent
           /\ EventFor(k, action).sink = k[1] /\ EventFor(k, action).scope = k[2]
           /\ EventFor(k, action).action = action /\ EventFor(k, action).ts = Len(happened) + 1
  BY ScopeRecorderAssumption, SMTT(60) DEF EventFor, ScopeEvent, Keys

\* An edge is added at the end, to the edges of its scope only.
LEMMA EdgeAdded ==
    ASSUME happened \in Seq(ScopeEvent), NEW k \in Keys, NEW e \in ScopeEvent,
           e.sink = k[1], e.scope = k[2], happened' = Append(happened, e)
    PROVE  /\ happened' \in Seq(ScopeEvent) /\ Len(happened') = Len(happened) + 1
           /\ happened'[Len(happened) + 1] = e
           /\ \A i \in DOMAIN happened : i \in DOMAIN happened' /\ happened'[i] = happened[i]
           /\ \A i \in DOMAIN happened' : i \in DOMAIN happened \/ i = Len(happened) + 1
           /\ \A q \in Keys : Edges(q) \subseteq 1 .. Len(happened)
           /\ \A q \in Keys : Edges(q)' = IF q = k THEN Edges(q) \cup {Len(happened) + 1} ELSE Edges(q)
  <1>1. /\ happened' \in Seq(ScopeEvent) /\ Len(happened') = Len(happened) + 1
        /\ happened'[Len(happened) + 1] = e
        /\ \A i \in DOMAIN happened : i \in DOMAIN happened' /\ happened'[i] = happened[i]
        /\ \A i \in DOMAIN happened' : i \in DOMAIN happened \/ i = Len(happened) + 1
    BY SMTT(60)
  <1>2. \A q \in Keys : Edges(q) \subseteq 1 .. Len(happened)
    BY SMTT(60) DEF Edges
  <1>3. ASSUME NEW q \in Keys PROVE Edges(q)' = IF q = k THEN Edges(q) \cup {Len(happened) + 1} ELSE Edges(q)
    <2>1. q # k => q[1] # k[1] \/ q[2] # k[2]
      BY SMTT(60) DEF Keys
    <2>2. Len(happened) + 1 \in DOMAIN happened'
      BY <1>1, SMTT(60)
    <2>3. QED
      BY <1>1, <2>1, <2>2, SMTT(60) DEF Edges
  <1>4. QED
    BY <1>1, <1>2, <1>3

\* A first interest opens an epoch, a last one closes it.
LEMMA EdgeKeeps ==
    ASSUME LogInv, NEW k \in Keys, NEW action \in {"Started", "Stopped"},
           Len(happened) < MaxTransitions, happened' = Append(happened, EventFor(k, action)),
           active' \in [Keys -> SUBSET Targets], warming' \in [Keys -> Nat],
           \A q \in Keys : q # k => active'[q] = active[q] /\ warming'[q] = warming[q],
           action = "Started" => active[k] = {} /\ active'[k] # {} /\ warming'[k] = Len(happened) + 1,
           action = "Stopped" => active[k] # {} /\ active'[k] = {} /\ warming'[k] = 0
    PROVE  LogInv'
  <1> DEFINE e == EventFor(k, action)
             n == Len(happened) + 1
  <1>1. /\ happened \in Seq(ScopeEvent) /\ EpochsAlternate /\ \A i \in DOMAIN happened : happened[i].ts = i
        /\ e \in ScopeEvent /\ e.sink = k[1] /\ e.scope = k[2] /\ e.action = action /\ e.ts = n
    BY EventFacts, SMTT(60) DEF LogInv
  <1>2. happened' = Append(happened, e)
    OBVIOUS
  <1> HIDE DEF e
  <1>3. /\ happened' \in Seq(ScopeEvent) /\ Len(happened') = n /\ happened'[n] = e
        /\ \A i \in DOMAIN happened : i \in DOMAIN happened' /\ happened'[i] = happened[i]
        /\ \A i \in DOMAIN happened' : i \in DOMAIN happened \/ i = n
        /\ \A q \in Keys : Edges(q) \subseteq 1 .. Len(happened)
        /\ \A q \in Keys : Edges(q)' = IF q = k THEN Edges(q) \cup {n} ELSE Edges(q)
    BY <1>1, <1>2, EdgeAdded, SMTT(60)
  <1>4. n \in Nat /\ \A q \in Keys : \A i \in Edges(q) : i \in Nat /\ i < n /\ i \in DOMAIN happened
    BY <1>1, <1>3, SMTT(60)
  <1> HIDE DEF n
  <1>5. \A i \in DOMAIN happened' : happened'[i].ts = i
    BY <1>1, <1>3
  <1>6. ASSUME NEW q \in Keys, q # k PROVE Alternates(q)'
    <2>1. Edges(q)' = Edges(q) /\ active'[q] = active[q] /\ warming'[q] = warming[q]
      BY <1>3, <1>6
    <2>2. \A i \in Edges(q) : happened'[i] = happened[i]
      BY <1>3, <1>4
    <2>3. \A i, j \in Edges(q) : Consecutive(q, i, j)' => Consecutive(q, i, j)
      BY <2>1 DEF Consecutive
    <2>4. Alternates(q)
      BY <1>1 DEF EpochsAlternate
    <2>5. ASSUME NEW i \in Edges(q)', \A m \in Edges(q)' : i <= m PROVE happened'[i].action = "Started"
      <3>1. i \in Edges(q) /\ \A m \in Edges(q) : i <= m
        BY <2>1, <2>5
      <3>2. happened[i].action = "Started"
        BY <2>4, <3>1 DEF Alternates
      <3>3. QED
        BY <2>2, <3>1, <3>2
    <2>6. ASSUME NEW i \in Edges(q)', NEW j \in Edges(q)', Consecutive(q, i, j)'
          PROVE  happened'[i].action # happened'[j].action
      <3>1. i \in Edges(q) /\ j \in Edges(q) /\ Consecutive(q, i, j)
        BY <2>1, <2>3, <2>6
      <3>2. happened[i].action # happened[j].action
        BY <2>4, <3>1 DEF Alternates
      <3>3. QED
        BY <2>2, <3>1, <3>2
    <2>7. \A i \in Edges(q)' : (\A m \in Edges(q)' : m <= i) =>
              /\ happened'[i].action = "Started" <=> active'[q] # {}
              /\ active'[q] # {} => warming'[q] = happened'[i].ts
      <3> SUFFICES ASSUME NEW i \in Edges(q)', \A m \in Edges(q)' : m <= i
                   PROVE  /\ happened'[i].action = "Started" <=> active'[q] # {}
                          /\ active'[q] # {} => warming'[q] = happened'[i].ts
        OBVIOUS
      <3>1. i \in Edges(q) /\ \A m \in Edges(q) : m <= i
        BY <2>1
      <3>2. /\ happened[i].action = "Started" <=> active[q] # {}
            /\ active[q] # {} => warming[q] = happened[i].ts
        BY <2>4, <3>1 DEF Alternates
      <3>3. QED
        BY <2>1, <2>2, <3>1, <3>2
    <2>8. QED
      BY <2>1, <2>4, <2>5, <2>6, <2>7 DEF Alternates
  <1>7. Alternates(k)'
    <2> Alternates(k)
      BY <1>1 DEF EpochsAlternate
    <2>1. Edges(k)' = Edges(k) \cup {n} /\ happened'[n] = e
      BY <1>3
    <2>2. \A i \in Edges(k) : i \in Nat /\ i < n /\ happened'[i] = happened[i]
      BY <1>3, <1>4
    <2>3. ASSUME NEW i \in Edges(k)', \A m \in Edges(k)' : i <= m PROVE happened'[i].action = "Started"
      <3>1. CASE i \in Edges(k)
        BY <2>1, <2>2, <2>3, <3>1 DEF Alternates
      <3>2. CASE i = n
        <4>1. Edges(k) = {}
          BY <1>4, <2>1, <2>2, <2>3, <3>2, SMTT(60)
        <4>2. QED
          BY <1>1, <2>1, <3>2, <4>1 DEF Alternates
      <3>3. QED
        BY <2>1, <3>1, <3>2
    <2>4. ASSUME NEW i \in Edges(k)', NEW j \in Edges(k)', Consecutive(k, i, j)'
          PROVE  happened'[i].action # happened'[j].action
      <3>1. i < j /\ \A m \in Edges(k) : m <= i \/ j <= m
        BY <2>1, <2>4 DEF Consecutive
      <3>2. i \in Edges(k)
        BY <1>4, <2>1, <2>2, <3>1, SMTT(60)
      <3>3. CASE j \in Edges(k)
        <4>1. Consecutive(k, i, j)
          BY <3>1 DEF Consecutive
        <4>2. happened[i].action # happened[j].action
          BY <3>2, <3>3, <4>1 DEF Alternates
        <4>3. QED
          BY <2>2, <3>2, <3>3, <4>2
      <3>4. CASE j = n
        <4>1. \A m \in Edges(k) : m <= i
          BY <1>4, <2>2, <3>1, <3>4, SMTT(60)
        <4>2. happened[i].action = "Started" <=> active[k] # {}
          BY <1>1, <3>2, <4>1 DEF Alternates
        <4>3. QED
          BY <1>1, <2>1, <2>2, <3>2, <3>4, <4>2
      <3>5. QED
        BY <2>1, <3>3, <3>4
    <2>5. ASSUME NEW i \in Edges(k)', \A m \in Edges(k)' : m <= i PROVE i = n
      BY <1>4, <2>1, <2>2, <2>5, SMTT(60)
    <2>6. \A i \in Edges(k)' : (\A m \in Edges(k)' : m <= i) =>
              /\ happened'[i].action = "Started" <=> active'[k] # {}
              /\ active'[k] # {} => warming'[k] = happened'[i].ts
      BY <1>1, <2>1, <2>5 DEF n
    <2>7. Edges(k)' # {} /\ (active'[k] = {} => warming'[k] = 0)
      BY <2>1
    <2>8. QED
      BY <2>3, <2>4, <2>6, <2>7 DEF Alternates
  <1>8. EpochsAlternate'
    BY <1>6, <1>7 DEF EpochsAlternate
  <1>9. QED
    BY <1>3, <1>5, <1>8 DEF LogInv

LEMMA ReportKeepsLog == ASSUME LogInv, NEW k \in Keys, NEW t \in Targets, ScopeStarted(k, t) \/ ScopeStopped(k, t) PROVE LogInv'
  <1>1. active \in [Keys -> SUBSET Targets] /\ warming \in [Keys -> Nat] /\ happened \in Seq(ScopeEvent)
    BY DEF LogInv
  <1>2. CASE ScopeStarted(k, t)
    <2>1. active' \in [Keys -> SUBSET Targets] /\ active'[k] = active[k] \cup {t} /\ \A q \in Keys : q # k => active'[q] = active[q]
      BY <1>1, <1>2 DEF ScopeStarted
    <2>2. CASE t \notin active[k] /\ active'[k] = {t}
      <3>1. happened' = Append(happened, EventFor(k, "Started")) /\ warming' = [warming EXCEPT ![k] = Len(happened) + 1]
        BY <1>2, <2>2 DEF ScopeStarted, EnqueueEvent
      <3>2. Len(happened) < MaxTransitions /\ Len(happened) \in Nat /\ active[k] = {}
        BY <1>1, <1>2, <2>1, <2>2, SMTT(60) DEF ScopeStarted
      <3>3. /\ warming' \in [Keys -> Nat] /\ warming'[k] = Len(happened) + 1
            /\ \A q \in Keys : q # k => warming'[q] = warming[q]
        BY <1>1, <3>1, <3>2, SMTT(60)
      <3>4. QED
        BY <2>1, <2>2, <3>1, <3>2, <3>3, EdgeKeeps
    <2>3. CASE ~(t \notin active[k] /\ active'[k] = {t})
      <3>1. UNCHANGED <<happened, warming>>
        BY <1>2, <2>3 DEF ScopeStarted
      <3>2. active[k] # {} /\ active'[k] # {}
        BY <2>1, <2>3
      <3>3. ASSUME NEW q \in Keys PROVE Alternates(q)'
        <4>1. Alternates(q) /\ (active'[q] = {} <=> active[q] = {})
          BY <2>1, <3>2 DEF LogInv, EpochsAlternate
        <4>2. QED
          BY <3>1, <4>1, SMTT(60) DEF Alternates, Edges, Consecutive
      <3>4. QED
        BY <2>1, <3>1, <3>3 DEF LogInv, EpochsAlternate
    <2>4. QED
      BY <2>2, <2>3
  <1>3. CASE ScopeStopped(k, t)
    <2>1. active' \in [Keys -> SUBSET Targets] /\ active'[k] = active[k] \ {t} /\ \A q \in Keys : q # k => active'[q] = active[q]
      BY <1>1, <1>3 DEF ScopeStopped
    <2>2. CASE t \in active[k] /\ active'[k] = {}
      <3>1. happened' = Append(happened, EventFor(k, "Stopped")) /\ warming' = [warming EXCEPT ![k] = 0]
        BY <1>3, <2>2 DEF ScopeStopped, EnqueueEvent
      <3>2. Len(happened) < MaxTransitions
        BY <1>3 DEF ScopeStopped
      <3>3. QED
        BY <1>1, <2>1, <2>2, <3>1, <3>2, EdgeKeeps
    <2>3. CASE ~(t \in active[k] /\ active'[k] = {})
      <3>1. UNCHANGED <<happened, warming>>
        BY <1>3, <2>3 DEF ScopeStopped
      <3>2. active[k] = {} <=> active'[k] = {}
        BY <2>1, <2>3
      <3>3. ASSUME NEW q \in Keys PROVE Alternates(q)'
        <4>1. Alternates(q) /\ (active'[q] = {} <=> active[q] = {})
          BY <2>1, <3>2 DEF LogInv, EpochsAlternate
        <4>2. QED
          BY <3>1, <4>1, SMTT(60) DEF Alternates, Edges, Consecutive
      <3>4. QED
        BY <2>1, <3>1, <3>3 DEF LogInv, EpochsAlternate
    <2>4. QED
      BY <2>2, <2>3
  <1>4. QED
    BY <1>2, <1>3

LEMMA LogStep == LogInv /\ [PathNext]_pathVars => LogInv'
  <1> SUFFICES ASSUME LogInv, [PathNext]_pathVars PROVE LogInv'
    OBVIOUS
  <1>1. CASE UNCHANGED <<active, warming, happened>>
    BY <1>1, SMTT(60) DEF LogInv, EpochsAlternate, Alternates, Edges, Consecutive
  <1>2. CASE Reports
    BY <1>2, ReportKeepsLog, ScopePathAssumption DEF Reports
  <1>3. QED
    BY <1>1, <1>2 DEF PathNext, BeginFlush, Shutdown, FlushStep, ReadHead, LookUpWriter, Pop,
       Call, CallSends, CallGivesUp,
       CallRefused, CallElsewhere, Accepted, Refused, Return, Routed, Unrouted, SinkComes, SinkGoes, WriterStep, Stop, Cancel,
       vars, queueVars, pathVars

LEMMA LogInit == PathInit => LogInv
  BY SMTT(60) DEF PathInit, Init, LogInv, EpochsAlternate, Alternates, Edges, ScopeEvent

\* A scope's epochs alternate in the log, whichever targets come, go and fail to come
\* (ScopeStarted, ScopeStopped).
THEOREM EpochsDoAlternate == PathSpec => []EpochsAlternate
  <1>1. LogInv => EpochsAlternate
    BY DEF LogInv
  <1>2. PathSteps => []EpochsAlternate
    BY <1>1, LogInit, LogStep, PTL DEF PathSteps
  <1>3. QED
    BY <1>2, PTL DEF PathSpec

-----------------------------------------------------------------------------
\* The recorder's queue. An edge is queued, was lost to an overflow, or was handed to
\* its sink; and what is queued is later than what the flush has in hand, which is
\* later than what was handed over.
InHand == loop \in {"handing", "calling", "popping"}

Recorded(e) == e \in Range(pending) \/ e \in lost \/ e \in Range(handed[e.sink])

QueueOrdered ==
    /\ \A i, j \in DOMAIN pending : i < j => pending[i].ts < pending[j].ts
    /\ \A i \in DOMAIN pending : pending[i].ts <= Len(happened)

NextIsFirst ==
    InHand => /\ next \in ScopeEvent /\ next.ts <= Len(happened)
              /\ \A i \in DOMAIN pending : (i = 1 /\ pending[i] = next) \/ next.ts < pending[i].ts

HandedBefore(h) ==
    /\ h.ts <= Len(happened)
    /\ loop \in {"handing", "calling"} => h.ts < next.ts
    /\ loop = "popping" => h.ts <= next.ts
    /\ ~InHand => \A i \in DOMAIN pending : h.ts < pending[i].ts

RecorderInv ==
    /\ happened \in Seq(ScopeEvent) /\ pending \in Seq(ScopeEvent) /\ lost \subseteq ScopeEvent
    /\ handed \in [Sinks -> Seq(ScopeEvent)]
    /\ \A e \in Range(happened) : Recorded(e)
    /\ QueueOrdered /\ NextIsFirst
    /\ \A s \in Sinks : \A h \in Range(handed[s]) : HandedBefore(h)
    /\ loop = "popping" => next \in Range(handed[next.sink])

LEMMA StampFacts == ASSUME NEW e \in ScopeEvent PROVE e.ts \in Nat \ {0} /\ e.sink \in Sinks
  BY ScopeRecorderAssumption, SMTT(60) DEF ScopeEvent

LEMMA RangeTypes == ASSUME NEW S, NEW s \in Seq(S) PROVE Range(s) \subseteq S /\ \A i \in DOMAIN s : s[i] \in Range(s) /\ s[i] \in S /\ i \in Nat \ {0}
  BY SMTT(60) DEF Range

\* An edge is queued; on overflow the oldest go.
LEMMA EnqueueKeeps ==
    ASSUME RecorderInv, NEW event \in ScopeEvent, event.ts = Len(happened) + 1,
           EnqueueEvent(event), UNCHANGED <<loop, next, handed>>
    PROVE  RecorderInv'
  <1> DEFINE queued == Append(pending, event)
             n == IF Len(queued) > QueueLimit THEN Len(queued) - QueueLimit ELSE 0
  <1>1. /\ happened \in Seq(ScopeEvent) /\ pending \in Seq(ScopeEvent) /\ lost \subseteq ScopeEvent
        /\ handed \in [Sinks -> Seq(ScopeEvent)] /\ QueueLimit \in Nat \ {0}
    BY ScopeRecorderAssumption DEF RecorderInv
  <1>2. /\ queued \in Seq(ScopeEvent) /\ Len(queued) = Len(pending) + 1 /\ queued[Len(pending) + 1] = event
        /\ \A i \in DOMAIN pending : queued[i] = pending[i]
        /\ Range(queued) = Range(pending) \cup {event}
    BY <1>1, RangeAppend, SMTT(60)
  <1>3. n \in 0 .. Len(pending) /\ n \in 0 .. Len(queued)
    BY <1>1, <1>2, SMTT(60)
  <1>4. /\ pending' = SubSeq(queued, n + 1, Len(queued))
        /\ lost' = lost \cup Range(SubSeq(pending, 1, n))
        /\ happened' = Append(happened, event)
    BY DEF EnqueueEvent
  <1> HIDE DEF queued, n
  <1>5. /\ pending' \in Seq(ScopeEvent)
        /\ \A i \in DOMAIN pending' : i \in Nat \ {0} /\ i + n \in DOMAIN queued /\ pending'[i] = queued[i + n]
        /\ Range(queued) = Range(SubSeq(queued, 1, n)) \cup Range(pending')
    BY <1>2, <1>3, <1>4, Overflows, SMTT(60)
  <1>6. SubSeq(queued, 1, n) = SubSeq(pending, 1, n)
    <2>1. \A i \in 1 .. n : queued[i] = pending[i] /\ i \in DOMAIN pending
      BY <1>1, <1>2, <1>3, SMTT(60)
    <2>2. /\ \A i \in 1 .. n : SubSeq(queued, 1, n)[i] = queued[i] /\ SubSeq(pending, 1, n)[i] = pending[i]
          /\ SubSeq(queued, 1, n) \in Seq(ScopeEvent) /\ Len(SubSeq(queued, 1, n)) = n
          /\ SubSeq(pending, 1, n) \in Seq(ScopeEvent) /\ Len(SubSeq(pending, 1, n)) = n
      BY <1>1, <1>2, <1>3, <2>1, SMTT(60)
    <2>3. QED
      BY <1>3, <2>1, <2>2, SMTT(60)
  <1>7. /\ happened' \in Seq(ScopeEvent) /\ Len(happened') = Len(happened) + 1
        /\ Range(happened') = Range(happened) \cup {event} /\ Len(happened) \in Nat
    BY <1>1, <1>4, RangeAppend, SMTT(60)
  <1>8. lost' \subseteq ScopeEvent
    <2>1. Range(SubSeq(pending, 1, n)) \subseteq ScopeEvent
      BY <1>1, <1>3, Overflows, RangeTypes, SMTT(60)
    <2>2. QED
      BY <1>1, <1>4, <2>1
  <1>9. \A e \in Range(happened') : Recorded(e)'
    BY <1>2, <1>4, <1>5, <1>6, <1>7 DEF RecorderInv, Recorded
  <1>10. \A i \in DOMAIN queued : i \in Nat \ {0} /\ ((i \in DOMAIN pending /\ queued[i] = pending[i]) \/ (i = Len(pending) + 1 /\ queued[i] = event))
    BY <1>1, <1>2, SMTT(60)
  <1>11. \A i, j \in DOMAIN queued : i < j => queued[i].ts < queued[j].ts
    <2> SUFFICES ASSUME NEW i \in DOMAIN queued, NEW j \in DOMAIN queued, i < j PROVE queued[i].ts < queued[j].ts
      OBVIOUS
    <2>1. i \in DOMAIN pending /\ queued[i] = pending[i] /\ pending[i].ts \in Nat
      BY <1>1, <1>2, <1>10, StampFacts, SMTT(60)
    <2>2. QED
      BY <1>1, <1>2, <1>7, <1>10, <2>1, SMTT(60) DEF RecorderInv, QueueOrdered
  <1>12. \A i \in DOMAIN queued : queued[i].ts \in Nat /\ queued[i].ts <= Len(happened) + 1
    <2> SUFFICES ASSUME NEW i \in DOMAIN queued PROVE queued[i].ts \in Nat /\ queued[i].ts <= Len(happened) + 1
      OBVIOUS
    <2>1. CASE i \in DOMAIN pending /\ queued[i] = pending[i]
      <3>1. pending[i] \in ScopeEvent /\ pending[i].ts <= Len(happened)
        BY <1>1, <2>1, SMTT(60) DEF RecorderInv, QueueOrdered
      <3>2. QED
        BY <1>7, <2>1, <3>1, StampFacts, SMTT(60)
    <2>2. CASE queued[i] = event
      BY <1>7, <2>2, SMTT(60)
    <2>3. QED
      BY <1>10, <2>1, <2>2
  <1>13. QueueOrdered'
    <2>1. ASSUME NEW i \in DOMAIN pending', NEW j \in DOMAIN pending', i < j PROVE pending'[i].ts < pending'[j].ts
      <3>1. i + n < j + n /\ i + n \in DOMAIN queued /\ j + n \in DOMAIN queued
        BY <1>3, <1>5, <2>1, SMTT(60)
      <3>2. QED
        BY <1>5, <1>11, <3>1
    <2>2. \A i \in DOMAIN pending' : pending'[i].ts <= Len(happened')
      BY <1>5, <1>7, <1>12
    <2>3. QED
      BY <2>1, <2>2 DEF QueueOrdered
  <1>14. NextIsFirst'
    <2> SUFFICES ASSUME InHand PROVE /\ next \in ScopeEvent /\ next.ts <= Len(happened')
                                      /\ \A i \in DOMAIN pending' : (i = 1 /\ pending'[i] = next) \/ next.ts < pending'[i].ts
      BY DEF NextIsFirst, InHand
    <2>1. /\ next \in ScopeEvent /\ next.ts \in Nat /\ next.ts <= Len(happened)
          /\ \A i \in DOMAIN pending : (i = 1 /\ pending[i] = next) \/ next.ts < pending[i].ts
      BY StampFacts DEF RecorderInv, NextIsFirst
    <2>2. ASSUME NEW i \in DOMAIN pending' PROVE (i = 1 /\ pending'[i] = next) \/ next.ts < pending'[i].ts
      <3>1. i \in Nat \ {0} /\ i + n \in DOMAIN queued /\ pending'[i] = queued[i + n]
        BY <1>5
      <3>2. CASE i + n \in DOMAIN pending /\ queued[i + n] = pending[i + n]
        BY <1>3, <2>1, <3>1, <3>2, SMTT(60)
      <3>3. CASE queued[i + n] = event
        BY <1>7, <2>1, <3>1, <3>3, SMTT(60)
      <3>4. QED
        BY <1>10, <3>1, <3>2, <3>3
    <2>3. QED
      BY <1>7, <2>1, <2>2, SMTT(60)
  <1>15. ASSUME NEW s \in Sinks, NEW h \in Range(handed[s]) PROVE HandedBefore(h)'
    <2>1. h \in ScopeEvent /\ h.ts \in Nat /\ HandedBefore(h)
      BY <1>1, RangeTypes, StampFacts DEF RecorderInv
    <2>2. ASSUME ~InHand, NEW i \in DOMAIN pending' PROVE h.ts < pending'[i].ts
      <3>1. i + n \in DOMAIN queued /\ pending'[i] = queued[i + n]
        BY <1>5
      <3>2. QED
        BY <1>7, <1>10, <2>1, <2>2, <3>1, SMTT(60) DEF HandedBefore
    <2>3. QED
      BY <1>7, <2>1, <2>2, SMTT(60) DEF HandedBefore, InHand
  <1>16. QED
    BY <1>1, <1>5, <1>7, <1>8, <1>9, <1>13, <1>14, <1>15 DEF RecorderInv

LEMMA ReportKeepsQueue ==
    ASSUME RecorderInv, NEW k \in Keys, NEW t, ScopeStarted(k, t) \/ ScopeStopped(k, t) PROVE RecorderInv'
  <1>1. UNCHANGED <<loop, next, handed>> /\ Len(happened) < MaxTransitions
    BY DEF ScopeStarted, ScopeStopped, loopVars
  <1>2. CASE UNCHANGED <<pending, lost, happened>>
    BY <1>1, <1>2 DEF RecorderInv, Recorded, QueueOrdered, NextIsFirst, HandedBefore, InHand
  <1>3. CASE EnqueueEvent(EventFor(k, "Started")) \/ EnqueueEvent(EventFor(k, "Stopped"))
    <2>1. PICK action \in {"Started", "Stopped"} : EnqueueEvent(EventFor(k, action))
      BY <1>3
    <2>2. EventFor(k, action) \in ScopeEvent /\ EventFor(k, action).ts = Len(happened) + 1
      BY <1>1, ScopeRecorderAssumption, SMTT(60) DEF EventFor, ScopeEvent, Keys, RecorderInv
    <2>3. QED
      BY <1>1, <2>1, <2>2, EnqueueKeeps
  <1>4. QED
    BY <1>2, <1>3 DEF ScopeStarted, ScopeStopped

\* The flush reads, looks up, hands over and pops.
LEMMA ReadKeeps == ASSUME RecorderInv, ReadHead PROVE RecorderInv'
  <1>1. UNCHANGED <<pending, lost, happened, handed>> /\ loop = "flushing"
    BY DEF ReadHead, queueVars
  <1>2. pending \in Seq(ScopeEvent) /\ handed \in [Sinks -> Seq(ScopeEvent)]
    BY DEF RecorderInv
  <1>3. CASE pending = <<>>
    <2>1. loop' \in {"stopped", "waiting"}
      BY <1>3 DEF ReadHead, Return
    <2>2. QED
      BY <1>1, <1>3, <2>1 DEF RecorderInv, Recorded, QueueOrdered, NextIsFirst, HandedBefore,
         InHand
  <1>4. CASE pending # <<>>
    <2>1. loop' = "handing" /\ next' = Head(pending) /\ next' = pending[1] /\ 1 \in DOMAIN pending /\ next' \in ScopeEvent
      BY <1>2, <1>4, RangeTail, SMTT(60) DEF ReadHead
    <2>2. \A i \in DOMAIN pending : i \in Nat \ {0} /\ (i = 1 \/ pending[1].ts < pending[i].ts)
      BY <1>2, <2>1, SMTT(60) DEF RecorderInv, QueueOrdered
    <2>3. NextIsFirst'
      BY <1>1, <2>1, <2>2 DEF RecorderInv, QueueOrdered, NextIsFirst
    <2>4. \A s \in Sinks : \A h \in Range(handed[s]) : HandedBefore(h)'
      BY <1>1, <2>1 DEF RecorderInv, HandedBefore, InHand
    <2>5. QED
      BY <1>1, <2>1, <2>3, <2>4 DEF RecorderInv, Recorded, QueueOrdered
  <1>5. QED
    BY <1>3, <1>4

LEMMA ReturnKeeps ==
    ASSUME RecorderInv, UNCHANGED <<pending, lost, happened, handed>>, loop \in {"handing", "calling"},
           loop' \in {"waiting", "stopped"}
    PROVE  RecorderInv'
  <1>1. ASSUME NEW s \in Sinks, NEW h \in Range(handed[s]) PROVE HandedBefore(h)'
    <2>1. /\ h \in ScopeEvent /\ h.ts \in Nat /\ HandedBefore(h) /\ next \in ScopeEvent /\ next.ts \in Nat
          /\ pending \in Seq(ScopeEvent)
      BY RangeTypes, StampFacts DEF RecorderInv, NextIsFirst, InHand
    <2>2. \A i \in DOMAIN pending : pending[i].ts \in Nat /\ next.ts <= pending[i].ts
      BY <2>1, StampFacts, SMTT(60) DEF RecorderInv, NextIsFirst, InHand
    <2>3. QED
      BY <2>1, <2>2, SMTT(60) DEF HandedBefore, InHand
  <1>2. QED
    BY <1>1 DEF RecorderInv, Recorded, QueueOrdered, NextIsFirst, InHand

LEMMA LookUpKeeps == ASSUME RecorderInv, LookUpWriter PROVE RecorderInv'
  <1>1. UNCHANGED <<pending, lost, happened, handed>> /\ loop = "handing"
    BY DEF LookUpWriter, queueVars
  <1>2. CASE next.sink \in live
    BY <1>1, <1>2 DEF LookUpWriter, RecorderInv, Recorded, QueueOrdered, NextIsFirst,
       HandedBefore, InHand
  <1>3. CASE next.sink \notin live
    BY <1>1, <1>3, ReturnKeeps DEF LookUpWriter, Return
  <1>4. QED
    BY <1>2, <1>3

LEMMA RefusedKeeps == ASSUME RecorderInv, Refused PROVE RecorderInv'
  BY ReturnKeeps DEF Refused, Return, queueVars

LEMMA AcceptedKeeps == ASSUME RecorderInv, Accepted PROVE RecorderInv'
  <1>1. UNCHANGED <<pending, lost, happened, next>> /\ loop = "calling" /\ loop' = "popping"
    BY DEF Accepted, queueVars
  <1>2. next \in ScopeEvent /\ next.sink \in Sinks /\ next.ts \in Nat /\ handed \in [Sinks -> Seq(ScopeEvent)] /\ next.ts <= Len(happened)
    BY <1>1, StampFacts DEF RecorderInv, NextIsFirst, InHand
  <1>3. /\ handed' \in [Sinks -> Seq(ScopeEvent)] /\ handed'[next.sink] = Append(handed[next.sink], next)
        /\ \A s \in Sinks : s # next.sink => handed'[s] = handed[s]
    BY <1>2, SMTT(60) DEF Accepted
  <1>4. Range(handed'[next.sink]) = Range(handed[next.sink]) \cup {next}
    BY <1>2, <1>3, RangeAppend, SMTT(60)
  <1>5. \A e \in Range(happened) : e \in ScopeEvent /\ e.sink \in Sinks
    BY RangeTypes, StampFacts DEF RecorderInv
  <1>6. \A e \in Range(happened) : Recorded(e)'
    BY <1>1, <1>3, <1>4, <1>5 DEF RecorderInv, Recorded
  <1>7. ASSUME NEW s \in Sinks, NEW h \in Range(handed'[s]) PROVE HandedBefore(h)'
    <2>1. h \in Range(handed[s]) \/ h = next
      BY <1>3, <1>4
    <2>2. CASE h \in Range(handed[s])
      <3>1. h \in ScopeEvent /\ h.ts \in Nat /\ HandedBefore(h)
        BY <1>2, <2>2, RangeTypes, StampFacts DEF RecorderInv
      <3>2. QED
        BY <1>1, <1>2, <3>1, SMTT(60) DEF HandedBefore, InHand
    <2>3. CASE h = next
      BY <1>1, <1>2, <2>3, SMTT(60) DEF HandedBefore, InHand
    <2>4. QED
      BY <2>1, <2>2, <2>3
  <1>8. QED
    BY <1>1, <1>3, <1>4, <1>6, <1>7 DEF RecorderInv, QueueOrdered, NextIsFirst, InHand

LEMMA PopKeeps == ASSUME RecorderInv, Pop PROVE RecorderInv'
  <1>1. UNCHANGED <<lost, happened, handed>> /\ loop = "popping" /\ loop' = "flushing"
    BY DEF Pop
  <1>2. /\ pending \in Seq(ScopeEvent) /\ next \in ScopeEvent /\ next.ts \in Nat /\ next \in Range(handed[next.sink])
        /\ \A i \in DOMAIN pending : (i = 1 /\ pending[i] = next) \/ next.ts < pending[i].ts
        /\ \A i \in DOMAIN pending : pending[i].ts \in Nat
    BY <1>1, StampFacts, SMTT(60) DEF RecorderInv, NextIsFirst, InHand
  <1>3. /\ pending' \in Seq(ScopeEvent) /\ Range(pending) \subseteq Range(pending') \cup {next}
        /\ QueueOrdered' /\ \A i \in DOMAIN pending' : next.ts < pending'[i].ts
    <2>1. CASE pending # <<>> /\ Head(pending) = next
      <3>1. pending' = Tail(pending)
        BY <2>1 DEF Pop
      <3>2. /\ pending' \in Seq(ScopeEvent) /\ Range(pending) = {next} \cup Range(pending')
            /\ \A i \in DOMAIN pending' : i \in Nat \ {0} /\ i + 1 \in DOMAIN pending /\ pending'[i] = pending[i + 1]
        BY <1>2, <2>1, <3>1, RangeTail, SMTT(60)
      <3>3. QueueOrdered'
        <4>1. ASSUME NEW i \in DOMAIN pending', NEW j \in DOMAIN pending', i < j PROVE pending'[i].ts < pending'[j].ts
          <5>1. i + 1 < j + 1 /\ i + 1 \in DOMAIN pending /\ j + 1 \in DOMAIN pending
            BY <3>2, <4>1, SMTT(60)
          <5>2. QED
            BY <3>2, <5>1 DEF RecorderInv, QueueOrdered
        <4>2. \A i \in DOMAIN pending' : pending'[i].ts <= Len(happened')
          BY <1>1, <3>2 DEF RecorderInv, QueueOrdered
        <4>3. QED
          BY <4>1, <4>2 DEF QueueOrdered
      <3>4. QED
        BY <1>2, <3>2, <3>3, SMTT(60)
    <2>2. CASE ~(pending # <<>> /\ Head(pending) = next)
      <3>1. pending' = pending
        BY <2>2 DEF Pop
      <3>2. \A i \in DOMAIN pending : ~(i = 1 /\ pending[i] = next)
        BY <1>2, <2>2, SMTT(60)
      <3>3. QED
        BY <1>1, <1>2, <3>1, <3>2 DEF RecorderInv, QueueOrdered
    <2>3. QED
      BY <2>1, <2>2
  <1>4. \A e \in Range(happened) : Recorded(e)'
    BY <1>1, <1>2, <1>3 DEF RecorderInv, Recorded
  <1>5. ASSUME NEW s \in Sinks, NEW h \in Range(handed[s]) PROVE HandedBefore(h)'
    <2>1. h \in ScopeEvent /\ h.ts \in Nat /\ HandedBefore(h) /\ \A i \in DOMAIN pending' : pending'[i].ts \in Nat
      BY <1>3, RangeTypes, StampFacts, SMTT(60) DEF RecorderInv
    <2>2. QED
      BY <1>1, <1>2, <1>3, <2>1, SMTT(60) DEF HandedBefore, InHand
  <1>6. QED
    BY <1>1, <1>3, <1>4, <1>5 DEF RecorderInv, NextIsFirst, InHand

LEMMA BeginKeeps == ASSUME RecorderInv, BeginFlush \/ Shutdown PROVE RecorderInv'
  <1>1. UNCHANGED <<pending, lost, happened, handed, next>> /\ loop = "waiting" /\ loop' \in {"flushing", "stopped"}
    BY DEF BeginFlush, Shutdown
  <1>2. QED
    BY <1>1 DEF RecorderInv, Recorded, QueueOrdered, NextIsFirst, HandedBefore, InHand

LEMMA RecorderInit == Init => RecorderInv
  <1> SUFFICES ASSUME Init PROVE RecorderInv
    OBVIOUS
  <1>1. /\ happened = <<>> /\ pending = <<>> /\ lost = {} /\ loop = "waiting" /\ handed = [s \in Sinks |-> <<>>]
        /\ happened \in Seq(ScopeEvent) /\ pending \in Seq(ScopeEvent) /\ handed \in [Sinks -> Seq(ScopeEvent)]
    BY SMTT(60) DEF Init
  <1>2. Range(<<>>) = {}
    BY SMTT(60) DEF Range
  <1>3. QED
    BY <1>1, <1>2, SMTT(60) DEF RecorderInv, Recorded, QueueOrdered, NextIsFirst, HandedBefore, InHand

\* Every step of the path is one of the recorder or leaves it alone.
LEMMA RecorderStep == RecorderInv /\ [PathNext]_pathVars => RecorderInv'
  <1> SUFFICES ASSUME RecorderInv, [PathNext]_pathVars PROVE RecorderInv'
    OBVIOUS
  <1>1. CASE UNCHANGED <<pending, lost, happened, handed, next, loop>>
    BY <1>1 DEF RecorderInv, Recorded, QueueOrdered, NextIsFirst, HandedBefore, InHand
  <1>2. CASE Reports
    BY <1>2, ReportKeepsQueue DEF Reports
  <1>3. CASE BeginFlush \/ Shutdown \/ ReadHead \/ LookUpWriter \/ Refused \/ Accepted \/ Pop
    BY <1>3, BeginKeeps, ReadKeeps, LookUpKeeps, RefusedKeeps, AcceptedKeeps, PopKeeps
  <1>4. QED
    BY <1>1, <1>2, <1>3 DEF PathNext, FlushStep, Call, CallSends, CallGivesUp, CallRefused,
       CallElsewhere,
       Routed, Unrouted, SinkComes, SinkGoes, WriterStep, Stop, Cancel, vars, queueVars, loopVars, pathVars

-----------------------------------------------------------------------------
\* The writer's side. What it was handed is with it, in the table, or went in an
\* overflow; and what it holds, it was handed.
Insert == [batch : Seq(Nat), rows : SUBSET Nat]

Within(q) == q \in Seq(Nat) /\ Range(q) \subseteq accepted

WriterInv ==
    /\ accepted = Stamps(Range(handed[Logged]))
    /\ worker # "flushing" => flight = <<>>
    /\ Within(queue) /\ Within(batch) /\ Within(flight) /\ Within(retries)
    /\ landed \in Seq(Insert) /\ \A m \in DOMAIN landed : Within(landed[m].batch)
    /\ \A e \in accepted : e \in Writer!Kept \/ e \in Writer!Landed \/ e \in overflowed

LEMMA SameRange == ASSUME NEW s PROVE Writer!Range(s) = Range(s)
  BY DEF Range, Writer!Range

LEMMA LandedGrows ==
    ASSUME landed \in Seq(Insert), flight \in Seq(Nat), NEW rows \in SUBSET Nat, Writer!Land(rows)
    PROVE  /\ landed' \in Seq(Insert) /\ Writer!Landed' = Writer!Landed \cup rows /\ Len(landed) \in Nat
           /\ \A m \in DOMAIN landed' :
                 /\ m \in Nat \ {0}
                 /\ \/ m \in DOMAIN landed /\ landed'[m] = landed[m]
                    \/ m = Len(landed) + 1 /\ landed'[m].batch = flight
  <1>1. CASE rows \subseteq Writer!Landed
    <2>1. landed' = landed
      BY <1>1 DEF Writer!Land
    <2>2. Writer!Landed' = Writer!Landed
      BY <2>1, SameRange DEF Writer!Landed
    <2>3. Writer!Landed' = Writer!Landed \cup rows
      BY <1>1, <2>2
    <2>4. Len(landed) \in Nat /\ \A m \in DOMAIN landed : m \in Nat \ {0}
      BY SMTT(60)
    <2>5. QED
      BY <2>1, <2>3, <2>4
  <1>2. CASE ~(rows \subseteq Writer!Landed)
    <2> DEFINE insert == [batch |-> flight, rows |-> rows]
    <2>1. insert \in Insert /\ insert.rows = rows /\ insert.batch = flight
      BY DEF Insert
    <2>2. landed' = Append(landed, insert)
      BY <1>2 DEF Writer!Land
    <2> HIDE DEF insert
    <2>3. Range(landed') = Range(landed) \cup {insert}
      BY <2>1, <2>2, RangeAppend, SMTT(60)
    <2>4. Writer!Landed' = Writer!Landed \cup rows
      BY <2>1, <2>3, SameRange DEF Writer!Landed
    <2>5. Len(landed) \in Nat /\ landed' \in Seq(Insert) /\ DOMAIN landed' = 1..(Len(landed) + 1)
      BY <2>1, <2>2, SMTT(60)
    <2>6. ASSUME NEW m \in DOMAIN landed'
          PROVE  /\ m \in Nat \ {0}
                 /\ \/ m \in DOMAIN landed /\ landed'[m] = landed[m]
                    \/ m = Len(landed) + 1 /\ landed'[m].batch = flight
      BY <2>1, <2>2, <2>5, SMTT(60)
    <2>7. QED
      BY <2>4, <2>5, <2>6
  <1>3. QED
    BY <1>1, <1>2

LEMMA InitWriter == PathInit => WriterInv
  <1> SUFFICES ASSUME PathInit PROVE WriterInv
    OBVIOUS
  <1>1. /\ accepted = {} /\ queue = <<>> /\ batch = <<>> /\ flight = <<>> /\ retries = <<>> /\ landed = <<>>
        /\ handed[Logged] = <<>>
    BY ScopePathAssumption DEF PathInit, Init, Writer!Init
  <1>2. Range(<<>>) = {} /\ <<>> \in Seq(Nat) /\ <<>> \in Seq(Insert) /\ DOMAIN <<>> = {}
    BY SMTT(60) DEF Range
  <1>3. QED
    BY <1>1, <1>2 DEF WriterInv, Within, Stamps

LEMMA SendKeeps ==
    ASSUME RecorderInv, WriterInv, CallSends PROVE WriterInv'
  <1>1. /\ next \in ScopeEvent /\ next.ts \in Nat /\ next.sink = Logged /\ Logged \in Sinks
        /\ handed \in [Sinks -> Seq(ScopeEvent)] /\ loop = "calling"
    BY StampFacts, ScopePathAssumption DEF CallSends, Accepted, RecorderInv, NextIsFirst, InHand
  <1>2. /\ handed'[Logged] = Append(handed[Logged], next)
        /\ accepted' = accepted \cup {next.ts} /\ queue' = Append(queue, next.ts)
        /\ UNCHANGED <<batch, flight, retries, landed, overflowed, worker>>
    BY <1>1 DEF CallSends, Accepted, Writer!SendScopeEvent, Writer!ghostVars
  <1>3. Range(handed'[Logged]) = Range(handed[Logged]) \cup {next}
    BY <1>1, <1>2, RangeAppend, SMTT(60)
  <1>4. Range(queue') = Range(queue) \cup {next.ts} /\ queue' \in Seq(Nat)
    <2>1. queue \in Seq(Nat)
      BY DEF WriterInv, Within
    <2>2. ASSUME NEW t \in Nat PROVE Range(Append(queue, t)) = Range(queue) \cup {t} /\ Append(queue, t) \in Seq(Nat)
      BY <2>1, RangeAppend, SMTT(60)
    <2>3. QED
      BY <1>1, <1>2, <2>2
  <1>5. accepted' = Stamps(Range(handed'[Logged]))
    BY <1>2, <1>3 DEF WriterInv, Stamps
  <1>6. \A e \in accepted' : e \in Writer!Kept' \/ e \in Writer!Landed' \/ e \in overflowed'
    BY <1>2, <1>4, SameRange DEF WriterInv, Writer!Kept, Writer!Landed
  <1>7. QED
    BY <1>2, <1>4, <1>5, <1>6 DEF WriterInv, Within

\* An event that moves within the writer stays there.
LEMMA MoveKeeps ==
    ASSUME WriterInv, UNCHANGED <<handed, accepted, landed, overflowed>>, Writer!Kept' = Writer!Kept,
           queue' \in Seq(Nat), batch' \in Seq(Nat), flight' \in Seq(Nat), retries' \in Seq(Nat),
           worker' # "flushing" => flight' = <<>>
    PROVE  WriterInv'
  <1>1. Writer!Kept \subseteq accepted
    BY SameRange DEF WriterInv, Within, Writer!Kept
  <1>2. Within(queue)' /\ Within(batch)' /\ Within(flight)' /\ Within(retries)'
    BY <1>1, SameRange DEF Within, Writer!Kept
  <1>3. Writer!Landed' = Writer!Landed
    BY SameRange DEF Writer!Landed
  <1>4. QED
    BY <1>2, <1>3 DEF WriterInv, Within

LEMMA NothingIn == Range(<<>>) = {} /\ <<>> \in Seq(Nat)
  BY SMTT(60) DEF Range

LEMMA ReceiveKeeps == ASSUME WriterInv, Writer!ReceiveScopeEvent, UNCHANGED handed PROVE WriterInv'
  <1> DEFINE gathered == Append(batch, Head(queue))
  <1>1. /\ queue # <<>> /\ queue' = Tail(queue) /\ UNCHANGED <<accepted, retries, landed, overflowed>>
        /\ flight = <<>> /\ queue \in Seq(Nat) /\ batch \in Seq(Nat) /\ retries \in Seq(Nat)
        /\ \/ flight' = gathered /\ batch' = <<>> /\ worker' = "flushing"
           \/ batch' = gathered /\ flight' = flight /\ worker' = worker
    BY DEF Writer!ReceiveScopeEvent, Writer!BeginFlush, Writer!callVars, Writer!ghostVars,
       WriterInv, Within
  <1>2. Head(queue) \in Nat /\ queue' \in Seq(Nat) /\ Range(queue) = {Head(queue)} \cup Range(queue')
    BY <1>1, RangeTail
  <1>3. gathered \in Seq(Nat) /\ Range(gathered) = Range(batch) \cup {Head(queue)}
    BY <1>1, <1>2, RangeAppend, SMTT(60)
  <1> HIDE DEF gathered
  <1>4. Writer!Kept' = Writer!Kept
    BY <1>1, <1>2, <1>3, NothingIn, SameRange DEF Writer!Kept
  <1>5. QED
    BY <1>1, <1>2, <1>3, <1>4, NothingIn, MoveKeeps

LEMMA WaitKeeps == ASSUME WriterInv, Writer!BatchMaxWaitElapses, UNCHANGED handed PROVE WriterInv'
  <1>1. /\ UNCHANGED <<queue, accepted, retries, landed, overflowed>> /\ flight = <<>>
        /\ queue \in Seq(Nat) /\ batch \in Seq(Nat) /\ retries \in Seq(Nat)
        /\ flight' = batch /\ batch' = <<>> /\ worker' = "flushing"
    BY DEF Writer!BatchMaxWaitElapses, Writer!BeginFlush, Writer!callVars, Writer!ghostVars,
       WriterInv, Within
  <1>2. Writer!Kept' = Writer!Kept
    BY <1>1, NothingIn, SameRange DEF Writer!Kept
  <1>3. QED
    BY <1>1, <1>2, NothingIn, MoveKeeps

LEMMA TickKeeps == ASSUME WriterInv, Writer!RetryTick, UNCHANGED handed PROVE WriterInv'
  <1>1. /\ UNCHANGED <<queue, accepted, landed, overflowed>> /\ flight = <<>>
        /\ queue \in Seq(Nat) /\ batch \in Seq(Nat) /\ retries \in Seq(Nat)
        /\ flight' = retries \o batch /\ batch' = <<>> /\ retries' = <<>> /\ worker' = "flushing"
    BY DEF Writer!RetryTick, Writer!BeginFlush, Writer!callVars, Writer!ghostVars, WriterInv, Within
  <1>2. flight' \in Seq(Nat) /\ Range(flight') = Range(retries) \cup Range(batch)
    BY <1>1, RangeConcat, SMTT(60)
  <1>3. Writer!Kept' = Writer!Kept
    BY <1>1, <1>2, NothingIn, SameRange DEF Writer!Kept
  <1>4. QED
    BY <1>1, <1>2, <1>3, NothingIn, MoveKeeps

LEMMA ClosedKeeps == ASSUME WriterInv, Writer!ChannelClosed, UNCHANGED handed PROVE WriterInv'
  <1>1. /\ UNCHANGED <<queue, accepted, landed, overflowed>> /\ flight = <<>>
        /\ queue \in Seq(Nat) /\ batch \in Seq(Nat) /\ retries \in Seq(Nat) /\ retries' = <<>>
        /\ \/ flight' = batch \o retries /\ batch' = <<>> /\ worker' = "flushing"
           \/ batch \o retries = <<>> /\ batch' = batch /\ flight' = <<>> /\ worker' = "exited"
    BY DEF Writer!ChannelClosed, Writer!BeginFlush, Writer!callVars, Writer!ghostVars, WriterInv,
       Within
  <1>2. batch \o retries \in Seq(Nat) /\ Range(batch \o retries) = Range(batch) \cup Range(retries)
    BY <1>1, RangeConcat, SMTT(60)
  <1>3. Writer!Kept' = Writer!Kept
    BY <1>1, <1>2, NothingIn, SameRange DEF Writer!Kept
  <1>4. QED
    BY <1>1, <1>2, <1>3, NothingIn, MoveKeeps

\* A flush that ends: what it carried is in the table or back among the retries.
LEMMA EndKeeps ==
    ASSUME WriterInv, UNCHANGED <<handed, accepted, queue, batch>>, flight' = <<>>,
           NEW rows \in SUBSET Range(flight), Writer!Land(rows), Within(retries)',
           Range(retries) \subseteq Range(retries') \cup overflowed',
           Range(flight) \subseteq rows \cup Range(retries') \cup overflowed',
           overflowed \subseteq overflowed'
    PROVE  WriterInv'
  <1>1. /\ flight \in Seq(Nat) /\ landed \in Seq(Insert) /\ rows \in SUBSET Nat /\ Range(flight) \subseteq accepted
    BY RangeTypes DEF WriterInv, Within
  <1>2. /\ landed' \in Seq(Insert) /\ Writer!Landed' = Writer!Landed \cup rows
        /\ \A m \in DOMAIN landed' : (m \in DOMAIN landed /\ landed'[m] = landed[m]) \/ landed'[m].batch = flight
    BY <1>1, LandedGrows
  <1>3. \A m \in DOMAIN landed' : Within(landed[m].batch)'
    <2> SUFFICES ASSUME NEW m \in DOMAIN landed' PROVE landed'[m].batch \in Seq(Nat) /\ Range(landed'[m].batch) \subseteq accepted
      BY DEF Within
    <2>1. QED
      BY <1>1, <1>2 DEF WriterInv, Within
  <1>4. \A e \in accepted' : e \in Writer!Kept' \/ e \in Writer!Landed' \/ e \in overflowed'
    BY <1>2, SameRange DEF WriterInv, Writer!Kept
  <1>5. QED
    BY <1>2, <1>3, <1>4, NothingIn DEF WriterInv, Within

LEMMA SucceedsKeeps == ASSUME WriterInv, Writer!FlushSucceeds, UNCHANGED handed PROVE WriterInv'
  <1>1. /\ UNCHANGED <<handed, accepted, queue, batch, retries, overflowed>> /\ flight' = <<>>
        /\ Writer!Land(Range(flight))
    BY SameRange DEF Writer!FlushSucceeds, Writer!Return, Writer!callVars
  <1>2. Within(retries)'
    BY <1>1 DEF WriterInv, Within
  <1>3. QED
    BY <1>1, <1>2, EndKeeps

LEMMA FailsKeeps == ASSUME WriterInv, Writer!FlushFails, UNCHANGED handed PROVE WriterInv'
  <1> DEFINE queued == retries \o flight
             n == IF Len(queued) > RetryQueueMax THEN Len(queued) - RetryQueueMax ELSE 0
  <1>1. /\ UNCHANGED <<handed, accepted, queue, batch>> /\ flight' = <<>>
        /\ retries' = SubSeq(queued, n + 1, Len(queued))
        /\ overflowed' = overflowed \cup Range(SubSeq(queued, 1, n))
    BY SameRange DEF Writer!FlushFails, Writer!queueScopeRetries, Writer!Return, Writer!callVars
  <1>2. PICK rows \in SUBSET Range(flight) : Writer!Land(rows)
    BY SameRange DEF Writer!FlushFails
  <1>3. /\ flight \in Seq(Nat) /\ retries \in Seq(Nat) /\ queued \in Seq(Nat)
        /\ Range(queued) = Range(retries) \cup Range(flight) /\ Range(queued) \subseteq accepted
    BY RangeConcat, SMTT(60) DEF WriterInv, Within
  <1>4. n \in 0 .. Len(queued)
    BY <1>3, ScopePathAssumption, SMTT(60)
  <1> HIDE DEF queued, n
  <1>5. retries' \in Seq(Nat) /\ Range(queued) = Range(SubSeq(queued, 1, n)) \cup Range(retries')
    BY <1>1, <1>3, <1>4, Overflows
  <1>6. Within(retries)'
    BY <1>1, <1>3, <1>5 DEF Within
  <1>7. QED
    BY <1>1, <1>2, <1>3, <1>5, <1>6, EndKeeps

LEMMA WriterStepKeeps == RecorderInv /\ WriterInv /\ [PathNext]_pathVars => WriterInv'
  <1> SUFFICES ASSUME RecorderInv, WriterInv, [PathNext]_pathVars PROVE WriterInv'
    OBVIOUS
  <1>1. CASE UNCHANGED <<accepted, queue, batch, flight, retries, landed, overflowed, worker>> /\ handed'[Logged] = handed[Logged]
    BY <1>1, SameRange DEF WriterInv, Within, Writer!Kept, Writer!Landed
  <1>2. CASE CallSends
    BY <1>2, SendKeeps
  <1>3. CASE Writer!Worker /\ UNCHANGED handed
    BY <1>3, ReceiveKeeps, WaitKeeps, TickKeeps, ClosedKeeps, SucceedsKeeps, FailsKeeps
       DEF Writer!Worker
  <1>4. CASE CallElsewhere
    <2>1. handed'[Logged] = handed[Logged]
      BY <1>4, ScopePathAssumption DEF CallElsewhere, Accepted, Refused, RecorderInv, Return
    <2>2. QED
      BY <1>1, <1>4, <2>1 DEF CallElsewhere, writerVars
  <1>5. CASE FlushStep
    BY <1>1, <1>2, <1>4, <1>5 DEF FlushStep, Call, CallGivesUp, CallRefused, ReadHead,
       LookUpWriter, Pop, Refused, Return,
       Writer!BeginEnqueueScopeEvent, Writer!GiveUpScopeEvent, Writer!ghostVars, writerVars, vars, loopVars
  <1>6. CASE (Reports \/ BeginFlush \/ (ended = "process" /\ Shutdown)) /\ UNCHANGED <<writerVars, ended, mishaps>>
    BY <1>1, <1>6 DEF Reports, ScopeStarted, ScopeStopped, BeginFlush, Shutdown, writerVars,
       loopVars
  <1>7. CASE WriterStep
    BY <1>1, <1>3, <1>7 DEF WriterStep, Writer!StopAccepting, Writer!CloseScopeEvents,
       Writer!callVars, Writer!ghostVars, vars, loopVars
  <1>8. CASE Stop \/ Cancel \/ (\E s \in Sinks : Routed(s) \/ Unrouted(s)) \/ UNCHANGED pathVars
    BY <1>1, <1>8 DEF Stop, Cancel, Routed, Unrouted, SinkComes, SinkGoes, Writer!Cancel,
       Writer!callVars, Writer!ghostVars,
       vars, loopVars, writerVars, pathVars
  <1>9. QED
    BY <1>5, <1>6, <1>7, <1>8 DEF PathNext

\* NoEpochForgotten is what the two invariants say of the composed sink.
LEMMA NothingForgotten == RecorderInv /\ WriterInv => NoEpochForgotten
  <1> SUFFICES ASSUME RecorderInv, WriterInv, NEW e \in Range(happened), e.sink = Logged
               PROVE  e.ts \in Stamps(Range(pending)) \cup Stamps(lost) \cup Writer!Kept \cup Writer!Landed \cup overflowed
    BY DEF NoEpochForgotten, EdgesOf, WriterInv
  <1>1. CASE e \in Range(pending) \/ e \in lost
    BY <1>1 DEF Stamps
  <1>2. CASE e \in Range(handed[Logged])
    <2>1. e.ts \in accepted
      BY <1>2 DEF WriterInv, Stamps
    <2>2. QED
      BY <2>1 DEF WriterInv
  <1>3. QED
    BY <1>1, <1>2 DEF RecorderInv, Recorded

THEOREM EpochsAreNotForgotten == PathSpec => []NoEpochForgotten
  <1>1. PathInit => RecorderInv /\ WriterInv
    BY RecorderInit, InitWriter DEF PathInit
  <1>2. (RecorderInv /\ WriterInv) /\ [PathNext]_pathVars => (RecorderInv /\ WriterInv)'
    BY RecorderStep, WriterStepKeeps
  <1>3. QED
    BY <1>1, <1>2, NothingForgotten, PTL DEF PathSpec, PathSteps

-----------------------------------------------------------------------------
\* The order of landing. Until a flush fails or the writer is cancelled, the inserts,
\* the flight, the batch and the queue are one ascending sequence.
Ascends(q) == \A i, j \in DOMAIN q : i < j => q[i] < q[j]

Below(p, q) == \A x \in Range(p), y \in Range(q) : x < y

Behind(q) == \A m \in DOMAIN landed : Below(landed[m].batch, q)

InsertsAscend ==
    \A m \in DOMAIN landed : /\ Ascends(landed[m].batch)
                             /\ \A n \in DOMAIN landed : m < n => Below(landed[m].batch, landed[n].batch)

Intact == faults = 0 /\ ~ctxDone

InLine ==
    /\ retries = <<>>
    /\ Ascends(queue) /\ Ascends(batch) /\ Ascends(flight)
    /\ Below(flight, batch) /\ Below(flight, queue) /\ Below(batch, queue)
    /\ Behind(flight) /\ Behind(batch) /\ Behind(queue)
    /\ InsertsAscend

OrderInv ==
    /\ faults \in Nat
    /\ start # "running" => ctxDone
    /\ Intact => InLine

LEMMA AscendsAppend ==
    ASSUME NEW s \in Seq(Nat), NEW x \in Nat, Ascends(s), \A y \in Range(s) : y < x
    PROVE  Ascends(Append(s, x))
  <1>1. \A i \in DOMAIN s : s[i] < x /\ s[i] \in Nat
    BY SMTT(60) DEF Range
  <1>2. \A i \in DOMAIN Append(s, x) : i \in Nat \ {0} /\ ((i \in DOMAIN s /\ Append(s, x)[i] = s[i]) \/ (i = Len(s) + 1 /\ Append(s, x)[i] = x))
    BY SMTT(60)
  <1>3. ASSUME NEW i \in DOMAIN Append(s, x), NEW j \in DOMAIN Append(s, x), i < j PROVE Append(s, x)[i] < Append(s, x)[j]
    <2>1. i \in DOMAIN s /\ Append(s, x)[i] = s[i]
      BY <1>2, <1>3, SMTT(60)
    <2>2. QED
      BY <1>1, <1>2, <1>3, <2>1 DEF Ascends
  <1>4. QED
    BY <1>3 DEF Ascends

LEMMA AscendsTail ==
    ASSUME NEW s \in Seq(Nat), s # <<>>, Ascends(s)
    PROVE  Ascends(Tail(s)) /\ \A y \in Range(Tail(s)) : Head(s) < y
  <1>1. /\ Head(s) = s[1] /\ 1 \in DOMAIN s /\ Tail(s) \in Seq(Nat)
        /\ \A i \in DOMAIN Tail(s) : i \in Nat \ {0} /\ i + 1 \in DOMAIN s /\ Tail(s)[i] = s[i + 1]
    BY RangeTail, SMTT(60)
  <1>2. ASSUME NEW i \in DOMAIN Tail(s), NEW j \in DOMAIN Tail(s), i < j PROVE Tail(s)[i] < Tail(s)[j]
    <2>1. i + 1 < j + 1 /\ i + 1 \in DOMAIN s /\ j + 1 \in DOMAIN s
      BY <1>1, <1>2, SMTT(60)
    <2>2. QED
      BY <1>1, <2>1 DEF Ascends
  <1>3. ASSUME NEW i \in DOMAIN Tail(s) PROVE Head(s) < Tail(s)[i]
    <2>1. 1 < i + 1 /\ i + 1 \in DOMAIN s
      BY <1>1, SMTT(60)
    <2>2. QED
      BY <1>1, <2>1 DEF Ascends
  <1>4. QED
    BY <1>2, <1>3 DEF Ascends, Range

LEMMA EmptyInLine == Ascends(<<>>) /\ (\A q : Below(<<>>, q) /\ Below(q, <<>>))
  BY NothingIn, SMTT(60) DEF Ascends, Below

LEMMA OrderInit == PathInit => OrderInv
  <1> SUFFICES ASSUME PathInit PROVE OrderInv
    OBVIOUS
  <1>1. /\ queue = <<>> /\ batch = <<>> /\ flight = <<>> /\ retries = <<>> /\ landed = <<>> /\ faults = 0 /\ start = "running"
        /\ DOMAIN <<>> = {}
    BY SMTT(60) DEF PathInit, Writer!Init
  <1>2. QED
    BY <1>1, EmptyInLine DEF OrderInv, InLine, Behind, InsertsAscend

LEMMA SendInLine == ASSUME RecorderInv, WriterInv, OrderInv, CallSends PROVE OrderInv'
  <1>1. /\ next \in ScopeEvent /\ next.ts \in Nat /\ next.sink = Logged /\ Logged \in Sinks /\ loop = "calling"
    BY StampFacts, ScopePathAssumption DEF CallSends, Accepted, RecorderInv, NextIsFirst, InHand
  <1>2. /\ queue' = Append(queue, next.ts)
        /\ UNCHANGED <<batch, flight, retries, landed, faults, start, ctxDone>>
    BY <1>1 DEF CallSends, Writer!SendScopeEvent, Writer!ghostVars, Writer!startVars
  <1>3. ASSUME NEW x \in accepted PROVE x < next.ts
    BY <1>1, <1>3 DEF WriterInv, Stamps, RecorderInv, HandedBefore
  <1>4. queue \in Seq(Nat) /\ Range(queue) \subseteq accepted
    BY DEF WriterInv, Within
  <1>5. ASSUME NEW t \in Nat PROVE Range(Append(queue, t)) = Range(queue) \cup {t}
    BY <1>4, RangeAppend, SMTT(60)
  <1>6. Range(queue') = Range(queue) \cup {next.ts}
    BY <1>1, <1>2, <1>5
  <1>7. SUFFICES ASSUME Intact' PROVE InLine'
    BY <1>2 DEF OrderInv
  <1>8. InLine
    BY <1>2, <1>7 DEF OrderInv, Intact
  <1>9. ASSUME NEW t \in Nat, \A y \in Range(queue) : y < t PROVE Ascends(Append(queue, t))
    BY <1>4, <1>8, <1>9, AscendsAppend DEF InLine
  <1>10. Ascends(queue')
    BY <1>1, <1>2, <1>3, <1>4, <1>9
  <1>11. Below(flight, queue') /\ Below(batch, queue')
    BY <1>3, <1>6, <1>8 DEF InLine, Below, WriterInv, Within
  <1>12. ASSUME NEW m \in DOMAIN landed PROVE Below(landed[m].batch, queue')
    BY <1>3, <1>6, <1>8 DEF InLine, Behind, Below, WriterInv, Within
  <1>13. QED
    BY <1>2, <1>8, <1>10, <1>11, <1>12 DEF InLine, Behind, InsertsAscend

LEMMA ReceiveInLine == ASSUME WriterInv, OrderInv, Writer!ReceiveScopeEvent PROVE OrderInv'
  <1> DEFINE gathered == Append(batch, Head(queue))
  <1>1. /\ queue # <<>> /\ queue' = Tail(queue) /\ UNCHANGED <<retries, landed, faults, start, ctxDone>>
        /\ flight = <<>> /\ queue \in Seq(Nat) /\ batch \in Seq(Nat)
        /\ \/ flight' = gathered /\ batch' = <<>>
           \/ batch' = gathered /\ flight' = flight
    BY DEF Writer!ReceiveScopeEvent, Writer!BeginFlush, Writer!startVars, Writer!ghostVars,
       WriterInv, Within
  <1>2. Head(queue) \in Nat /\ Range(queue) = {Head(queue)} \cup Range(queue')
    BY <1>1, RangeTail
  <1>3. Range(gathered) = Range(batch) \cup {Head(queue)}
    BY <1>1, <1>2, RangeAppend, SMTT(60)
  <1>4. SUFFICES ASSUME Intact' PROVE InLine'
    BY <1>1 DEF OrderInv
  <1>5. InLine
    BY <1>1, <1>4 DEF OrderInv, Intact
  <1>6. Ascends(queue') /\ \A y \in Range(queue') : Head(queue) < y
    BY <1>1, <1>5, AscendsTail DEF InLine
  <1>7. \A y \in Range(batch) : y < Head(queue)
    BY <1>2, <1>5 DEF InLine, Below
  <1>8. Ascends(gathered)
    BY <1>1, <1>2, <1>5, <1>7, AscendsAppend DEF InLine
  <1> HIDE DEF gathered
  <1>9. Below(gathered, queue')
    BY <1>2, <1>3, <1>5, <1>6 DEF InLine, Below
  <1>10. ASSUME NEW m \in DOMAIN landed
         PROVE  Below(landed[m].batch, gathered) /\ Below(landed[m].batch, queue')
    BY <1>2, <1>3, <1>5 DEF InLine, Behind, Below
  <1>11. QED
    BY <1>1, <1>5, <1>6, <1>8, <1>9, <1>10, EmptyInLine DEF InLine, Behind, InsertsAscend

LEMMA WaitInLine == ASSUME WriterInv, OrderInv, Writer!BatchMaxWaitElapses PROVE OrderInv'
  <1>1. /\ UNCHANGED <<queue, retries, landed, faults, start, ctxDone>> /\ flight = <<>>
        /\ flight' = batch /\ batch' = <<>>
    BY DEF Writer!BatchMaxWaitElapses, Writer!BeginFlush, Writer!startVars, Writer!ghostVars,
       WriterInv
  <1>2. QED
    BY <1>1, EmptyInLine DEF OrderInv, Intact, InLine, Behind, InsertsAscend

LEMMA SucceedsInLine == ASSUME WriterInv, OrderInv, Writer!FlushSucceeds PROVE OrderInv'
  <1>1. /\ UNCHANGED <<queue, batch, retries, faults, start, ctxDone>> /\ flight' = <<>>
        /\ Writer!Land(Range(flight))
    BY SameRange DEF Writer!FlushSucceeds, Writer!Return, Writer!startVars
  <1>2. flight \in Seq(Nat) /\ landed \in Seq(Insert) /\ Range(flight) \in SUBSET Nat
    BY RangeTypes DEF WriterInv, Within
  <1>3. /\ Len(landed) \in Nat
        /\ \A m \in DOMAIN landed' :
              /\ m \in Nat \ {0}
              /\ \/ m \in DOMAIN landed /\ landed'[m] = landed[m]
                 \/ m = Len(landed) + 1 /\ landed'[m].batch = flight
    BY <1>1, <1>2, LandedGrows
  <1>4. SUFFICES ASSUME Intact' PROVE InLine'
    BY <1>1 DEF OrderInv
  <1>5. InLine
    BY <1>1, <1>4 DEF OrderInv, Intact
  <1>6. ASSUME NEW m \in DOMAIN landed'
        PROVE  Below(landed'[m].batch, batch) /\ Below(landed'[m].batch, queue) /\ Ascends(landed'[m].batch)
    BY <1>3, <1>5 DEF InLine, Behind, InsertsAscend
  <1>7. ASSUME NEW m \in DOMAIN landed', NEW n \in DOMAIN landed', m < n
        PROVE  Below(landed'[m].batch, landed'[n].batch)
    <2>1. m \in DOMAIN landed /\ landed'[m] = landed[m]
      <3>1. n <= Len(landed) + 1
        BY <1>2, <1>3, SMTT(60)
      <3>2. m # Len(landed) + 1
        BY <1>3, <1>7, <3>1, SMTT(60)
      <3>3. QED
        BY <1>3, <3>2
    <2>2. CASE n \in DOMAIN landed /\ landed'[n] = landed[n]
      BY <1>5, <1>7, <2>1, <2>2 DEF InLine, InsertsAscend
    <2>3. CASE landed'[n].batch = flight
      BY <1>5, <2>1, <2>3 DEF InLine, Behind
    <2>4. QED
      BY <1>3, <2>2, <2>3
  <1>8. InsertsAscend'
    BY <1>6, <1>7 DEF InsertsAscend
  <1>9. QED
    BY <1>1, <1>5, <1>6, <1>8, EmptyInLine DEF InLine, Behind

LEMMA WorkerInLine == ASSUME WriterInv, OrderInv, Writer!Worker PROVE OrderInv'
  <1>1. CASE Writer!RetryTick
    <2>1. retries # <<>> /\ UNCHANGED <<faults, start, ctxDone>>
      BY <1>1 DEF Writer!RetryTick, Writer!startVars, Writer!ghostVars
    <2>2. QED
      BY <2>1 DEF OrderInv, Intact, InLine
  <1>2. CASE Writer!ChannelClosed
    <2>1. start = "draining" /\ UNCHANGED <<faults, start, ctxDone>>
      BY <1>2 DEF Writer!ChannelClosed, Writer!startVars, Writer!ghostVars
    <2>2. QED
      BY <2>1 DEF OrderInv, Intact
  <1>3. CASE Writer!FlushFails
    <2>1. (faults' = faults + 1 \/ (ctxDone /\ faults' = faults)) /\ UNCHANGED <<start, ctxDone>>
      BY <1>3 DEF Writer!FlushFails, Writer!startVars
    <2>2. QED
      BY <2>1, SMTT(60) DEF OrderInv, Intact
  <1>4. QED
    BY <1>1, <1>2, <1>3, ReceiveInLine, WaitInLine, SucceedsInLine DEF Writer!Worker

LEMMA OrderStep == RecorderInv /\ WriterInv /\ OrderInv /\ [PathNext]_pathVars => OrderInv'
  <1> SUFFICES ASSUME RecorderInv, WriterInv, OrderInv, [PathNext]_pathVars PROVE OrderInv'
    OBVIOUS
  <1>1. CASE /\ UNCHANGED <<queue, batch, flight, retries, landed, faults>>
             /\ ctxDone' = ctxDone \/ ctxDone'
             /\ start' = start \/ (start' # "running" /\ ctxDone')
    <2>1. InLine => InLine'
      BY <1>1 DEF InLine, Behind, InsertsAscend
    <2>2. Intact' => Intact
      BY <1>1 DEF Intact
    <2>3. QED
      BY <1>1, <2>1, <2>2, SMTT(60) DEF OrderInv
  <1>2. CASE CallSends
    BY <1>2, SendInLine
  <1>3. CASE FlushStep
    BY <1>1, <1>2, <1>3 DEF FlushStep, Call, CallGivesUp, CallRefused, CallElsewhere,
       Writer!BeginEnqueueScopeEvent, Writer!GiveUpScopeEvent, Writer!ghostVars, Writer!startVars, writerVars
  <1>4. CASE UNCHANGED writerVars
    BY <1>1, <1>4 DEF writerVars
  <1>5. CASE WriterStep
    BY <1>1, <1>5, WorkerInLine, SMTT(60) DEF WriterStep, Writer!StopAccepting, Writer!CloseScopeEvents,
       Writer!ghostVars, OrderInv
  <1>6. CASE Cancel
    BY <1>1, <1>6 DEF Cancel, Writer!Cancel, Writer!ghostVars
  <1>7. QED
    BY <1>3, <1>4, <1>5, <1>6 DEF PathNext, Routed, Unrouted, Stop, pathVars

LEMMA InLineLands == WriterInv /\ OrderInv => LandsInOrder
  <1> SUFFICES ASSUME WriterInv, OrderInv, faults = 0, ~ctxDone, NEW m \in DOMAIN landed, NEW n \in DOMAIN landed,
                      NEW i \in DOMAIN landed[m].batch, NEW j \in DOMAIN landed[n].batch,
                      m < n \/ (m = n /\ i < j)
               PROVE  landed[m].batch[i] < landed[n].batch[j]
    BY DEF LandsInOrder
  <1>1. InsertsAscend
    BY DEF OrderInv, Intact, InLine
  <1>2. CASE m = n /\ i < j
    BY <1>1, <1>2 DEF InsertsAscend, Ascends
  <1>3. CASE m < n
    <2>1. Below(landed[m].batch, landed[n].batch)
      BY <1>1, <1>3 DEF InsertsAscend
    <2>2. landed[m].batch[i] \in Range(landed[m].batch) /\ landed[n].batch[j] \in Range(landed[n].batch)
      BY DEF Range
    <2>3. QED
      BY <2>1, <2>2 DEF Below
  <1>4. QED
    BY <1>2, <1>3

THEOREM EdgesLandInOrder == PathSpec => []LandsInOrder
  <1>1. PathInit => RecorderInv /\ WriterInv /\ OrderInv
    BY RecorderInit, InitWriter, OrderInit DEF PathInit
  <1>2. (RecorderInv /\ WriterInv /\ OrderInv) /\ [PathNext]_pathVars => (RecorderInv /\ WriterInv /\ OrderInv)'
    BY RecorderStep, WriterStepKeeps, OrderStep
  <1>3. QED
    BY <1>1, <1>2, InLineLands, PTL DEF PathSpec, PathSteps
=============================================================================
