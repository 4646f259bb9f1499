--------------------------- MODULE ControlPlaneProofs ---------------------------
(***************************************************************************)
(* Proofs about the control plane. The registry keeps count: whatever the  *)
(* rules ask for and withdraw, in any order, the merged view is exactly    *)
(* what they ask for, and no wake-up is lost on the way to the watch       *)
(* manager (RegistryInv). The resolver's gates open in time (GateInv). The *)
(* rule reconciler installs only what was admitted and withdraws nothing   *)
(* that was wanted throughout (RuleInv).                                   *)
(*                                                                         *)
(* The three share no state: the reconciler's Upsert is an assignment of   *)
(* its own contribution here, and one call of many in the registry.        *)
(***************************************************************************)
EXTENDS Registry, RuleReconciler, Resolver, FiniteSetTheorems, TLAPS

\* The prover of a leaf that names none; SMT is named where arithmetic is needed.
USE ZenonT(60)

RuleSets == [Rules -> SUBSET WatchTarget]

Claims == Rules \X WatchTarget

\* The targets of ts with which rule r makes a claim of Q.
Within(Q, r, ts) == {t \in ts : <<r, t>> \in Q}

Gaining(rs, r, ts) == [rs EXCEPT ![r] = @ \cup ts]
Losing(rs, r, ts) == [rs EXCEPT ![r] = @ \ ts]

\* A rule's targets are as many as the claims they make.
LEMMA PairsCount ==
    ASSUME NEW r, NEW ts, IsFiniteSet(ts)
    PROVE  /\ IsFiniteSet({<<r, t>> : t \in ts})
           /\ Cardinality({<<r, t>> : t \in ts}) = Cardinality(ts)
  <1> DEFINE pairs == {<<r, t>> : t \in ts}
  <1> DEFINE f == [t \in ts |-> <<r, t>>]
  <1>1. f \in Bijection(ts, pairs)
    BY DEF Bijection, Injection, Surjection, IsInjective
  <1>2. ExistsBijection(ts, pairs)
    BY <1>1 DEF ExistsBijection
  <1>3. QED
    BY <1>2, FS_Bijection

LEMMA PairsMeaning ==
    ASSUME NEW r \in Rules, NEW ts \in SUBSET WatchTarget
    PROVE  /\ {<<r, t>> : t \in ts} \subseteq Claims
           /\ \A c \in Claims : c \in {<<r, t>> : t \in ts} <=> c[1] = r /\ c[2] \in ts
  <1>1. ASSUME NEW c \in Claims PROVE c = <<c[1], c[2]>>
    BY SMTT(60) DEF Claims
  <1>2. ASSUME NEW c \in Claims, c[1] = r, c[2] \in ts PROVE c \in {<<r, t>> : t \in ts}
    BY <1>1, <1>2
  <1>3. QED
    BY <1>2, SMTT(60) DEF Claims

\* The claims on a key are finitely many.
LEMMA WantsFinite ==
    ASSUME NEW rs, NEW key, NEW Q
    PROVE  IsFiniteSet(Wants(rs, key) \cap Q)
  <1>1. IsFiniteSet(Claims)
    BY RegistryAssumption, FS_Product DEF Claims
  <1>2. Wants(rs, key) \cap Q \in SUBSET Claims
    BY DEF Wants, Claims
  <1>3. QED
    BY <1>1, <1>2, FS_Subset

\* A rule that asks for more adds its new targets to every count of claims.
LEMMA CountAdds ==
    ASSUME NEW rs \in RuleSets, NEW r \in Rules, NEW ts \in SUBSET WatchTarget,
           ts \cap rs[r] = {}, NEW key \in TargetKeys, NEW Q
    PROVE  Cardinality(Wants(Gaining(rs, r, ts), key) \cap Q) =
              Cardinality(Wants(rs, key) \cap Q)
                  + Cardinality(Within(Q, r, On(key, ts)))
  <1> DEFINE more == Within(Q, r, On(key, ts))
  <1> DEFINE pairs == {<<r, t>> : t \in more}
  <1> DEFINE old == Wants(rs, key) \cap Q
  <1>1. IsFiniteSet(more)
    <2>1. more \in SUBSET WatchTarget
      BY DEF On, Within
    <2>2. QED
      BY <2>1, RegistryAssumption, FS_Subset
  <1>2. IsFiniteSet(pairs) /\ Cardinality(pairs) = Cardinality(more)
    <2> HIDE DEF more
    <2>1. QED
      BY <1>1, PairsCount
  <1>3. IsFiniteSet(old)
    BY WantsFinite
  <1>c. /\ pairs \subseteq Claims /\ old \subseteq Claims
        /\ \A c \in Claims : c \in pairs <=> c[1] = r /\ c[2] \in more
    <2>1. more \in SUBSET WatchTarget
      BY DEF On, Within
    <2> HIDE DEF more
    <2>2. QED
      BY <2>1, PairsMeaning DEF Wants, Claims
  <1>m. ASSUME NEW c \in Claims, c[1] = r
        PROVE  c[2] \in more <=> c[2] \in ts /\ c[2].key = key /\ c \in Q
    <2>1. c = <<r, c[2]>>
      BY <1>m, SMTT(60) DEF Claims
    <2>2. QED
      BY <2>1 DEF On, Within
  <1> HIDE DEF more, pairs
  <1>4. Wants(Gaining(rs, r, ts), key) \cap Q = old \cup pairs
    <2> DEFINE all == Gaining(rs, r, ts)
    <2>1. all[r] = rs[r] \cup ts /\ \A x \in Rules \ {r} : all[x] = rs[x]
      BY DEF RuleSets, Gaining, Losing
    <2> HIDE DEF all
    <2>2. ASSUME NEW c \in Claims PROVE c \in Wants(all, key) \cap Q <=> c \in old \cup pairs
      BY <1>c, <1>m, <2>1 DEF Wants, Claims
    <2>3. Wants(all, key) \cap Q \subseteq Claims
      BY DEF Wants, Claims
    <2>4. Wants(all, key) \cap Q = old \cup pairs
      BY <1>c, <2>2, <2>3
    <2>5. QED
      BY <2>4 DEF all
  <1>5. old \cap pairs = {}
    BY <1>c, <1>m DEF Wants
  <1> HIDE DEF old
  <1>6. Cardinality(old) \in Nat /\ Cardinality(pairs) \in Nat
    BY <1>2, <1>3, FS_CardinalityType
  <1>7. Cardinality(old \cup pairs) = Cardinality(old) + Cardinality(pairs) - Cardinality(old \cap pairs)
    BY <1>2, <1>3, FS_Union
  <1>8. Cardinality(old \cup pairs) = Cardinality(old) + Cardinality(more)
    <2>1. Cardinality(old \cap pairs) = 0
      BY <1>5, FS_EmptySet
    <2>2. QED
      BY <1>2, <1>6, <1>7, <2>1, SMTT(60)
  <1>9. QED
    BY <1>4, <1>8 DEF more, old

\* A rule that withdraws targets takes them out of every count of claims.
LEMMA CountDrops ==
    ASSUME NEW rs \in RuleSets, NEW r \in Rules, NEW ts \in SUBSET rs[r],
           NEW key \in TargetKeys, NEW Q
    PROVE  Cardinality(Wants(Losing(rs, r, ts), key) \cap Q) =
              Less(Cardinality(Wants(rs, key) \cap Q),
                   Cardinality(Within(Q, r, On(key, ts))))
  <1> DEFINE gone == Within(Q, r, On(key, ts))
  <1> DEFINE pairs == {<<r, t>> : t \in gone}
  <1> DEFINE old == Wants(rs, key) \cap Q
  <1>0. rs[r] \subseteq WatchTarget
    BY DEF RuleSets
  <1>1. IsFiniteSet(gone)
    <2>1. gone \in SUBSET WatchTarget
      BY <1>0 DEF On, Within
    <2>2. QED
      BY <2>1, RegistryAssumption, FS_Subset
  <1>2. IsFiniteSet(pairs) /\ Cardinality(pairs) = Cardinality(gone)
    BY <1>1, PairsCount
  <1>3. IsFiniteSet(old)
    BY WantsFinite
  <1>c. /\ pairs \subseteq Claims /\ old \subseteq Claims
        /\ \A c \in Claims : c \in pairs <=> c[1] = r /\ c[2] \in gone
    <2>1. gone \in SUBSET WatchTarget
      BY <1>0 DEF On, Within
    <2> HIDE DEF gone
    <2>2. QED
      BY <2>1, PairsMeaning DEF Wants, Claims
  <1>m. ASSUME NEW c \in Claims, c[1] = r
        PROVE  c[2] \in gone <=> c[2] \in ts /\ c[2].key = key /\ c \in Q
    <2>1. c = <<r, c[2]>>
      BY <1>m, SMTT(60) DEF Claims
    <2>2. QED
      BY <2>1 DEF On, Within
  <1> HIDE DEF gone, pairs
  <1>4. Wants(Losing(rs, r, ts), key) \cap Q = old \ pairs
    <2> DEFINE left == Losing(rs, r, ts)
    <2>1. left[r] = rs[r] \ ts /\ \A x \in Rules \ {r} : left[x] = rs[x]
      BY DEF RuleSets, Gaining, Losing
    <2> HIDE DEF left
    <2>2. ASSUME NEW c \in Claims PROVE c \in Wants(left, key) \cap Q <=> c \in old \ pairs
      BY <1>c, <1>m, <2>1 DEF Wants, Claims
    <2>3. Wants(left, key) \cap Q \subseteq Claims
      BY DEF Wants, Claims
    <2>4. Wants(left, key) \cap Q = old \ pairs
      BY <1>c, <2>2, <2>3
    <2>5. QED
      BY <2>4 DEF left
  <1>5. pairs \subseteq old
    <2>1. ASSUME NEW c \in Claims, c \in pairs PROVE c \in old
      BY <1>c, <1>m, <2>1 DEF Wants, Claims
    <2>2. QED
      BY <1>c, <2>1
  <1> HIDE DEF old
  <1>6. old \cap pairs = pairs
    BY <1>5
  <1>7. Cardinality(old) \in Nat /\ Cardinality(pairs) \in Nat
    BY <1>2, <1>3, FS_CardinalityType
  <1>8. Cardinality(old \ pairs) = Cardinality(old) - Cardinality(pairs)
    BY <1>3, <1>6, FS_Difference, SMTT(60)
  <1>9. Cardinality(pairs) <= Cardinality(old)
    BY <1>3, <1>5, FS_Subset
  <1>10. Cardinality(old \ pairs) = Less(Cardinality(old), Cardinality(gone))
    BY <1>2, <1>7, <1>8, <1>9, SMTT(60) DEF Less
  <1>11. QED
    BY <1>4, <1>10 DEF gone, old

\* The claims behind the three kinds of count.
ByRule(r) == {c \in Claims : c[1] = r}
BySelector(s) == {c \in Claims : c[2].selector = s}
ByRedaction(p) == {c \in Claims : c[2].redaction = p}

LEMMA CountsFitAlt ==
    ASSUME NEW rs, NEW refs
    PROVE  CountsFit(rs, refs) <=>
              \A key \in TargetKeys :
                /\ \A x \in Rules : refs[key].rules[x] = Cardinality(Wants(rs, key) \cap ByRule(x))
                /\ \A s \in Selectors :
                      refs[key].selectors[s] = Cardinality(Wants(rs, key) \cap BySelector(s))
                /\ \A p \in Redactions :
                      refs[key].redactions[p] = Cardinality(Wants(rs, key) \cap ByRedaction(p))
  <1>1. ASSUME NEW key, NEW x
        PROVE  /\ {c \in Wants(rs, key) : c[1] = x} = Wants(rs, key) \cap ByRule(x)
               /\ {c \in Wants(rs, key) : c[2].selector = x} = Wants(rs, key) \cap BySelector(x)
               /\ {c \in Wants(rs, key) : c[2].redaction = x} = Wants(rs, key) \cap ByRedaction(x)
    BY DEF Wants, ByRule, BySelector, ByRedaction, Claims
  <1>2. ASSUME NEW key \in TargetKeys
        PROVE  /\ \A x \in Rules : Cardinality({c \in Wants(rs, key) : c[1] = x})
                                      = Cardinality(Wants(rs, key) \cap ByRule(x))
               /\ \A s \in Selectors : Cardinality({c \in Wants(rs, key) : c[2].selector = s})
                                          = Cardinality(Wants(rs, key) \cap BySelector(s))
               /\ \A p \in Redactions : Cardinality({c \in Wants(rs, key) : c[2].redaction = p})
                                           = Cardinality(Wants(rs, key) \cap ByRedaction(p))
    BY <1>1
  <1>3. QED
    BY <1>2 DEF CountsFit

\* A rule's targets count for that rule alone.
LEMMA ClaimsOf ==
    ASSUME NEW r \in Rules, NEW ts \in SUBSET WatchTarget, NEW key, NEW x
    PROVE  Within(ByRule(x), r, On(key, ts)) = IF x = r THEN On(key, ts) ELSE {}
  BY DEF On, Within, ByRule, Claims

\* The targets of one edit can be counted.
LEMMA CountTypes ==
    ASSUME NEW ts \in SUBSET WatchTarget, NEW key, NEW x
    PROVE  /\ Cardinality(On(key, ts)) \in Nat
           /\ Cardinality(Selecting(x, On(key, ts))) \in Nat
           /\ Cardinality(Redacting(x, On(key, ts))) \in Nat
  <1>1. ASSUME NEW S \in SUBSET WatchTarget PROVE Cardinality(S) \in Nat
    BY RegistryAssumption, FS_Subset, FS_CardinalityType
  <1>2. /\ On(key, ts) \in SUBSET WatchTarget /\ Selecting(x, On(key, ts)) \in SUBSET WatchTarget
        /\ Redacting(x, On(key, ts)) \in SUBSET WatchTarget
    BY DEF On, Selecting, Redacting
  <1>3. QED
    BY <1>1, <1>2

\* What addRefLocked and dropRefLocked leave is an entry.
LEMMA AddsType ==
    ASSUME NEW refs \in [TargetKeys -> TargetEntry], NEW r \in Rules, NEW ts \in SUBSET WatchTarget
    PROVE  AddRefs(r, ts, refs) \in [TargetKeys -> TargetEntry]
  <1>1. ASSUME NEW key, NEW x
        PROVE  /\ Cardinality(On(key, ts)) \in Nat
               /\ Cardinality(Selecting(x, On(key, ts))) \in Nat
               /\ Cardinality(Redacting(x, On(key, ts))) \in Nat
    BY CountTypes
  <1>2. QED
    BY <1>1, SMTT(60) DEF AddRefs, TargetEntry

LEMMA DropsType ==
    ASSUME NEW refs \in [TargetKeys -> TargetEntry], NEW r \in Rules, NEW ts \in SUBSET WatchTarget
    PROVE  DropRefs(r, ts, refs) \in [TargetKeys -> TargetEntry]
  <1>1. \A n, m \in Nat : Less(n, m) \in Nat
    BY SMTT(60) DEF Less
  <1>2. NoEntry \in TargetEntry
    BY DEF NoEntry, TargetEntry
  <1>3. ASSUME NEW key, NEW x
        PROVE  /\ Cardinality(On(key, ts)) \in Nat
               /\ Cardinality(Selecting(x, On(key, ts))) \in Nat
               /\ Cardinality(Redacting(x, On(key, ts))) \in Nat
    BY CountTypes
  <1>4. QED
    BY <1>1, <1>2, <1>3 DEF DropRefs, TargetEntry

\* addRefLocked and dropRefLocked keep every count equal to the number of claims.
LEMMA AddsFit ==
    ASSUME NEW rs \in RuleSets, NEW refs \in [TargetKeys -> TargetEntry], CountsFit(rs, refs),
           NEW r \in Rules, NEW ts \in SUBSET WatchTarget, ts \cap rs[r] = {}
    PROVE  CountsFit(Gaining(rs, r, ts), AddRefs(r, ts, refs))
  <1> DEFINE all == Gaining(rs, r, ts)
  <1> DEFINE sums == AddRefs(r, ts, refs)
  <1>1. ASSUME NEW key \in TargetKeys
        PROVE  /\ \A x \in Rules : sums[key].rules[x] =
                     refs[key].rules[x] + (IF x = r THEN Cardinality(On(key, ts)) ELSE 0)
               /\ \A s \in Selectors : sums[key].selectors[s] =
                     refs[key].selectors[s] + Cardinality(Selecting(s, On(key, ts)))
               /\ \A p \in Redactions : sums[key].redactions[p] =
                     refs[key].redactions[p] + Cardinality(Redacting(p, On(key, ts)))
    <2>1. refs[key] \in TargetEntry
      OBVIOUS
    <2>2. refs[key].rules \in [Rules -> Nat]
      BY <2>1 DEF TargetEntry
    <2>3. QED
      BY <2>2, SMTT(60) DEF AddRefs
  <1> HIDE DEF sums, all
  <1>2. ASSUME NEW key \in TargetKeys, NEW Q
        PROVE  Cardinality(Wants(all, key) \cap Q) =
                  Cardinality(Wants(rs, key) \cap Q)
                      + Cardinality(Within(Q, r, On(key, ts)))
    BY CountAdds, SMTT(60) DEF all
  <1>3. ASSUME NEW key \in TargetKeys
        PROVE  /\ \A x \in Rules : sums[key].rules[x] = Cardinality(Wants(all, key) \cap ByRule(x))
               /\ \A s \in Selectors :
                     sums[key].selectors[s] = Cardinality(Wants(all, key) \cap BySelector(s))
               /\ \A p \in Redactions :
                     sums[key].redactions[p] = Cardinality(Wants(all, key) \cap ByRedaction(p))
    <2>1. ASSUME NEW x \in Rules
          PROVE  sums[key].rules[x] = Cardinality(Wants(all, key) \cap ByRule(x))
      <3>1. refs[key].rules[x] = Cardinality(Wants(rs, key) \cap ByRule(x))
        BY CountsFitAlt
      <3>2. Cardinality(Within(ByRule(x), r, On(key, ts)))
              = IF x = r THEN Cardinality(On(key, ts)) ELSE 0
        BY ClaimsOf, FS_EmptySet
      <3>3. QED
        BY <1>1, <1>2, <3>1, <3>2, SMTT(60)
    <2>2. ASSUME NEW s \in Selectors
          PROVE  sums[key].selectors[s] = Cardinality(Wants(all, key) \cap BySelector(s))
      <3>1. refs[key].selectors[s] = Cardinality(Wants(rs, key) \cap BySelector(s))
        BY CountsFitAlt
      <3>2. Within(BySelector(s), r, On(key, ts)) = Selecting(s, On(key, ts))
        BY DEF On, Within, Selecting, BySelector, Claims
      <3>3. QED
        BY <1>1, <1>2, <3>1, <3>2, SMTT(60)
    <2>3. ASSUME NEW p \in Redactions
          PROVE  sums[key].redactions[p] = Cardinality(Wants(all, key) \cap ByRedaction(p))
      <3>1. refs[key].redactions[p] = Cardinality(Wants(rs, key) \cap ByRedaction(p))
        BY CountsFitAlt
      <3>2. Within(ByRedaction(p), r, On(key, ts)) = Redacting(p, On(key, ts))
        BY DEF On, Within, Redacting, ByRedaction, Claims
      <3>3. QED
        BY <1>1, <1>2, <3>1, <3>2, SMTT(60)
    <2>4. QED
      BY <2>1, <2>2, <2>3
  <1>4. CountsFit(all, sums)
    BY <1>3, CountsFitAlt
  <1>5. QED
    BY <1>4 DEF all, sums

LEMMA DropsFit ==
    ASSUME NEW rs \in RuleSets, NEW refs \in [TargetKeys -> TargetEntry], CountsFit(rs, refs),
           NEW r \in Rules, NEW ts \in SUBSET rs[r]
    PROVE  CountsFit(Losing(rs, r, ts), DropRefs(r, ts, refs))
  <1> DEFINE rest == Losing(rs, r, ts)
  <1> DEFINE Left(key) ==
        [rules |-> [refs[key].rules EXCEPT ![r] = Less(@, Cardinality(On(key, ts)))],
         selectors |-> [s \in Selectors |->
             Less(refs[key].selectors[s], Cardinality(Selecting(s, On(key, ts))))],
         redactions |-> [p \in Redactions |->
             Less(refs[key].redactions[p], Cardinality(Redacting(p, On(key, ts))))]]
  <1>0. ts \in SUBSET WatchTarget
    BY DEF RuleSets
  <1>1. ASSUME NEW key \in TargetKeys
        PROVE  DropRefs(r, ts, refs)[key] = IF Counted(Left(key).rules) = {} THEN NoEntry ELSE Left(key)
    BY DEF DropRefs
  <1>2. ASSUME NEW key \in TargetKeys
        PROVE  /\ DOMAIN Left(key).rules = Rules
               /\ \A x \in Rules : Left(key).rules[x] =
                     IF x = r THEN Less(refs[key].rules[x], Cardinality(On(key, ts)))
                              ELSE refs[key].rules[x]
               /\ \A s \in Selectors : Left(key).selectors[s] =
                     Less(refs[key].selectors[s], Cardinality(Selecting(s, On(key, ts))))
               /\ \A p \in Redactions : Left(key).redactions[p] =
                     Less(refs[key].redactions[p], Cardinality(Redacting(p, On(key, ts))))
    <2>1. refs[key] \in TargetEntry
      OBVIOUS
    <2>2. refs[key].rules \in [Rules -> Nat]
      BY <2>1 DEF TargetEntry
    <2>3. QED
      BY <2>2
  <1> HIDE DEF Left, rest
  <1>3. ASSUME NEW key \in TargetKeys, NEW Q
        PROVE  /\ Cardinality(Wants(rest, key) \cap Q) =
                     Less(Cardinality(Wants(rs, key) \cap Q),
                          Cardinality(Within(Q, r, On(key, ts))))
               /\ Cardinality(Wants(rs, key) \cap Q) \in Nat
    <2>1. Cardinality(Wants(rs, key) \cap Q) \in Nat
      BY WantsFinite, FS_CardinalityType
    <2>2. QED
      BY <2>1, CountDrops, SMTT(60) DEF rest
  <1>4. ASSUME NEW key \in TargetKeys, NEW x \in Rules
        PROVE  Left(key).rules[x] = Cardinality(Wants(rest, key) \cap ByRule(x))
    <2>1. refs[key].rules[x] = Cardinality(Wants(rs, key) \cap ByRule(x))
      BY CountsFitAlt
    <2>2. Cardinality(Within(ByRule(x), r, On(key, ts)))
            = IF x = r THEN Cardinality(On(key, ts)) ELSE 0
      BY <1>0, ClaimsOf, FS_EmptySet
    <2>3. CASE x = r
      BY <1>2, <1>3, <2>1, <2>2, <2>3, SMTT(60)
    <2>4. CASE x # r
      <3>1. Cardinality(Wants(rest, key) \cap ByRule(x)) = Less(refs[key].rules[x], 0)
        BY <1>3, <2>1, <2>2, <2>4
      <3>2. refs[key].rules[x] \in Nat
        BY <1>3, <2>1
      <3>3. QED
        BY <1>2, <2>4, <3>1, <3>2, SMTT(60) DEF Less
    <2>5. QED
      BY <2>3, <2>4
  <1>5. ASSUME NEW key \in TargetKeys, NEW s \in Selectors
        PROVE  Left(key).selectors[s] = Cardinality(Wants(rest, key) \cap BySelector(s))
    <2>1. refs[key].selectors[s] = Cardinality(Wants(rs, key) \cap BySelector(s))
      BY CountsFitAlt
    <2>2. Within(BySelector(s), r, On(key, ts)) = Selecting(s, On(key, ts))
      BY <1>0 DEF On, Within, Selecting, BySelector, Claims
    <2>3. QED
      BY <1>2, <1>3, <2>1, <2>2, SMTT(60)
  <1>6. ASSUME NEW key \in TargetKeys, NEW p \in Redactions
        PROVE  Left(key).redactions[p] = Cardinality(Wants(rest, key) \cap ByRedaction(p))
    <2>1. refs[key].redactions[p] = Cardinality(Wants(rs, key) \cap ByRedaction(p))
      BY CountsFitAlt
    <2>2. Within(ByRedaction(p), r, On(key, ts)) = Redacting(p, On(key, ts))
      BY <1>0 DEF On, Within, Redacting, ByRedaction, Claims
    <2>3. QED
      BY <1>2, <1>3, <2>1, <2>2, SMTT(60)
  <1>7. ASSUME NEW key \in TargetKeys, Counted(Left(key).rules) = {}
        PROVE  Wants(rest, key) = {}
    <2>1. ASSUME NEW c \in Wants(rest, key) PROVE FALSE
      <3>1. c[1] \in Rules /\ c \in Wants(rest, key) \cap ByRule(c[1])
        BY <2>1 DEF Wants, ByRule, Claims
      <3>2. Cardinality(Wants(rest, key) \cap ByRule(c[1])) \in Nat \ {0}
        BY <3>1, WantsFinite, FS_EmptySet, FS_CardinalityType
      <3>3. Left(key).rules[c[1]] > 0
        BY <1>4, <3>1, <3>2, SMTT(60)
      <3>4. QED
        BY <1>2, <1>7, <3>1, <3>3 DEF Counted
    <2>2. QED
      BY <2>1
  <1>8. ASSUME NEW key \in TargetKeys
        PROVE  /\ \A x \in Rules : DropRefs(r, ts, refs)[key].rules[x] =
                                      Cardinality(Wants(rest, key) \cap ByRule(x))
               /\ \A s \in Selectors : DropRefs(r, ts, refs)[key].selectors[s] =
                                          Cardinality(Wants(rest, key) \cap BySelector(s))
               /\ \A p \in Redactions : DropRefs(r, ts, refs)[key].redactions[p] =
                                           Cardinality(Wants(rest, key) \cap ByRedaction(p))
    <2>1. CASE Counted(Left(key).rules) = {}
      <3>1. DropRefs(r, ts, refs)[key] = NoEntry
        BY <1>1, <2>1
      <3>2. \A Q : Cardinality(Wants(rest, key) \cap Q) = 0
        <4>1. \A Q : Wants(rest, key) \cap Q = {}
          BY <1>7, <2>1
        <4>2. QED
          BY <4>1, FS_EmptySet
      <3>3. QED
        BY <3>1, <3>2, SMTT(60) DEF NoEntry
    <2>2. CASE Counted(Left(key).rules) # {}
      BY <1>1, <1>4, <1>5, <1>6, <2>2
    <2>3. QED
      BY <2>1, <2>2
  <1>9. CountsFit(rest, DropRefs(r, ts, refs))
    BY <1>8, CountsFitAlt
  <1>10. QED
    BY <1>9 DEF rest

\* The snapshot depends on the reference counts alone.
LEMMA SnapshotUnchanged ==
    ASSUME UNCHANGED targets
    PROVE  Snapshot' = Snapshot
  BY DEF Snapshot

\* A call of the registry that changes the counts leaves a wake-up behind, and
\* touches nothing of the loop.
LEMMA EditNotifies ==
    ASSUME NEW r \in Rules,
           Remove(r) \/ \E desired \in SUBSET WatchTarget : Upsert(r, desired)
    PROVE  /\ UNCHANGED loopVars
           /\ notified' = TRUE \/ UNCHANGED <<targets, notified>>
  <1>1. CASE Remove(r)
    BY <1>1 DEF Remove
  <1>2. ASSUME NEW desired \in SUBSET WatchTarget, Upsert(r, desired)
        PROVE  /\ UNCHANGED loopVars
               /\ notified' = TRUE \/ UNCHANGED <<targets, notified>>
    BY <1>2 DEF Upsert
  <1>3. QED
    BY <1>1, <1>2

\* A call of the registry loses no wake-up.
LEMMA EditKeeps ==
    ASSUME NoLostWakeUp, NEW r \in Rules,
           Remove(r) \/ \E desired \in SUBSET WatchTarget : Upsert(r, desired)
    PROVE  NoLostWakeUp'
  <1>1. CASE notified' = TRUE
    BY <1>1 DEF NoLostWakeUp
  <1>2. CASE UNCHANGED <<targets, notified>>
    <2>1. Snapshot' = Snapshot
      BY <1>2, SnapshotUnchanged
    <2>2. UNCHANGED <<loop, held, installed, notified>>
      BY <1>2, EditNotifies DEF loopVars
    <2>3. QED
      BY <2>1, <2>2 DEF NoLostWakeUp
  <1>3. QED
    BY <1>1, <1>2, EditNotifies

\* No step of the watch manager's loop loses a wake-up.
LEMMA LoopKeeps ==
    ASSUME NoLostWakeUp, Loop \/ Tick
    PROVE  NoLostWakeUp'
  <1>1. Snapshot' = Snapshot
    <2>1. UNCHANGED targets
      BY DEF Loop, Tick, TakeWakeUp, DebounceSwallows, DebounceEnds, TakeSnapshot, Install
    <2>2. QED
      BY <2>1, SnapshotUnchanged
  <1>2. CASE TakeWakeUp
    BY <1>2 DEF TakeWakeUp, NoLostWakeUp
  <1>3. CASE DebounceSwallows
    BY <1>3 DEF DebounceSwallows, loopVars, NoLostWakeUp
  <1>4. CASE DebounceEnds
    BY <1>4 DEF DebounceEnds, NoLostWakeUp
  <1>5. CASE TakeSnapshot
    BY <1>1, <1>5 DEF TakeSnapshot, NoLostWakeUp
  <1>6. CASE Install
    BY <1>1, <1>6 DEF Install, NoLostWakeUp
  <1>7. CASE Tick
    BY <1>7 DEF Tick, NoLostWakeUp
  <1>8. QED
    BY <1>2, <1>3, <1>4, <1>5, <1>6, <1>7 DEF Loop

\* A call of the registry keeps the counts.
LEMMA EditFits ==
    ASSUME RegistryInv, NEW r \in Rules, NEW desired \in SUBSET WatchTarget
    PROVE  LET next == DropRefs(r, rules[r] \ desired, AddRefs(r, desired \ rules[r], targets))
           IN  CountsFit([rules EXCEPT ![r] = desired], next) /\ next \in [TargetKeys -> TargetEntry]
  <1> DEFINE new == desired \ rules[r]
  <1> DEFINE old == rules[r] \ desired
  <1> DEFINE sums == AddRefs(r, new, targets)
  <1> DEFINE more == Gaining(rules, r, new)
  <1>0. rules \in RuleSets /\ targets \in [TargetKeys -> TargetEntry] /\ rules[r] \subseteq WatchTarget
    BY DEF RegistryInv, TypeOK, RuleSets
  <1>1. CountsFit(more, sums)
    BY <1>0, AddsFit DEF RegistryInv
  <1>2. sums \in [TargetKeys -> TargetEntry]
    BY <1>0, AddsType
  <1>3. more \in RuleSets /\ more[r] = rules[r] \cup desired
    BY <1>0 DEF Gaining, RuleSets
  <1>4. Losing(more, r, old) = [rules EXCEPT ![r] = desired]
    BY <1>0 DEF Gaining, Losing, RuleSets
  <1>5. old \in SUBSET more[r] /\ old \in SUBSET WatchTarget
    BY <1>0, <1>3
  <1> HIDE DEF sums, more
  <1>6. CountsFit(Losing(more, r, old), DropRefs(r, old, sums))
    BY <1>1, <1>2, <1>3, <1>5, DropsFit
  <1>7. DropRefs(r, old, sums) \in [TargetKeys -> TargetEntry]
    BY <1>2, <1>5, DropsType
  <1>8. QED
    BY <1>4, <1>6, <1>7 DEF sums

LEMMA UpsertFits ==
    ASSUME RegistryInv, NEW r \in Rules, NEW desired \in SUBSET WatchTarget, Upsert(r, desired)
    PROVE  RegistryInv'
  <1>1. rules' \in [Rules -> SUBSET WatchTarget] /\ edits' \in 0 .. MaxEdits /\ loop' = loop
    BY RegistryAssumption, SMTT(60) DEF RegistryInv, TypeOK, Upsert, Edit, loopVars
  <1>2. CASE desired = rules[r]
    <2>1. rules' = rules /\ UNCHANGED <<targets, notified>>
      BY <1>2 DEF Upsert, RegistryInv, TypeOK
    <2>2. QED
      BY <1>1, <2>1 DEF RegistryInv, TypeOK
  <1>3. CASE desired # rules[r]
    <2>1. /\ rules' = [rules EXCEPT ![r] = desired]
          /\ targets' = DropRefs(r, rules[r] \ desired, AddRefs(r, desired \ rules[r], targets))
          /\ notified' = TRUE
      BY <1>3 DEF Upsert
    <2>2. CountsFit(rules', targets') /\ targets' \in [TargetKeys -> TargetEntry]
      BY <2>1, EditFits
    <2>3. QED
      BY <1>1, <2>1, <2>2 DEF RegistryInv, TypeOK
  <1>4. QED
    BY <1>2, <1>3

LEMMA RemoveFits ==
    ASSUME RegistryInv, NEW r \in Rules, Remove(r)
    PROVE  RegistryInv'
  <1>0. rules \in RuleSets /\ targets \in [TargetKeys -> TargetEntry] /\ rules[r] \subseteq WatchTarget
    BY DEF RegistryInv, TypeOK, RuleSets
  <1>1. rules' = Losing(rules, r, rules[r])
    BY <1>0 DEF Remove, Losing, RuleSets
  <1>2. CountsFit(rules', targets')
    <2>1. CountsFit(Losing(rules, r, rules[r]), DropRefs(r, rules[r], targets))
      BY <1>0, DropsFit DEF RegistryInv
    <2>2. QED
      BY <1>1, <2>1 DEF Remove
  <1>3. targets' \in [TargetKeys -> TargetEntry]
    BY <1>0, DropsType DEF Remove
  <1>4. rules' \in RuleSets /\ edits' \in 0 .. MaxEdits /\ loop' = loop /\ notified' = TRUE
    BY RegistryAssumption, <1>0, SMTT(60) DEF RegistryInv, TypeOK, Remove, Edit, loopVars, RuleSets
  <1>5. QED
    BY <1>2, <1>3, <1>4 DEF RegistryInv, TypeOK, RuleSets

LEMMA RegistryStep == RegistryInv /\ [Next]_vars => RegistryInv'
  <1> SUFFICES ASSUME RegistryInv, [Next]_vars PROVE RegistryInv'
    OBVIOUS
  <1>1. CASE Loop \/ Tick \/ UNCHANGED vars
    <2>1. /\ UNCHANGED <<rules, targets, edits>> /\ notified' \in BOOLEAN
          /\ loop' \in {"waiting", "debouncing", "diffing", "installing"}
      BY <1>1 DEF Loop, Tick, TakeWakeUp, DebounceSwallows, DebounceEnds, TakeSnapshot, Install,
         vars, loopVars, RegistryInv, TypeOK
    <2>2. QED
      BY <2>1 DEF RegistryInv, TypeOK
  <1>2. QED
    BY <1>1, UpsertFits, RemoveFits DEF Next

\* What the counts mean.
LEMMA CountsMeaning == RegistryInv => MergedExactly
  <1> SUFFICES ASSUME RegistryInv, NEW key \in TargetKeys
               PROVE  Snapshot[key] = [rules |-> {c[1] : c \in Wanting(key)},
                          selectors |-> {c[2].selector : c \in Wanting(key)},
                          redactions |-> {c[2].redaction : c \in Wanting(key)} \ {NoRedaction}]
    BY DEF MergedExactly
  <1> DEFINE W == Wants(rules, key)
  <1>0. targets[key] \in TargetEntry
    BY DEF RegistryInv, TypeOK
  <1>1. /\ DOMAIN targets[key].rules = Rules /\ DOMAIN targets[key].selectors = Selectors
        /\ DOMAIN targets[key].redactions = Redactions
    BY <1>0 DEF TargetEntry
  <1>2. ASSUME NEW Q PROVE Cardinality(W \cap Q) > 0 <=> W \cap Q # {}
    <2>1. IsFiniteSet(W \cap Q)
      BY WantsFinite
    <2>2. Cardinality(W \cap Q) \in Nat
      BY <2>1, FS_CardinalityType
    <2>3. Cardinality(W \cap Q) = 0 <=> W \cap Q = {}
      BY <2>1, FS_EmptySet
    <2> HIDE DEF W
    <2>4. QED
      BY <2>2, <2>3, SMTT(60)
  <1>3. /\ \A x \in Rules : targets[key].rules[x] = Cardinality(W \cap ByRule(x))
        /\ \A s \in Selectors : targets[key].selectors[s] = Cardinality(W \cap BySelector(s))
        /\ \A p \in Redactions : targets[key].redactions[p] = Cardinality(W \cap ByRedaction(p))
    BY CountsFitAlt DEF RegistryInv
  <1>w. W \subseteq Claims /\ \A c \in W : c \in Claims /\ c[1] \in Rules /\ c[2] \in WatchTarget
    BY DEF Wants, Claims
  <1>t. \A t \in WatchTarget : t.selector \in Selectors /\ t.redaction \in Redactions \cup {NoRedaction}
    BY DEF WatchTarget
  <1> HIDE DEF W
  <1>4. Counted(targets[key].rules) = {c[1] : c \in W}
    <2>1. \A x \in Rules : W \cap ByRule(x) # {} <=> \E c \in W : c[1] = x
      BY <1>w DEF ByRule
    <2>2. \A x : x \in Counted(targets[key].rules) <=> x \in Rules /\ \E c \in W : c[1] = x
      BY <1>1, <1>2, <1>3, <2>1 DEF Counted
    <2>3. QED
      BY <1>w, <2>2
  <1>5. Counted(targets[key].selectors) = {c[2].selector : c \in W}
    <2>1. \A s \in Selectors : W \cap BySelector(s) # {} <=> \E c \in W : c[2].selector = s
      BY <1>w DEF BySelector
    <2>2. \A s : s \in Counted(targets[key].selectors) <=> s \in Selectors /\ \E c \in W : c[2].selector = s
      BY <1>1, <1>2, <1>3, <2>1 DEF Counted
    <2>3. QED
      BY <1>t, <1>w, <2>2
  <1>6. Counted(targets[key].redactions) = {c[2].redaction : c \in W} \ {NoRedaction}
    <2>1. \A p \in Redactions : W \cap ByRedaction(p) # {} <=> \E c \in W : c[2].redaction = p
      BY <1>w DEF ByRedaction
    <2>2. \A p : p \in Counted(targets[key].redactions) <=> p \in Redactions /\ \E c \in W : c[2].redaction = p
      BY <1>1, <1>2, <1>3, <2>1 DEF Counted
    <2>3. QED
      BY <1>t, <1>w, <2>2, RegistryAssumption, SMTT(60)
  <1>7. QED
    BY <1>4, <1>5, <1>6 DEF Snapshot, TargetState, Wanting, W

\* The merged view is exactly what the rules ask for, after any sequence of
\* overlapping Upserts and Removes of any number of rules: no count is lost and
\* none is left over (addRefLocked, dropRefLocked).
THEOREM MergeIsExact == Spec => []MergedExactly
  <1>1. Init => RegistryInv
    <2> SUFFICES ASSUME Init PROVE RegistryInv
      OBVIOUS
    <2>1. TypeOK
      <3>1. NoEntry \in TargetEntry
        BY DEF NoEntry, TargetEntry
      <3>2. targets \in [TargetKeys -> TargetEntry] /\ rules \in [Rules -> SUBSET WatchTarget]
        BY <3>1 DEF Init
      <3>3. edits \in 0 .. MaxEdits
        BY RegistryAssumption, SMTT(60) DEF Init
      <3>4. notified \in BOOLEAN /\ loop \in {"waiting", "debouncing", "diffing", "installing"}
        BY DEF Init
      <3>5. QED
        BY <3>2, <3>3, <3>4 DEF TypeOK
    <2>2. ASSUME NEW key \in TargetKeys PROVE Wants(rules, key) = {}
      BY DEF Init, Wants
    <2>3. ASSUME NEW key \in TargetKeys, NEW Q PROVE Cardinality(Wants(rules, key) \cap Q) = 0
      <3>1. Wants(rules, key) \cap Q = {}
        BY <2>2
      <3>2. QED
        BY <3>1, FS_EmptySet
    <2>4. CountsFit(rules, targets)
      BY <2>3, CountsFitAlt DEF Init, NoEntry
    <2>5. QED
      BY <2>1, <2>4 DEF RegistryInv
  <1>2. QED
    BY <1>1, RegistryStep, CountsMeaning, PTL DEF Spec

\* A change of the rules that the watch manager has not installed is always
\* announced or about to be seen (notifyLocked, debounce, reconcilePool).
THEOREM WakeUpsAreNotLost == Spec => []NoLostWakeUp
  <1>1. Init => NoLostWakeUp
    BY DEF Init, NoLostWakeUp
  <1>2. NoLostWakeUp /\ [Next]_vars => NoLostWakeUp'
    <2>1. CASE UNCHANGED vars
      <3>1. Snapshot' = Snapshot
        BY <2>1, SnapshotUnchanged DEF vars
      <3>2. QED
        BY <2>1, <3>1 DEF vars, NoLostWakeUp
    <2>2. QED
      BY <2>1, EditKeeps, LoopKeeps DEF Next
  <1>3. QED
    BY <1>1, <1>2, PTL DEF Spec

-----------------------------------------------------------------------------
\* The resolver: a delay is capped, and what is left of it has been counted down
\* ever since the kind last failed.
ParkState == [err : {"none"} \cup Failures, delay : 0 .. MaxDelay, wait : 0 .. MaxDelay]

GateInv ==
    /\ parked \in [Gates -> ParkState] /\ call \in [Callers -> {"idle", "asking"} \cup Answers]
    /\ calm \in 0 .. MaxDelay /\ discovery \in Answers
    /\ \A g \in Gates : parked[g].wait + calm <= MaxDelay

LEMMA GateTick == ASSUME GateInv, TimePasses PROVE GateInv'
  <1> DEFINE left(p) == [p EXCEPT !.wait = IF @ = 0 THEN 0 ELSE @ - 1]
  <1>1. \A p \in ParkState : left(p) \in ParkState /\ left(p).wait = IF p.wait = 0 THEN 0 ELSE p.wait - 1
    BY ResolverAssumption, SMTT(60) DEF ParkState
  <1>2. parked' = [g \in Gates |-> left(parked[g])] /\ UNCHANGED <<call, discovery>>
    BY DEF TimePasses
  <1> HIDE DEF left
  <1>3. calm' \in {0, calm, calm + 1} /\ calm' \in 0 .. MaxDelay
    BY ResolverAssumption, SMTT(60) DEF TimePasses, GateInv
  <1>4. parked' \in [Gates -> ParkState]
    BY <1>1, <1>2 DEF GateInv
  <1>5. \A g \in Gates : parked[g].wait \in Nat
    BY SMTT(60) DEF GateInv, ParkState
  <1>6. \A g \in Gates : parked'[g].wait + calm' <= MaxDelay
    BY <1>1, <1>2, <1>3, <1>5, ResolverAssumption, SMTT(60) DEF GateInv
  <1>7. QED
    BY <1>2, <1>3, <1>4, <1>6 DEF GateInv

\* A verdict is kept for some time, or dropped.
LEMMA GateSet ==
    ASSUME GateInv, NEW c \in Callers, NEW p \in ParkState, parked' = [parked EXCEPT ![GateOf[c]] = p],
           NEW a \in {"idle", "asking"} \cup Answers, call' = [call EXCEPT ![c] = a],
           (p.wait = 0 /\ calm' = calm) \/ calm' = 0, UNCHANGED discovery
    PROVE  GateInv'
  <1>1. parked' \in [Gates -> ParkState] /\ call' \in [Callers -> {"idle", "asking"} \cup Answers]
    BY ResolverAssumption DEF GateInv
  <1>2. \A g \in Gates : parked'[g] \in {p, parked[g]} /\ parked[g] \in ParkState
    BY ResolverAssumption DEF GateInv
  <1>3. \A g \in Gates : parked'[g].wait + calm' <= MaxDelay
    BY <1>2, ResolverAssumption, SMTT(60) DEF GateInv, ParkState
  <1>4. QED
    BY <1>1, <1>3, ResolverAssumption, SMTT(60) DEF GateInv

LEMMA GateStep == ASSUME GateInv, [ResolverNext]_resolverVars PROVE GateInv'
  <1>1. CASE Flip
    BY <1>1, ResolverAssumption, SMTT(60) DEF Flip, GateInv, ParkState
  <1>2. ASSUME NEW c \in Callers, Replay(c) \/ Leave(c) PROVE GateInv'
    BY <1>2 DEF Replay, Leave, GateInv
  <1>3. ASSUME NEW c \in Callers, Ask(c) \/ Answer(c) PROVE GateInv'
    <2>1. UNCHANGED <<parked, discovery>> /\ calm' \in {0, calm}
      BY <1>3 DEF Ask, Answer
    <2>2. call' \in [Callers -> {"idle", "asking"} \cup Answers]
      BY <1>3 DEF Ask, Answer, GateInv
    <2>3. calm' \in 0 .. MaxDelay /\ \A g \in Gates : parked[g].wait + calm' <= MaxDelay
      BY <2>1, ResolverAssumption, SMTT(60) DEF GateInv, ParkState
    <2>4. QED
      BY <2>1, <2>2, <2>3 DEF GateInv
  <1>4. ASSUME NEW c \in Callers, Park(c) PROVE GateInv'
    <2> DEFINE q == parked[GateOf[c]]
               d == NextDelay(q)
    <2>1. q \in ParkState /\ call[c] \in Failures
      BY <1>4, ResolverAssumption DEF GateInv, Park
    <2>2. d \in 0 .. MaxDelay
      BY <2>1, ResolverAssumption, SMTT(60) DEF NextDelay, ParkState
    <2>3. [err |-> call[c], delay |-> d, wait |-> d] \in ParkState
      BY <2>1, <2>2 DEF ParkState
    <2>4. QED
      BY <1>4, <2>3, GateSet DEF Park
  <1>5. ASSUME NEW c \in Callers, Unpark(c) PROVE GateInv'
    <2>1. NotParked \in ParkState /\ NotParked.wait = 0
      BY ResolverAssumption, SMTT(60) DEF NotParked, ParkState
    <2>2. QED
      BY <1>5, <2>1, GateSet DEF Unpark
  <1>6. CASE UNCHANGED resolverVars
    BY <1>6 DEF resolverVars, GateInv
  <1>7. QED
    BY <1>1, <1>2, <1>3, <1>4, <1>5, <1>6, GateTick DEF ResolverNext, Resolve

\* Once the kind has resolved and no failure has been outstanding for the longest
\* delay, no gate is shut, for any callers, gates and delays: however calls overlap,
\* no park outlasts maxRetryDelay (Resolver.park, gatedError).
THEOREM GatesOpenInTime == ResolverSpec => []OpensInTime
  <1>1. ResolverInit => GateInv
    BY ResolverAssumption, SMTT(60) DEF ResolverInit, GateInv, ParkState, NotParked, Answers
  <1>2. GateInv => OpensInTime
    BY ResolverAssumption, SMTT(60) DEF GateInv, OpensInTime, GateShut, ParkState
  <1>3. GateInv /\ [ResolverNext]_resolverVars => GateInv'
    BY GateStep
  <1>4. QED
    BY <1>1, <1>2, <1>3, PTL DEF ResolverSpec

-----------------------------------------------------------------------------
\* The reconciler: what a pass has read of the sink, and what it will install.
PassSpec == pass.obj.spec

Approved(s) == s # None /\ Admits(s.policy, PassSpec.kinds)

\* A target the pass may ask for.
Proper(t) == t.kind \in PassSpec.kinds /\ t.redaction = Redaction(pass.sink, PassSpec)

PassSound ==
    /\ pass.at \in {"namespaces", "resolve", "review"} => Approved(pass.sink)
    /\ pass.at = "review" => \A t \in pass.asked : Proper(t)
    /\ pass.at = "install" /\ pass.install /\ pass.targets # {} =>
          Approved(pass.sink) /\ \A t \in pass.targets : Proper(t)

\* What was wanted all along survives every stage.
SteadySound ==
    /\ pass = Idle => steady = {}
    /\ pass # Idle => steady \subseteq Wanted(pass.obj, Answered)
    /\ pass.at \in {"namespaces", "resolve"} =>
          \A t \in steady : t.redaction = Redaction(pass.sink, PassSpec)
    /\ pass.at = "resolve" => \A t \in steady : t.ns \in NamespacesFor(t.kind, pass.expanded)
    /\ pass.at = "review" => registry \cap steady \subseteq pass.asked
    /\ pass.at = "install" /\ pass.install => registry \cap steady \subseteq pass.targets

RuleInv == PassSound /\ SteadySound

\* The targets of an expansion.
LEMMA ExpansionFacts ==
    ASSUME NEW spec, NEW s, NEW kinds, NEW expanded
    PROVE  /\ \A t \in Expansion(spec, s, kinds, expanded) :
                 /\ t.kind \in Resolved(spec, kinds) /\ t.redaction = Redaction(s, spec)
                 /\ t.ns \in NamespacesFor(t.kind, expanded)
                 /\ t = [kind |-> t.kind, ns |-> t.ns, redaction |-> t.redaction]
           /\ \A k \in Resolved(spec, kinds) : \A n \in NamespacesFor(k, expanded) :
                 [kind |-> k, ns |-> n, redaction |-> Redaction(s, spec)]
                    \in Expansion(spec, s, kinds, expanded)
  BY SMTT(60) DEF Expansion

\* What is wanted has a sink that admits it, a usable selector, kinds that resolve
\* and permission.
LEMMA WantedFacts ==
    ASSUME NEW r, NEW kinds, NEW t \in Wanted(r, kinds)
    PROVE  /\ r # None /\ sink # None /\ r.spec.selector # "invalid" /\ ~r.deleting
           /\ Admits(sink.policy, r.spec.kinds)
           /\ t \in Expansion(r.spec, sink, kinds, Expanded(r.spec, selected))
           /\ Allowed(t.kind, t.ns, granted)
  BY DEF Wanted

\* More is wanted when more kinds resolve.
LEMMA WantedGrows ==
    ASSUME NEW r, UNCHANGED <<sink, selected, granted>>, Answered \subseteq Answered'
    PROVE  \A t \in Wanted(r, Answered) : t \in Wanted(r, Answered')
  <1> SUFFICES ASSUME NEW t \in Wanted(r, Answered) PROVE t \in Wanted(r, Answered')
    OBVIOUS
  <1> DEFINE all(kinds) == Expansion(r.spec, sink, kinds, Expanded(r.spec, selected))
  <1>1. /\ r # None /\ sink # None /\ r.spec.selector # "invalid" /\ ~r.deleting
        /\ Admits(sink.policy, r.spec.kinds)
        /\ t \in all(Answered) /\ Allowed(t.kind, t.ns, granted)
    BY WantedFacts
  <1>2. all(Answered) \subseteq all(Answered')
    BY DEF Expansion, Resolved
  <1>3. QED
    BY <1>1, <1>2 DEF Wanted

LEMMA WantedLater ==
    ASSUME UNCHANGED <<sink, selected, granted>>, pass'.obj = pass.obj
    PROVE  Wanted(pass.obj, Answered)' = Wanted(pass.obj, Answered')
  BY DEF Wanted

\* Steps that leave the pass, the registry and what is wanted alone.
LEMMA RuleFrame ==
    ASSUME RuleInv, UNCHANGED <<pass, registry, steady, sink, selected, granted>>, Answered \subseteq Answered'
    PROVE  RuleInv'
  <1>1. Wanted(pass.obj, Answered) \subseteq Wanted(pass.obj, Answered)'
    BY WantedGrows, WantedLater
  <1>2. QED
    BY <1>1 DEF RuleInv, PassSound, SteadySound, Approved, Proper, PassSpec

\* The world changes under a pass.
LEMMA WorldKeeps ==
    ASSUME RuleInv, UNCHANGED <<pass, registry>>, Remember
    PROVE  RuleInv'
  <1>1. pass = Idle => steady' = {}
    BY DEF Remember
  <1>2. pass # Idle => steady' \subseteq Wanted(pass.obj, Answered)' /\ steady' \subseteq steady
    BY DEF Remember
  <1>3. steady' \subseteq steady
    BY <1>1, <1>2
  <1>4. PassSound'
    BY DEF RuleInv, PassSound, Approved, Proper, PassSpec
  <1>5. SteadySound'
    BY <1>1, <1>2, <1>3 DEF RuleInv, SteadySound, PassSpec
  <1>6. QED
    BY <1>4, <1>5 DEF RuleInv

\* A pass begins or ends, or finds the rule gone.
LEMMA PassEndsKeep ==
    ASSUME RuleInv, Withdraw \/ Begin \/ WriteStatus \/ WriteFails
    PROVE  RuleInv'
  <1>1. CASE Withdraw
    BY <1>1 DEF Withdraw, RuleInv, PassSound, SteadySound, Idle
  <1>2. CASE Begin
    <2>1. pass' = [at |-> "sink", obj |-> cache, cond |-> Unset] /\ steady' = Wanted(cache, Answered)
      BY <1>2 DEF Begin
    <2>2. Wanted(pass.obj, Answered)' = Wanted(cache, Answered)
      <3>1. pass'.obj = cache /\ UNCHANGED <<sink, selected, granted, mapped, shut>>
        BY <1>2, <2>1, SMTT(60) DEF Begin, world, mapper
      <3>2. QED
        BY <3>1 DEF Wanted, Answered
    <2>3. pass' # Idle /\ pass'.at = "sink"
      BY <2>1 DEF Idle
    <2>4. QED
      BY <2>1, <2>2, <2>3 DEF RuleInv, PassSound, SteadySound
  <1>3. CASE WriteStatus \/ WriteFails
    BY <1>3, SMTT(60) DEF WriteStatus, WriteFails, RuleInv, PassSound, SteadySound, Idle
  <1>4. QED
    BY <1>1, <1>2, <1>3

\* A stage of the pass: it goes on with the rule it read.
PlanFrame ==
    /\ pass # Idle /\ pass' # Idle /\ pass'.obj = pass.obj
    /\ UNCHANGED <<registry, steady, sink, selected, granted>> /\ Answered \subseteq Answered'

LEMMA PlanFacts ==
    ASSUME RuleInv, PlanFrame
    PROVE  /\ steady' = steady /\ registry' = registry /\ PassSpec' = PassSpec
           /\ steady \subseteq Wanted(pass.obj, Answered) /\ steady' \subseteq Wanted(pass.obj, Answered)'
  <1>1. Wanted(pass.obj, Answered) \subseteq Wanted(pass.obj, Answered)'
    BY WantedGrows, WantedLater DEF PlanFrame
  <1>2. QED
    BY <1>1 DEF PlanFrame, RuleInv, SteadySound, PassSpec

LEMMA PlanFailedKeeps ==
    ASSUME RuleInv, PlanFrame, pass'.at = "install", ~pass'.install
    PROVE  RuleInv'
  BY PlanFacts DEF RuleInv, PassSound, SteadySound, PlanFrame

\* A plan with nothing to install is made only when nothing was steady.
LEMMA NothingPlannedKeeps ==
    ASSUME RuleInv, PlanFrame, pass'.at = "install", pass'.targets = {}, steady = {}
    PROVE  RuleInv'
  BY PlanFacts DEF RuleInv, PassSound, SteadySound, PlanFrame

LEMMA PlanSinkKeeps == ASSUME RuleInv, PlanSink PROVE RuleInv'
  <1>1. PlanFrame
    BY SMTT(60) DEF PlanSink, PlanFailed, Planned, PlanFrame, Idle, world, mapper, Answered
  <1>2. CASE PlanFailed(pass.cond, "none")
    BY <1>1, <1>2, PlanFailedKeeps DEF PlanFailed
  <1>3. CASE sink = None \/ ~Admits(sink.policy, pass.obj.spec.kinds)
    <2>1. steady = {}
      BY <1>1, <1>3, PlanFacts, WantedFacts
    <2>2. pass'.at = "install" /\ pass'.targets = {}
      BY <1>3, SMTT(60) DEF PlanSink, PlanFailed, Planned
    <2>3. QED
      BY <1>1, <2>1, <2>2, NothingPlannedKeeps
  <1>4. CASE /\ sink # None /\ Admits(sink.policy, pass.obj.spec.kinds)
             /\ pass'.at = "namespaces" /\ pass'.sink = sink
    <2>1. \A t \in steady : t.redaction = Redaction(sink, pass.obj.spec)
      BY <1>1, PlanFacts, WantedFacts, ExpansionFacts, SMTT(60)
    <2>2. QED
      BY <1>1, <1>4, <2>1, PlanFacts DEF RuleInv, PassSound, SteadySound, Approved, PassSpec,
         PlanFrame
  <1>5. QED
    BY <1>2, <1>3, <1>4, SMTT(60) DEF PlanSink

LEMMA PlanNamespacesKeeps == ASSUME RuleInv, PlanNamespaces PROVE RuleInv'
  <1>1. PlanFrame /\ pass.at = "namespaces"
    BY SMTT(60) DEF PlanNamespaces, PlanFailed, Planned, PlanFrame, Idle, world, mapper, Answered
  <1>2. CASE pass'.at = "install" /\ ~pass'.install
    BY <1>1, <1>2, PlanFailedKeeps
  <1>3. CASE pass.obj.spec.selector = "invalid" /\ pass'.at = "install" /\ pass'.targets = {}
    <2>1. steady = {}
      BY <1>1, <1>3, PlanFacts, WantedFacts
    <2>2. QED
      BY <1>1, <1>3, <2>1, NothingPlannedKeeps
  <1>4. CASE pass'.at = "resolve" /\ pass'.sink = pass.sink
             /\ pass'.expanded = Expanded(pass.obj.spec, selected)
    <2>1. \A t \in steady : t.ns \in NamespacesFor(t.kind, pass'.expanded)
      BY <1>1, <1>4, PlanFacts, WantedFacts, ExpansionFacts
    <2>2. PassSound'
      BY <1>1, <1>4, PlanFacts DEF RuleInv, PassSound, Approved
    <2>3. SteadySound'
      BY <1>1, <1>4, <2>1, PlanFacts DEF RuleInv, SteadySound, PlanFrame
    <2>4. QED
      BY <2>2, <2>3 DEF RuleInv
  <1>5. QED
    BY <1>2, <1>3, <1>4, SMTT(60) DEF PlanNamespaces, PlanFailed, Planned

LEMMA PlanResourcesKeeps == ASSUME RuleInv, PlanResources PROVE RuleInv'
  <1> DEFINE asked == pass.obj.spec.kinds \ (mapped \cup shut)
  <1>0. /\ mapped \subseteq mapped' /\ shut' = shut \cup (asked \ mapped')
        /\ LET all == Resolved(pass.obj.spec, Answered') = pass.obj.spec.kinds
           IN  pass' = [at |-> "review", obj |-> pass.obj, sink |-> pass.sink,
                        asked |-> Expansion(pass.obj.spec, pass.sink, Answered', pass.expanded),
                        cond |-> [pass.cond EXCEPT !.resolved = IF all THEN "True" ELSE "False"]]
    BY DEF PlanResources
  <1>1. /\ pass'.at = "review" /\ pass'.obj = pass.obj /\ pass'.sink = pass.sink
        /\ pass'.asked = Expansion(pass.obj.spec, pass.sink, Answered', pass.expanded)
    BY <1>0
  <1>2. PlanFrame /\ pass.at = "resolve"
    <2>1. Answered \subseteq Answered'
      BY <1>0 DEF Answered
    <2>2. pass.at = "resolve" /\ UNCHANGED <<registry, steady, sink, selected, granted>>
      BY DEF PlanResources
    <2>3. pass # Idle /\ pass' # Idle
      BY <1>1, <2>2, SMTT(60) DEF Idle
    <2>4. QED
      BY <1>1, <2>1, <2>2, <2>3 DEF PlanFrame
  <1>3. \A t \in pass'.asked : Proper(t)'
    <2>1. \A t \in pass'.asked : t.kind \in Resolved(pass.obj.spec, Answered')
                                 /\ t.redaction = Redaction(pass.sink, pass.obj.spec)
      BY <1>1, ExpansionFacts, SMTT(60)
    <2>2. QED
      BY <1>1, <2>1 DEF Proper, PassSpec, Resolved, Redaction
  <1>4. registry \cap steady \subseteq pass'.asked
    <2> SUFFICES ASSUME NEW t \in registry, t \in steady PROVE t \in pass'.asked
      OBVIOUS
    <2>1. t \in Expansion(pass.obj.spec, sink, Answered, Expanded(pass.obj.spec, selected))
      BY <1>2, PlanFacts, WantedFacts
    <2>2. /\ t.kind \in Resolved(pass.obj.spec, Answered)
          /\ t = [kind |-> t.kind, ns |-> t.ns, redaction |-> t.redaction]
      BY <2>1, ExpansionFacts, SMTT(60)
    <2>3. t.kind \in Resolved(pass.obj.spec, Answered')
      BY <1>2, <2>2 DEF Resolved, PlanFrame
    <2>4. t.redaction = Redaction(pass.sink, pass.obj.spec) /\ t.ns \in NamespacesFor(t.kind, pass.expanded)
      BY <1>2 DEF RuleInv, SteadySound, PassSpec
    <2>5. QED
      BY <1>1, <2>2, <2>3, <2>4, ExpansionFacts, SMTT(60)
  <1>5. PassSound'
    BY <1>1, <1>2, <1>3, PlanFacts DEF RuleInv, PassSound, Approved
  <1>6. SteadySound'
    BY <1>1, <1>2, <1>4, PlanFacts DEF SteadySound, PlanFrame
  <1>7. QED
    BY <1>5, <1>6 DEF RuleInv

LEMMA PlanReviewKeeps == ASSUME RuleInv, PlanReview PROVE RuleInv'
  <1>1. PlanFrame /\ pass.at = "review" /\ pass'.at = "install"
    BY SMTT(60) DEF PlanReview, PlanFailed, Planned, PlanFrame, Idle, world, mapper, Answered
  <1>2. CASE ~pass'.install
    BY <1>1, <1>2, PlanFailedKeeps
  <1>3. CASE pass'.sink = pass.sink /\ pass'.targets = {t \in pass.asked : Allowed(t.kind, t.ns, granted)}
    <2>1. \A t \in steady : Allowed(t.kind, t.ns, granted)
      BY <1>1, PlanFacts, WantedFacts
    <2>2. PassSound'
      BY <1>1, <1>3, PlanFacts DEF RuleInv, PassSound, Approved, Proper
    <2>3. SteadySound'
      BY <1>1, <1>3, <2>1, PlanFacts DEF RuleInv, SteadySound, PlanFrame
    <2>4. QED
      BY <2>2, <2>3 DEF RuleInv
  <1>4. QED
    BY <1>2, <1>3, SMTT(60) DEF PlanReview, PlanFailed, Planned

LEMMA InstallKeeps == ASSUME RuleInv, InstallTargets PROVE RuleInv'
  <1>1. /\ pass # Idle /\ pass' # Idle /\ pass'.at = "status" /\ pass'.obj = pass.obj
        /\ UNCHANGED <<steady, sink, selected, granted>> /\ Answered' = Answered
    BY SMTT(60) DEF InstallTargets, Idle, world, mapper, Answered
  <1>2. Wanted(pass.obj, Answered)' = Wanted(pass.obj, Answered)
    BY <1>1, WantedLater
  <1>3. QED
    BY <1>1, <1>2 DEF RuleInv, PassSound, SteadySound

LEMMA RuleStep == RuleInv /\ [RuleNext]_ruleVars => RuleInv'
  <1> SUFFICES ASSUME RuleInv, [RuleNext]_ruleVars PROVE RuleInv'
    OBVIOUS
  <1>1. CASE Reconcile
    BY <1>1, PassEndsKeep, PlanSinkKeeps, PlanNamespacesKeeps, PlanResourcesKeeps, PlanReviewKeeps,
       InstallKeeps
       DEF Reconcile
  <1>2. CASE EditRule \/ DeleteRule \/ CacheCatchesUp \/ Resync \/ UNCHANGED ruleVars \/ \E k \in Kinds : GateOpens(k)
    <2>1. UNCHANGED <<pass, registry, steady, sink, selected, granted>>
      BY <1>2 DEF EditRule, DeleteRule, CacheCatchesUp, Resync, GateOpens, ruleVars, world
    <2>2. UNCHANGED mapped /\ shut' \subseteq shut
      BY <1>2 DEF EditRule, DeleteRule, CacheCatchesUp, Resync, GateOpens, ruleVars, world, mapper
    <2>3. QED
      BY <2>1, <2>2, RuleFrame DEF Answered
  <1>3. CASE SinkChanges \/ NamespacesChange \/ ClusterChanges \/ MapperReloads \/ \E k \in Kinds : OthersResolve(k)
    BY <1>3, WorldKeeps DEF SinkChanges, NamespacesChange, ClusterChanges, MapperReloads, OthersResolve
  <1>4. QED
    BY <1>1, <1>2, <1>3 DEF RuleNext, Surroundings, Resolving

LEMMA RuleInitially == RuleInit => RuleInv
  BY SMTT(60) DEF RuleInit, RuleInv, PassSound, SteadySound, Idle

\* What a step leaves of the registry, unless it installs or withdraws.
LEMMA RegistrySteps ==
    ASSUME [RuleNext]_ruleVars
    PROVE  registry' = registry \/ Withdraw \/ InstallTargets
  BY DEF RuleNext, Reconcile, Surroundings, Begin, PlanSink, PlanNamespaces,
         PlanResources, PlanReview, WriteStatus, WriteFails, EditRule,
         DeleteRule, SinkChanges, NamespacesChange, ClusterChanges,
         Resolving, MapperReloads, OthersResolve, GateOpens, CacheCatchesUp, Resync, ruleVars

\* Whatever a pass of the reconciler installs was admitted by the policy of the sink
\* it read and carries that sink's redaction floor, for any rules, sinks and
\* interleaving of edits with the pass's reads: a denied kind is never installed
\* (RuleReconciler.plan, checkPolicy).
THEOREM OnlyTheAdmittedIsInstalled == RuleSpec => InstalledIsAdmitted
  <1> DEFINE Admitted ==
        registry' # registry /\ registry' # {} =>
          /\ Admits(pass.sink.policy, pass.obj.spec.kinds)
          /\ \A t \in registry' : /\ t.kind \notin DeniedKinds
                                 /\ pass.sink.floor \cup pass.obj.spec.extra \subseteq t.redaction
  <1>1. RuleInv /\ [RuleNext]_ruleVars => Admitted
    <2> SUFFICES ASSUME RuleInv, InstallTargets, registry' # registry, registry' # {} PROVE Admitted
      BY RegistrySteps DEF Withdraw
    <2>1. pass.at = "install" /\ pass.install /\ registry' = pass.targets
      BY DEF InstallTargets
    <2>2. Approved(pass.sink) /\ \A t \in registry' : Proper(t)
      BY <2>1 DEF RuleInv, PassSound
    <2>3. QED
      BY <2>2 DEF Approved, Proper, PassSpec, Admits, Redaction
  <1>2. QED
    BY <1>1, RuleInitially, RuleStep, PTL DEF RuleSpec, InstalledIsAdmitted

\* A target the rule wanted all through a pass, of a kind the mapper knew and no gate
\* was shut for, is not withdrawn by it, whatever reads failed and whatever else changed meanwhile (planOutcome.install).
THEOREM SteadyTargetsStay == RuleSpec => KeepsSteady
  <1> DEFINE Kept == registry \cap steady \subseteq registry'
  <1>1. RuleInv /\ [RuleNext]_ruleVars => Kept
    <2> SUFFICES ASSUME RuleInv, InstallTargets \/ Withdraw PROVE Kept
      BY RegistrySteps
    <2>1. CASE InstallTargets
      BY <2>1 DEF InstallTargets, RuleInv, SteadySound
    <2>2. CASE Withdraw
      BY <2>2 DEF Withdraw, RuleInv, SteadySound
    <2>3. QED
      BY <2>1, <2>2
  <1>2. QED
    BY <1>1, RuleInitially, RuleStep, PTL DEF RuleSpec, KeepsSteady

=============================================================================
