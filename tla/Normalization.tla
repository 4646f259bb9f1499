--------------------------- MODULE Normalization ---------------------------
(***************************************************************************)
(* What of an object is stored: the informer's transform (TransformObject  *)
(* in internal/watch/pool.go, actors.go), the stripping and redaction the  *)
(* pipeline does before it hashes (normalizeObject in process.go,          *)
(* redact.go) and the policies that are installed with the scopes          *)
(* (newScopeInterest, RedactionFor).                                       *)
(*                                                                         *)
(* Objects live in a heap, since the result of normalizing shares all it   *)
(* does not change with the instance in the informer's cache.  The hash is *)
(* a function of the stored content, so equal content stands for it.  A    *)
(* path is a sequence of words; a policy is applied in one order of its    *)
(* paths, in the code that of their text.                                  *)
(***************************************************************************)
EXTENDS Naturals, FiniteSets, SequencesExt

CONSTANTS
    None,
    Objects,      \* objects as the API server has them, as trees
    Names,        \* words that are field names
    Quoted,       \* quoted keys, a function from the word to the key
    Scopes,       \* the scopes that may cover the object: its namespace, the cluster
    Redactions,   \* what the rules of a scope may ask for: sets of sets of paths
    MaxArrivals,  \* bound: objects delivered
    MaxEdits,     \* bound: scopes that start, stop or change
    MaxRows       \* bound: objects normalized

ASSUME NormalizationAssumption == {MaxArrivals, MaxEdits, MaxRows} \subseteq Nat

VARIABLES
    heap,       \* nodes: maps and arrays hold addresses
    cached,     \* the address of the informer's instance
    source,     \* history: the object as the API server has it
    wanted,     \* the paths the rules of each scope ask for, None without rules
    interests,  \* the scopes that are installed, with their policies
    rows,       \* what was stored
    arrivals, edits

vars == <<heap, cached, source, wanted, interests, rows, arrivals, edits>>

Str(v) == [t |-> "str", v |-> v]
Map(m) == [t |-> "map", m |-> m]
Arr(s) == [t |-> "arr", s |-> s]
Sentinel == Str("[REDACTED]")
LastApplied == "kubectl.kubernetes.io/last-applied-configuration"
ActorsAnnotation == "internal.kuberecord.io/actors"
VolatileFields == {"managedFields", "resourceVersion", "generation"}

Has(node, k) == node.t = "map" /\ k \in DOMAIN node.m
Without(m, ks) == [k \in DOMAIN m \ ks |-> m[k]]
With(m, k, x) == [j \in DOMAIN m \cup {k} |-> IF j = k THEN x ELSE m[j]]

\* An operation on the heap gives the heap, an address and whether it is a new one.
Fresh(h, node) == [h |-> Append(h, node), a |-> Len(h) + 1, changed |-> TRUE]
Same(h, a) == [h |-> h, a |-> a, changed |-> FALSE]

RECURSIVE Build(_, _)
RECURSIVE BuildKeys(_, _, _)
RECURSIVE BuildItems(_, _)
RECURSIVE Decode(_, _)

\* A tree put into the heap, and read back.
Build(h, tree) ==
    IF tree.t = "str" THEN Fresh(h, tree)
    ELSE IF tree.t = "map" THEN LET r == BuildKeys(h, tree.m, DOMAIN tree.m) IN Fresh(r.h, Map(r.m))
    ELSE LET r == BuildItems(h, tree.s) IN Fresh(r.h, Arr(r.s))

BuildKeys(h, m, keys) ==
    IF keys = {} THEN [h |-> h, m |-> <<>>]
    ELSE LET k == CHOOSE k \in keys : TRUE
             b == Build(h, m[k])
             r == BuildKeys(b.h, m, keys \ {k})
         IN  [h |-> r.h, m |-> With(r.m, k, b.a)]

BuildItems(h, items) ==
    IF items = <<>> THEN [h |-> h, s |-> <<>>]
    ELSE LET b == Build(h, Head(items))
             r == BuildItems(b.h, Tail(items))
         IN  [h |-> r.h, s |-> <<b.a>> \o r.s]

Decode(h, a) ==
    LET node == h[a]
    IN  IF node.t = "str" THEN node
        ELSE IF node.t = "map" THEN Map([k \in DOMAIN node.m |-> Decode(h, node.m[k])])
        ELSE Arr([i \in DOMAIN node.s |-> Decode(h, node.s[i])])

-----------------------------------------------------------------------------
\* The transform of the informers.

\* ExtractActors: entries that are no maps are skipped, managers without a name unknown.
ExtractActors(tree) ==
    IF ~Has(tree.m["metadata"], "managedFields") THEN {}
    ELSE LET mf == tree.m["metadata"].m["managedFields"]
         IN  {IF Has(e, "manager") THEN e.m["manager"].v ELSE "unknown" :
                e \in {x \in ToSet(mf.s) : x.t = "map"}}

\* TransformObject: the actors become an annotation, managedFields goes.
TransformObject(tree) ==
    LET meta == tree.m["metadata"].m
        actors == ExtractActors(tree)
        old == IF "annotations" \in DOMAIN meta THEN meta["annotations"].m ELSE <<>>
        noted == IF actors = {} THEN meta
                 ELSE With(meta, "annotations", Map(With(old, ActorsAnnotation, Str(actors))))
    IN  IF "managedFields" \notin DOMAIN meta THEN tree
        ELSE Map(With(tree.m, "metadata", Map(Without(noted, {"managedFields"}))))

-----------------------------------------------------------------------------
\* Paths and policies.

Segment(n, w) == [name |-> n, wildcard |-> w]
Bad == <<>>

\* Mutant: a quoted key may be empty.
SubscriptLax(name, word) ==
    IF word = "*" THEN <<Segment(name, TRUE)>>
    ELSE IF word \in DOMAIN Quoted THEN <<Segment(name, FALSE), Segment(Quoted[word], FALSE)>>
    ELSE Bad

\* The segments of a name with a subscript: [*] or a quoted key.
Subscript(name, word) ==
    IF word = "*" THEN <<Segment(name, TRUE)>>
    ELSE IF word \in DOMAIN Quoted /\ Quoted[word] # ""
    THEN <<Segment(name, FALSE), Segment(Quoted[word], FALSE)>>
    ELSE Bad

RECURSIVE Parse(_, _)

\* parseRedactionPath, parseSegmentName: names, some with a subscript, dots between
\* them.  No segments stands for an error.
Parse(rest, done) ==
    LET sub == Len(rest) > 1 /\ rest[2] = "["
        segs == IF ~sub THEN <<Segment(rest[1], FALSE)>>
                ELSE IF Len(rest) > 3 /\ rest[4] = "]" THEN Subscript(rest[1], rest[3])
                ELSE Bad
        after == SubSeq(rest, IF sub THEN 5 ELSE 2, Len(rest))
    IN  IF rest = <<>> \/ rest[1] \notin Names \/ segs = Bad THEN Bad
        ELSE IF after = <<>> THEN done \o segs
        ELSE IF Head(after) = "." THEN Parse(Tail(after), done \o segs)
        ELSE Bad

Builtin == <<Segment("metadata", FALSE), Segment("annotations", FALSE), Segment(LastApplied, FALSE)>>

\* CompileRedaction; one bad path makes the policy bad.
CompileRedaction(paths) == {Parse(p, <<>>) : p \in paths} \cup {Builtin}

\* Mutant: the policy of the first scope that has one.
MergeFirst(policies) ==
    IF policies \ {None} = {} THEN None ELSE CHOOSE p \in policies : p # None

\* MergeRedaction: the union of the policies there are.
MergeRedaction(policies) ==
    IF policies \ {None} = {} THEN None ELSE UNION (policies \ {None})

\* newScopeInterest and redactionPaths: no paths, no policy; a bad path, no interest.
NewScopeInterest(paths) ==
    LET policy == IF paths = {} THEN None ELSE CompileRedaction(paths)
    IN  IF policy # None /\ Bad \in policy THEN None ELSE [policy |-> policy]

Installed == {s \in Scopes : interests[s] # None}

\* RedactionFor
RedactionFor == MergeRedaction({interests[s].policy : s \in Installed})

-----------------------------------------------------------------------------
\* normalizeObject.

RECURSIVE RedactValue(_, _, _)
RECURSIVE RedactElements(_, _, _)
RECURSIVE RedactArray(_, _, _)

\* redactElements: every element; what becomes of them, and whether any changed.
RedactElements(h, items, segs) ==
    IF items = <<>> THEN [h |-> h, s |-> <<>>, changed |-> FALSE]
    ELSE LET e == RedactValue(h, Head(items), segs)
             r == RedactElements(e.h, Tail(items), segs)
         IN  [h |-> r.h, s |-> <<e.a>> \o r.s, changed |-> e.changed \/ r.changed]

\* An array is copied when one of its elements changes.
RedactArray(h, a, segs) ==
    IF h[a].t # "arr" THEN Same(h, a)
    ELSE LET r == RedactElements(h, h[a].s, segs)
         IN  IF r.changed THEN Fresh(r.h, Arr(r.s)) ELSE Same(h, a)

\* Mutant: the new child goes into the map itself.
InstalledInPlace(h, a, k, child) ==
    [h |-> [h EXCEPT ![a] = Map(With(h[a].m, k, child))], a |-> a, changed |-> TRUE]

\* The copy of a map on a path that changed something.
InstalledIn(h, a, k, child) == Fresh(h, Map(With(h[a].m, k, child)))

\* redactValue: a path that does not fit the object changes nothing.
RedactValue(h, a, segs) ==
    IF segs = <<>> THEN IF h[a] = Sentinel THEN Same(h, a) ELSE Fresh(h, Sentinel)
    ELSE IF ~Has(h[a], Head(segs).name) THEN Same(h, a)
    ELSE LET k == Head(segs).name
             r == IF Head(segs).wildcard
                  THEN RedactArray(h, h[a].m[k], Tail(segs))
                  ELSE RedactValue(h, h[a].m[k], Tail(segs))
         IN  IF r.changed THEN InstalledIn(r.h, a, k, r.a) ELSE Same(h, a)

RECURSIVE ApplyAll(_, _, _)
ApplyAll(h, a, policy) ==
    IF policy = {} THEN [h |-> h, a |-> a]
    ELSE LET path == CHOOSE p \in policy : TRUE
             r == RedactValue(h, a, path)
         IN  ApplyAll(r.h, r.a, policy \ {path})

\* RedactionPolicy.Apply: no policy means the built-in one.
Apply(h, a, policy) == ApplyAll(h, a, IF policy = None THEN {Builtin} ELSE policy)

Annotations(h, meta) == IF Has(meta, "annotations") THEN h[meta.m["annotations"]].m ELSE <<>>

\* stripVolatileFields: new maps for the object, its metadata and, with the actors in
\* them, its annotations; annotations that are empty without them go.
StripVolatileFields(h, a) ==
    LET meta == h[h[a].m["metadata"]]
        old == Annotations(h, meta)
        kept == Without(meta.m, VolatileFields)
        actors == ActorsAnnotation \in DOMAIN old
        n == Fresh(h, Map(Without(old, {ActorsAnnotation})))
        s == IF ~actors THEN [h |-> h, m |-> kept]
             ELSE IF Cardinality(DOMAIN old) = 1 THEN [h |-> h, m |-> Without(kept, {"annotations"})]
             ELSE [h |-> n.h, m |-> With(kept, "annotations", n.a)]
        f == Fresh(s.h, Map(s.m))
    IN  Fresh(f.h, Map(With(h[a].m, "metadata", f.a)))

\* The annotation of the transform, or managedFields where no transform ran.
Actors(h, a) ==
    LET old == Annotations(h, h[h[a].m["metadata"]])
    IN  IF ActorsAnnotation \in DOMAIN old THEN h[old[ActorsAnnotation]].v
        ELSE ExtractActors(Decode(h, a))

Labels(tree) == IF Has(tree.m["metadata"], "labels") THEN tree.m["metadata"].m["labels"] ELSE Map(<<>>)

-----------------------------------------------------------------------------
\* translate: a scope without rules is not installed.
Interest(paths) == IF paths = None THEN None ELSE NewScopeInterest(paths)

Asks == {None} \cup {UNION r : r \in Redactions}

Init ==
    /\ heap = <<>> /\ cached = None /\ source = None
    /\ wanted \in [Scopes -> Asks] /\ interests = [s \in Scopes |-> Interest(wanted[s])]
    /\ rows = <<>> /\ arrivals = 0 /\ edits = 0

\* The informer delivers an object.  normalizeObject also takes objects no transform has
\* seen (ObjectHash and NormalizedJSON recompute what was stored from them).
Arrive ==
    /\ arrivals < MaxArrivals /\ arrivals' = arrivals + 1
    /\ \E o \in Objects, transform \in BOOLEAN :
         LET b == Build(heap, IF transform THEN TransformObject(o) ELSE o)
         IN  heap' = b.h /\ cached' = b.a /\ source' = o
    /\ UNCHANGED <<wanted, interests, rows, edits>>

\* A pass of the watch manager: rules come, change their paths and go.
Translate ==
    /\ edits < MaxEdits /\ edits' = edits + 1
    /\ \E s \in Scopes, paths \in Asks :
         /\ wanted' = [wanted EXCEPT ![s] = paths]
         /\ interests' = [interests EXCEPT ![s] = Interest(paths)]
    /\ UNCHANGED <<heap, cached, source, rows, arrivals>>

\* processUpsert: nothing is stored while no scope covers the object.
Store ==
    /\ cached # None /\ Installed # {} /\ Len(rows) < MaxRows
    /\ LET s == StripVolatileFields(heap, cached)
           r == Apply(s.h, s.a, RedactionFor)
       IN  /\ heap' = r.h
           /\ rows' = Append(rows, [data |-> r.a, actors |-> Actors(heap, cached),
                                    labels |-> Labels(Decode(heap, cached)), of |-> source,
                                    asked |-> UNION {wanted[c] : c \in Installed}])
    /\ UNCHANGED <<cached, source, wanted, interests, arrivals, edits>>

Next == Arrive \/ Translate \/ Store

Spec == Init /\ [][Next]_vars

-----------------------------------------------------------------------------
\* The reference: an object is the set of its nodes, each a location and a content.

RECURSIVE Nodes(_)

Below(step, nodes) == {<<(<<step>> \o n[1]), n[2]>> : n \in nodes}

Nodes(tree) ==
    IF tree.t = "str" THEN {<<(<<>>), tree>>}
    ELSE IF tree.t = "map"
    THEN {<<(<<>>), "map">>} \cup UNION {Below(<<"key", k>>, Nodes(tree.m[k])) : k \in DOMAIN tree.m}
    ELSE {<<(<<>>), "arr">>} \cup UNION {Below(<<"at", i>>, Nodes(tree.s[i])) : i \in DOMAIN tree.s}

\* The path a segment sequence spells: a key, and for a wildcard any index after it.
RECURSIVE Spells(_, _)
Spells(segs, loc) ==
    IF segs = <<>> THEN loc = <<>>
    ELSE /\ loc # <<>> /\ Head(loc) = <<"key", Head(segs).name>>
         /\ IF ~Head(segs).wildcard THEN Spells(Tail(segs), Tail(loc))
            ELSE Len(loc) > 1 /\ loc[2][1] = "at" /\ Spells(Tail(segs), SubSeq(loc, 3, Len(loc)))

\* The nodes without the volatile fields, each subtree at a path replaced by the sentinel.
Scrubbed(nodes, policy) ==
    LET volatile(loc) == \E f \in VolatileFields : IsPrefix(<<<<"key", "metadata">>, <<"key", f>>>>, loc)
        named(loc) == \E p \in policy : Spells(p, loc)
        under(loc) == \E i \in 0..(Len(loc) - 1) : named(SubSeq(loc, 1, i))
    IN  {IF named(n[1]) THEN <<n[1], Sentinel>> ELSE n :
            n \in {x \in nodes : ~volatile(x[1]) /\ ~under(x[1])}}

Policy(asked) == {Parse(p, <<>>) : p \in asked} \cup {Builtin}

\* Nodes hold addresses, and every policy in use holds the
\* built-in path (CompileRedaction, "always including the built-in scrubs").
TypeOK ==
    /\ \A a \in DOMAIN heap :
         /\ heap[a].t = "map" => \A k \in DOMAIN heap[a].m : heap[a].m[k] \in DOMAIN heap
         /\ heap[a].t = "arr" => \A i \in DOMAIN heap[a].s : heap[a].s[i] \in DOMAIN heap
    /\ cached # None => cached \in DOMAIN heap
    /\ \A s \in Installed : interests[s].policy # None => Builtin \in interests[s].policy

\* What is stored is the API server's object without the volatile fields and with every
\* path any rule asked for replaced, whether or not a transform ran and whichever scopes
\* overlap; the actors are its field managers (MergeRedaction, stripVolatileFields: "must
\* hash identically to the same object before the transform ran").
StoredAsAsked ==
    \A i \in DOMAIN rows :
        /\ Nodes(Decode(heap, rows[i].data)) = Scrubbed(Nodes(rows[i].of), Policy(rows[i].asked))
        /\ rows[i].actors = ExtractActors(rows[i].of)

\* Nothing that is in the cache, or was handed out before, is ever written to (Apply: "It
\* never mutates object").
SharedUntouched == [][IsPrefix(heap, heap')]_vars

\* The steps of a path, each a name with what is in its brackets, and what they spell.
Rendered(steps) ==
    FlattenSeq([i \in DOMAIN steps |->
        (IF i = 1 THEN <<>> ELSE <<".">>) \o <<steps[i][1]>>
            \o IF steps[i][2] = "" THEN <<>> ELSE <<"[", steps[i][2], "]">>])
Meant(steps) ==
    FlattenSeq([i \in DOMAIN steps |->
        <<Segment(steps[i][1], steps[i][2] = "*")>>
            \o IF steps[i][2] \in {"", "*"} THEN <<>> ELSE <<Segment(Quoted[steps[i][2]], FALSE)>>])

\* A scope is installed exactly when each of its paths is one the grammar of
\* RedactionFieldPathPattern, extended by quoted keys, can spell, and its policy is what
\* they mean ("a path the API server admits can never fail to compile").
ParsesExactly ==
    LET brackets == {"", "*"} \cup {w \in DOMAIN Quoted : Quoted[w] # ""}
        names(p) == SelectSeq(p, LAMBDA w : w \in Names)
        steps(p) == {[i \in DOMAIN names(p) |-> <<names(p)[i], b[i]>>] :
                        b \in [DOMAIN names(p) -> brackets \cap (ToSet(p) \cup {""})]}
        spelling(p) == {x \in steps(p) : x # <<>> /\ Rendered(x) = p}
    IN  \A s \in Scopes : wanted[s] \notin {None, {}} =>
            /\ interests[s] # None <=> \A p \in wanted[s] : spelling(p) # {}
            /\ interests[s] # None =>
                 interests[s].policy = {Meant(x) : x \in UNION {spelling(p) : p \in wanted[s]}} \cup {Builtin}

-----------------------------------------------------------------------------
\* What a comment of the code says and TLC refutes with a path that names a label; no
\* run checks this.

\* A value on a path that is asked for is in no column of the row (ExtraRedaction: "a
\* redacted value never reaches ClickHouse").
NeverStored ==
    \A i \in DOMAIN rows : LET labels == rows[i].labels.m
        IN  \A k \in DOMAIN labels, p \in Policy(rows[i].asked) :
                Spells(p, <<<<"key", "metadata">>, <<"key", "labels">>, <<"key", k>>>>) => labels[k] = Sentinel
=============================================================================
