-------------------------- MODULE MCNormalization --------------------------
(***************************************************************************)
(* Instances of module Normalization: objects of several shapes under      *)
(* overlapping policies, and every short text as the path of one scope.    *)
(***************************************************************************)
EXTENDS Normalization, TLC

Node(m) == Map(m)
Manager(n) == Map("manager" :> Str(n))

\* An applied object, with a list of maps and a string.
Applied ==
    Node(("metadata" :> Node(
            ("annotations" :> Node((LastApplied :> Str("copy")) @@ ("io/token" :> Str("t"))))
            @@ ("labels" :> Node("tier" :> Str("web")))
            @@ ("managedFields" :> Arr(<<Manager("kubectl"), Str("odd"), Node("x" :> Str("y"))>>))
            @@ ("resourceVersion" :> Str("7"))))
         @@ ("spec" :> Node(("list" :> Arr(<<Node("value" :> Str("p")), Str("q")>>))
                            @@ ("plain" :> Str("r")))))
\* An object without annotations, whose list is none.
Bare ==
    Node(("metadata" :> Node(("managedFields" :> Arr(<<Manager("argocd"), Manager("argocd")>>))
                             @@ ("generation" :> Str("2"))))
         @@ ("spec" :> Node("list" :> Node("value" :> Str("p")))))
\* Objects nobody has claimed a field of.
Unmanaged ==
    { Node(("metadata" :> Node("annotations" :> Node("io/token" :> Str("t")))) @@ ("spec" :> Str("s"))),
      Node("metadata" :> Node("managedFields" :> Arr(<<>>))) }
MCObjects == {Applied, Bare} \cup Unmanaged

MCNames == {"metadata", "annotations", "labels", "tier", "spec", "list", "value", "plain", "a"}
MCQuoted == ("'io/token'" :> "io/token") @@ ("'k'" :> "k") @@ ("''" :> "")

Values == <<"spec", ".", "list", "[", "*", "]", ".", "value">>
Elements == <<"spec", ".", "list", "[", "*", "]">>
Plain == <<"spec", ".", "plain">>
Token == <<"metadata", ".", "annotations", "[", "'io/token'", "]">>
Whole == <<"spec">>
Annotated == <<"metadata", ".", "annotations">>
\* Two rules, each with one of the sets.
PathSets == {{}, {Values, Token}, {Whole, Annotated}, {Elements, Plain}}
MCRedactions == {{p, q} : p, q \in PathSets}

BothScopes == {"namespace", "cluster"}

\* Texts up to the length bound, with names, keys and a word that is no name.
Words == {"a", "1"}
Texts == {t \in UNION {[1..n -> Words \cup {".", "[", "]", "*", "'k'", "''"}] : n \in 0..6} :
            \A i \in 1..(Len(t) - 1) : ~(t[i] \in Words /\ t[i + 1] \in Words)}

\* A scope that asks for a text, and nothing to store.
TextInit ==
    /\ heap = <<>> /\ cached = None /\ source = None
    /\ \E t \in Texts : wanted = [s \in Scopes |-> IF s = "cluster" THEN {t} ELSE None]
    /\ interests = [s \in Scopes |-> Interest(wanted[s])]
    /\ rows = <<>> /\ arrivals = MaxArrivals /\ edits = MaxEdits

NormalizationSpec == (Init \/ TextInit) /\ [][Next]_vars
=============================================================================
