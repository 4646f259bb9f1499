--------------------------- MODULE MCControlPlane ---------------------------
(***************************************************************************)
(* The control plane on small instances: the registry of desired targets,  *)
(* the reconciler that fills it and the resolver both planes ask.  They    *)
(* share no variable: a behaviour is one of one of them, with the others   *)
(* at rest, in a state in which they have nothing to do.                   *)
(***************************************************************************)
EXTENDS Registry, RuleReconciler, Resolver

CONSTANTS r1, r2, key1, s1, s2, p1, none

VARIABLE part

Author(cluster, kinds, selector, extra) ==
    [cluster |-> cluster, kinds |-> kinds, malformed |-> {}, selector |-> selector, extra |-> extra]
SinkCR(ready, policy, floor) == [ready |-> ready, policy |-> policy, floor |-> floor]

\* A StreamRule: a kind it may not watch beside one it may, a malformed selector
\* beside Secrets; and a ClusterStreamRule: by namespace, and with a bad selector.
MCSpecs ==
    { Author(FALSE, {"Pod", "Node"}, "none", {"spec.x"}),
      [Author(FALSE, {"Pod", "Secret"}, "none", {}) EXCEPT !.malformed = {"Pod"}],
      Author(TRUE, {"Pod", "Crd"}, "labels", {"spec.x"}),
      Author(TRUE, {"Node"}, "invalid", {}) }
MCSinkCRs == {None, SinkCR(TRUE, {}, {"spec.floor"}), SinkCR(FALSE, {"Pod", "Secret"}, {})}
AllKinds == {"Pod", "Node", "Secret", "Crd"}
MCDiscoveries == {AllKinds, AllKinds \ {"Crd"}}
MCGrants == {AllKinds \X {""}, {<<"Pod", "a">>, <<"Node", "">>}}

\* The resolver of the reconcilers, asked about a cluster-scoped kind.
MCGateOf == [c \in Callers |-> "control"]

-----------------------------------------------------------------------------
RegistryAtRest ==
    /\ rules = [r \in Rules |-> {}] /\ targets = [key \in TargetKeys |-> NoEntry]
    /\ notified = FALSE /\ loop = "waiting" /\ held = Snapshot /\ installed = Snapshot /\ edits = 0

\* The rule is gone.
RuleAtRest ==
    /\ rule = None /\ cache = None /\ sink = None /\ served = {} /\ selected = {} /\ granted = {}
    /\ mapped = {} /\ shut = {}
    /\ queued = FALSE /\ timer = FALSE /\ pass = Idle /\ registry = {} /\ observed = None
    /\ steady = {} /\ ruleEdits = 0 /\ faults = 0

\* The kind is resolved and nobody asks.
ResolverAtRest ==
    /\ wanting = {} /\ discovery = "found" /\ calm = MaxDelay /\ flips = 0
    /\ parked = [g \in Gates |-> NotParked]
    /\ call = [c \in Callers |-> "idle"] /\ verdict = [c \in Callers |-> Vetted(c)]

\* The cluster a rule is first reconciled in; the edits depart from it.
Plain ==
    /\ sink = SinkCR(TRUE, {}, {"spec.floor"})
    /\ served = AllKinds /\ selected = {"a"} /\ granted = AllKinds \X {""}
    /\ mapped = AllKinds \ {"Crd"}

ControlInit ==
    \/ part = "registry" /\ Init /\ RuleAtRest /\ ResolverAtRest
    \/ part = "rule" /\ RuleInit /\ Plain /\ RegistryAtRest /\ ResolverAtRest
    \/ part = "resolver" /\ ResolverInit /\ RegistryAtRest /\ RuleAtRest

ControlNext ==
    /\ \/ part = "registry" /\ Next /\ UNCHANGED <<ruleVars, resolverVars>>
       \/ part = "rule" /\ RuleNext /\ UNCHANGED <<vars, resolverVars>>
       \/ part = "resolver" /\ ResolverNext /\ UNCHANGED <<vars, ruleVars>>
    /\ UNCHANGED part

ControlSpec ==
    /\ ControlInit
    /\ [][ControlNext]_<<part, vars, ruleVars, resolverVars>>
    /\ Fairness /\ RuleFairness /\ ResolverFairness
=============================================================================
