--------------------------- MODULE RuleReconciler ---------------------------
(***************************************************************************)
(* The reconciler of StreamRules and ClusterStreamRules,                   *)
(* internal/controller/streamrule_controller.go, with its redaction merge  *)
(* (redaction.go) and gauge (metrics.go), for one rule of either kind.      *)
(*                                                                         *)
(* A pass reads the rule, its sink, the namespaces, discovery and the      *)
(* operator's own permissions one after the other, projects what survives  *)
(* into the plan registry and writes the status.  All of it may change     *)
(* between two reads.  The rule is read from a cache that lags; a status   *)
(* update from a stale copy conflicts.  Kinds are resolved through the     *)
(* REST mapper, which asks discovery on a miss only and keeps its answers, *)
(* behind the gate of module Resolver; the watch manager and other rules   *)
(* ask it too.  The events told about Ready are those of module SinkHealth.*)
(***************************************************************************)
EXTENDS Naturals, FiniteSets

CONSTANTS
    None,
    ClusterKinds,   \* the kinds whose resources have no namespace
    DeniedKinds,    \* deniedGroup and deniedKind: Secrets
    Home,           \* the namespace of a StreamRule
    Specs,          \* specs authors write; cluster says which kind of rule has it
    SinkCRs,        \* states of the sink CR, None among them
    Discoveries,    \* sets of kinds the API server may serve
    NamespaceSets,  \* sets of namespaces the rule's selector may match
    Grants,         \* sets of <<kind, namespace>> the operator may read
    MaxRuleEdits,       \* bound: changes of rule, sink, namespaces, discovery and grants
    MaxFaults       \* bound: failed reads, reviews and updates, lost wake-ups

VARIABLES
    rule, cache,     \* the CR in the API server and in the manager's cache
    sink, served, selected, granted,   \* the rest of the world
    mapped,          \* the kinds the REST mapper has an answer for
    shut,            \* the kinds parked in the resolver whose retry time has not come
    queued, timer,   \* the request is queued; it will be (RequeueAfter)
    pass,            \* the running Reconcile
    registry,        \* the targets the plan registry has for the rule
    observed,        \* the conditions the gauge counts for the rule
    steady,          \* history: targets the rule, as the pass read it, wanted ever since
    ruleEdits, faults

mapper == <<mapped, shut>>
world == <<sink, served, selected, granted, mapper>>
ruleVars == <<rule, cache, world, queued, timer, pass, registry, observed, steady, ruleEdits, faults>>

Idle == [at |-> "idle"]
Conds == {"policy", "resolved", "rbac"}
Unset == [c \in Conds |-> "Absent"]
NoStatus == [cond |-> Unset, ready |-> "Absent", watches |-> 0, gen |-> 0]

-----------------------------------------------------------------------------
\* The gates.

\* Mutant: a sink whose allow-list names a denied kind admits it.
AdmitsListed(policy, kinds) ==
    /\ policy = {} => kinds \cap DeniedKinds = {}
    /\ policy # {} => kinds \subseteq policy

\* checkPolicy: an empty allow-list admits whatever is not denied in code.
Admits(policy, kinds) ==
    /\ kinds \cap DeniedKinds = {}
    /\ policy # {} => kinds \subseteq policy

\* targetNamespaces
Expanded(spec, matching) ==
    IF ~spec.cluster THEN {Home} ELSE IF spec.selector = "none" THEN {""} ELSE matching

\* namespacesFor
NamespacesFor(k, expanded) == IF k \in ClusterKinds THEN {""} ELSE expanded

\* resolveResources, with the resolver's check of the rule's scope.
Resolved(spec, kinds) ==
    {k \in spec.kinds : k \in kinds /\ k \notin spec.malformed /\ (spec.cluster \/ k \notin ClusterKinds)}

\* canonicalRedaction
Redaction(s, spec) == s.floor \cup spec.extra

\* reviewTarget: at cluster scope, then in the namespace.
Allowed(k, n, grants) == <<k, "">> \in grants \/ <<k, n>> \in grants

\* The targets asked for, before any review.
Expansion(spec, s, kinds, expanded) ==
    UNION {{[kind |-> k, ns |-> n, redaction |-> Redaction(s, spec)] : n \in NamespacesFor(k, expanded)} :
              k \in Resolved(spec, kinds)}

\* The kinds specs name; those that resolve now, and those that will once the gates
\* are open.
Kinds == UNION {s.kinds : s \in Specs}
Answered == mapped \ shut
Known == mapped \cup served

\* What should be watched for a rule in the world as it is, of the given kinds.
Wanted(r, kinds) ==
    IF r = None THEN {}
    ELSE IF r.deleting \/ sink = None \/ r.spec.selector = "invalid" THEN {}
    ELSE IF ~Admits(sink.policy, r.spec.kinds) THEN {}
    ELSE {t \in Expansion(r.spec, sink, kinds, Expanded(r.spec, selected)) : Allowed(t.kind, t.ns, granted)}

-----------------------------------------------------------------------------
RuleInit ==
    /\ \E s \in Specs : rule = [gen |-> 1, spec |-> s, deleting |-> FALSE, status |-> NoStatus]
    /\ cache = rule
    /\ sink \in SinkCRs /\ served \in Discoveries /\ selected \in NamespaceSets /\ granted \in Grants
    /\ mapped \in SUBSET (served \cap Kinds) /\ shut = {}
    /\ queued = TRUE /\ timer = FALSE /\ pass = Idle
    /\ registry = {} /\ observed = None /\ steady = {} /\ ruleEdits = 0 /\ faults = 0

\* The surroundings.
OneMoreEdit == ruleEdits < MaxRuleEdits /\ ruleEdits' = ruleEdits + 1
Fault == faults < MaxFaults /\ faults' = faults + 1

Remember == steady' = IF pass = Idle THEN {} ELSE steady \cap Wanted(pass.obj, Answered)'

EditRule ==
    /\ OneMoreEdit /\ rule # None
    /\ \E s \in Specs \ {rule.spec} : /\ s.cluster = rule.spec.cluster
                                      /\ rule' = [rule EXCEPT !.spec = s, !.gen = @ + 1]
    /\ UNCHANGED <<cache, world, queued, timer, pass, registry, observed, steady, faults>>

DeleteRule ==
    /\ OneMoreEdit /\ rule # None
    /\ \/ rule' = None
       \/ ~rule.deleting /\ rule' = [rule EXCEPT !.deleting = TRUE]
    /\ UNCHANGED <<cache, world, queued, timer, pass, registry, observed, steady, faults>>

CacheCatchesUp ==
    /\ cache # rule
    /\ cache' = rule /\ queued' = TRUE
    /\ UNCHANGED <<rule, world, timer, pass, registry, observed, steady, ruleEdits, faults>>

\* rulesForSink, rulesForNamespace, Parker.SinkGone: the wake-up may be lost when the
\* list fails or the channel is full.
Woken == \/ queued' = TRUE /\ UNCHANGED faults
         \/ UNCHANGED queued /\ Fault

SinkChanges ==
    /\ OneMoreEdit /\ \E s \in SinkCRs \ {sink} : sink' = s
    /\ Woken
    /\ UNCHANGED <<rule, cache, served, selected, granted, mapper, timer, pass, registry, observed>>
    /\ Remember

\* rulesForNamespace: the cluster rules with a selector.
SelectsNamespaces(r) == r # None /\ r.spec.cluster /\ r.spec.selector # "none"

NamespacesChange ==
    /\ OneMoreEdit /\ \E n \in NamespaceSets \ {selected} : selected' = n
    /\ IF SelectsNamespaces(cache) THEN Woken ELSE UNCHANGED <<queued, faults>>
    /\ UNCHANGED <<rule, cache, sink, served, granted, mapper, timer, pass, registry, observed>>
    /\ Remember

\* Nobody is told of a kind that is installed or a permission that is granted.
ClusterChanges ==
    /\ OneMoreEdit
    /\ \/ \E d \in Discoveries \ {served} : served' = d /\ UNCHANGED granted
       \/ \E g \in Grants \ {granted} : granted' = g /\ UNCHANGED served
    /\ UNCHANGED <<rule, cache, sink, selected, mapper, queued, timer, pass, registry, observed, faults>>
    /\ Remember

\* The mapper rebuilds a group on a miss of another kind of it: what is no longer
\* served is forgotten.  Nothing else makes it forget.
MapperReloads ==
    /\ \E gone \in (SUBSET (mapped \ served)) \ {{}} : mapped' = mapped \ gone
    /\ UNCHANGED <<rule, cache, sink, served, selected, granted, shut, queued, timer, pass, registry, observed,
                   ruleEdits, faults>>
    /\ Remember

\* A call of another caller comes back: with the mapping, which opens the gate if the
\* caller shares it (the pool has a resolver of its own on the same mapper), or with a
\* failure from before the kind was served, which is parked however late it comes.
OthersResolve(k) ==
    /\ \/ k \in Known /\ mapped' = mapped \cup {k} /\ shut' \in {shut, shut \ {k}} /\ UNCHANGED faults
       \/ k \notin shut /\ shut' = shut \cup {k} /\ UNCHANGED mapped /\ Fault
    /\ UNCHANGED <<rule, cache, sink, served, selected, granted, queued, timer, pass, registry, observed, ruleEdits>>
    /\ Remember

\* gatedError: the retry time has come.
GateOpens(k) ==
    /\ k \in shut /\ shut' = shut \ {k}
    /\ UNCHANGED <<rule, cache, sink, served, selected, granted, mapped, queued, timer, pass, registry, observed,
                   steady, ruleEdits, faults>>

Resync ==
    /\ timer
    /\ timer' = FALSE /\ queued' = TRUE
    /\ UNCHANGED <<rule, cache, world, pass, registry, observed, steady, ruleEdits, faults>>

-----------------------------------------------------------------------------
\* Reconcile.

\* Mutant: the targets of a rule that is gone stay.
WithdrawLate ==
    /\ pass = Idle /\ queued
    /\ cache # None => cache.deleting
    /\ queued' = FALSE /\ observed' = None
    /\ UNCHANGED <<rule, cache, world, timer, pass, registry, steady, ruleEdits, faults>>

\* The rule is gone or going: Registry.Remove and Metrics.Forget.
Withdraw ==
    /\ pass = Idle /\ queued
    /\ cache # None => cache.deleting
    /\ queued' = FALSE /\ registry' = {} /\ observed' = None
    /\ UNCHANGED <<rule, cache, world, timer, pass, steady, ruleEdits, faults>>

Begin ==
    /\ pass = Idle /\ queued
    /\ cache # None /\ ~cache.deleting
    /\ queued' = FALSE
    /\ pass' = [at |-> "sink", obj |-> cache, cond |-> Unset]
    /\ steady' = Wanted(cache, Answered)
    /\ UNCHANGED <<rule, cache, world, timer, registry, observed, ruleEdits, faults>>

\* resolveSink: what the sink itself means for the rule.
Verdict(s) == IF s = None THEN "SinkMissing" ELSE IF s.ready THEN "none" ELSE "SinkNotReady"

\* plan returns: the targets to install, or an error that leaves the installed alone.
Planned(s, cond, targets) ==
    pass' = [at |-> "install", obj |-> pass.obj, sink |-> s, cond |-> cond,
             verdict |-> Verdict(s), install |-> TRUE, targets |-> targets]

PlanFailed(cond, verdict) ==
    pass' = [at |-> "install", obj |-> pass.obj, sink |-> None, cond |-> cond,
             verdict |-> verdict, install |-> FALSE, targets |-> {}]

\* resolveSink and checkPolicy.
PlanSink ==
    /\ pass.at = "sink"
    /\ \/ /\ Fault
          /\ PlanFailed(pass.cond, "none")
       \/ /\ sink = None /\ UNCHANGED faults
          /\ Planned(None, [c \in Conds |-> "Unknown"], {})
       \/ /\ sink # None /\ UNCHANGED faults
          /\ IF Admits(sink.policy, pass.obj.spec.kinds)
             THEN pass' = [at |-> "namespaces", obj |-> pass.obj, sink |-> sink,
                           cond |-> [pass.cond EXCEPT !.policy = "True"]]
             ELSE Planned(sink, [c \in Conds |-> IF c = "policy" THEN "False" ELSE "Unknown"], {})
    /\ UNCHANGED <<rule, cache, world, queued, timer, registry, observed, steady, ruleEdits>>

\* targetNamespaces: an unusable selector, or a list that fails or succeeds.
PlanNamespaces ==
    /\ pass.at = "namespaces"
    /\ \/ /\ pass.obj.spec.cluster /\ pass.obj.spec.selector = "invalid" /\ UNCHANGED faults
          /\ Planned(pass.sink, [pass.cond EXCEPT !.resolved = "Invalid"], {})
       \/ /\ pass.obj.spec.cluster /\ pass.obj.spec.selector = "labels" /\ Fault
          /\ PlanFailed([pass.cond EXCEPT !.resolved = "Unknown"], Verdict(pass.sink))
       \/ /\ pass.obj.spec.cluster => pass.obj.spec.selector # "invalid"
          /\ pass' = [at |-> "resolve", obj |-> pass.obj, sink |-> pass.sink, cond |-> pass.cond,
                      expanded |-> Expanded(pass.obj.spec, selected)]
          /\ UNCHANGED faults
    /\ UNCHANGED <<rule, cache, world, queued, timer, registry, observed, steady, ruleEdits>>

\* Resolve, for every kind of the rule: a shut gate replays its failure, the mapper
\* answers for what it knows and asks discovery for the rest, which may fail; a
\* failure, and a kind that is not served, is parked.
PlanResources ==
    /\ pass.at = "resolve"
    /\ LET asked == pass.obj.spec.kinds \ (mapped \cup shut)
       IN  \E failed \in SUBSET (asked \cap served) :
             /\ IF failed = {} THEN UNCHANGED faults ELSE Fault
             /\ mapped' = mapped \cup ((asked \cap served) \ failed)
             /\ shut' = shut \cup (asked \ mapped')
             /\ LET all == Resolved(pass.obj.spec, Answered') = pass.obj.spec.kinds
                IN  pass' = [at |-> "review", obj |-> pass.obj, sink |-> pass.sink,
                             asked |-> Expansion(pass.obj.spec, pass.sink, Answered', pass.expanded),
                             cond |-> [pass.cond EXCEPT !.resolved = IF all THEN "True" ELSE "False"]]
    /\ UNCHANGED <<rule, cache, sink, served, selected, granted, queued, timer, registry, observed, steady, ruleEdits>>

\* reviewTargets: one review that fails fails the pass, a denial drops its target.
PlanReview ==
    /\ pass.at = "review"
    /\ \/ /\ pass.asked # {} /\ Fault
          /\ PlanFailed([pass.cond EXCEPT !.rbac = "Unknown"], Verdict(pass.sink))
       \/ /\ UNCHANGED faults
          /\ LET allowed == {t \in pass.asked : Allowed(t.kind, t.ns, granted)}
             IN  Planned(pass.sink, [pass.cond EXCEPT !.rbac = IF allowed = pass.asked THEN "True" ELSE "False"],
                         allowed)
    /\ UNCHANGED <<rule, cache, world, queued, timer, registry, observed, steady, ruleEdits>>

\* Mutant: the sink's health is not consulted.
RolledUpOwn(cond, verdict) ==
    LET bad(c) == cond[c] \notin {"Absent", "True"}
    IN  IF bad("policy") THEN "policy" ELSE IF bad("resolved") THEN "resolved"
        ELSE IF bad("rbac") THEN "rbac" ELSE "Streaming"

\* readyFor, readyCondition: the sink's verdict, else the first condition decided in
\* this pass that is not True.
RolledUp(cond, verdict) ==
    LET bad(c) == cond[c] \notin {"Absent", "True"}
    IN  IF verdict # "none" THEN verdict
        ELSE IF bad("policy") THEN "policy" ELSE IF bad("resolved") THEN "resolved"
        ELSE IF bad("rbac") THEN "rbac" ELSE "Streaming"

\* Mutant: a pass that failed withdraws what it could not confirm.
InstallAlways ==
    /\ pass.at = "install"
    /\ registry' = pass.targets
    /\ pass' = [at |-> "status", obj |-> pass.obj, cond |-> pass.cond,
                ready |-> RolledUp(pass.cond, pass.verdict), failed |-> ~pass.install,
                watches |-> Cardinality(registry')]
    /\ UNCHANGED <<rule, cache, world, queued, timer, observed, steady, ruleEdits, faults>>

\* Registry.Upsert, the roll-up, and the count read back from the registry.  Upsert
\* refuses only malformed selectors, which resolveResources has left out.
InstallTargets ==
    /\ pass.at = "install"
    /\ registry' = IF pass.install THEN pass.targets ELSE registry
    /\ pass' = [at |-> "status", obj |-> pass.obj, cond |-> pass.cond,
                ready |-> RolledUp(pass.cond, pass.verdict), failed |-> ~pass.install,
                watches |-> Cardinality(registry')]
    /\ UNCHANGED <<rule, cache, world, queued, timer, observed, steady, ruleEdits, faults>>

\* statusWriter.apply: conditions the pass did not decide stay as they are.
Merged(old, new) == [c \in Conds |-> IF new[c] = "Absent" THEN old[c] ELSE new[c]]

\* updateStatus and Metrics.Observe; a failed plan is retried, another resynced.
WriteStatus ==
    /\ pass.at = "status"
    /\ rule # None /\ cache = rule
    /\ rule' = [rule EXCEPT !.status = [cond |-> Merged(rule.status.cond, pass.cond), ready |-> pass.ready,
                                        watches |-> pass.watches, gen |-> pass.obj.gen]]
    /\ observed' = rule'.status
    /\ IF pass.failed THEN queued' = TRUE /\ UNCHANGED timer ELSE timer' = TRUE /\ UNCHANGED queued
    /\ pass' = Idle /\ steady' = {}
    /\ UNCHANGED <<cache, world, registry, ruleEdits, faults>>

\* The update conflicts, finds the rule gone, or fails: the pass returns an error.
WriteFails ==
    /\ pass.at = "status"
    /\ \/ (rule = None \/ cache # rule) /\ UNCHANGED faults
       \/ Fault
    /\ queued' = TRUE /\ pass' = Idle /\ steady' = {}
    /\ UNCHANGED <<rule, cache, world, timer, registry, observed, ruleEdits>>

Reconcile ==
    \/ Withdraw \/ Begin \/ PlanSink \/ PlanNamespaces \/ PlanResources \/ PlanReview
    \/ InstallTargets \/ WriteStatus \/ WriteFails

Surroundings ==
    EditRule \/ DeleteRule \/ SinkChanges \/ NamespacesChange \/ ClusterChanges

Resolving == MapperReloads \/ \E k \in Kinds : OthersResolve(k) \/ GateOpens(k)

RuleNext == Reconcile \/ Surroundings \/ Resolving \/ CacheCatchesUp \/ Resync

RuleSpec == RuleInit /\ [][RuleNext]_ruleVars

\* Watches deliver, the resync timer fires, gates open, and a queued request is worked
\* on.
RuleFairness ==
    /\ WF_ruleVars(CacheCatchesUp)
    /\ WF_ruleVars(Resync)
    /\ \A k \in Kinds : WF_ruleVars(GateOpens(k))
    /\ WF_ruleVars(Reconcile)

FairRule == RuleSpec /\ RuleFairness

-----------------------------------------------------------------------------
\* Targets are ones the data plane can serve: a resource without a namespace is never
\* watched in one (translate refuses it), and a StreamRule stays in its namespace.
RuleTypeOK ==
    /\ \A t \in registry : /\ t.kind \in ClusterKinds => t.ns = ""
                           /\ rule # None /\ ~rule.spec.cluster => t.ns = Home
    /\ rule # None => rule.status.watches \in Nat /\ rule.gen \in 1..(MaxRuleEdits + 1)
    /\ ruleEdits \in 0..MaxRuleEdits /\ faults \in 0..MaxFaults /\ {queued, timer} \subseteq BOOLEAN

\* Whatever is installed was admitted by the policy the pass read and carries that
\* sink's redaction floor; a denied kind is never installed (checkPolicy: "can never
\* become a way to stream credentials").
InstalledIsAdmitted ==
    [][registry' # registry /\ registry' # {} =>
         /\ Admits(pass.sink.policy, pass.obj.spec.kinds)
         /\ \A t \in registry' : /\ t.kind \notin DeniedKinds
                                /\ pass.sink.floor \cup pass.obj.spec.extra \subseteq t.redaction]_ruleVars

\* A target that was wanted all through a pass, of a kind the mapper knew and no gate
\* was shut for, is not withdrawn by it, whatever reads failed (planOutcome.install: "Withdrawing working targets because the API server
\* hiccuped would stop watches").
KeepsSteady == [][registry \cap steady \subseteq registry']_ruleVars

\* What the registry holds for the rule becomes what the cluster's state calls for,
\* through lost wake-ups, failures, shut gates, conflicts and the rule's end.  A kind
\* counts that is served, or that the mapper still knows.
RegistryFollowsRule == <>[](registry = Wanted(rule, Known))

\* The verdict Ready should carry.
Truth ==
    IF sink = None THEN "SinkMissing" ELSE IF ~sink.ready THEN "SinkNotReady"
    ELSE IF ~Admits(sink.policy, rule.spec.kinds) THEN "policy"
    ELSE IF rule.spec.cluster /\ rule.spec.selector = "invalid" THEN "resolved"
    ELSE IF Resolved(rule.spec, Known) # rule.spec.kinds THEN "resolved"
    ELSE IF Wanted(rule, Known) # Expansion(rule.spec, sink, Known, Expanded(rule.spec, selected)) THEN "rbac"
    ELSE "Streaming"

\* Status and gauge become true of the rule (StreamRuleStatus; Observe: "the gauge
\* describes what the API server actually holds").
StatusTruthful ==
    <>[](/\ rule = None => observed = None
         /\ rule # None /\ ~rule.deleting =>
               /\ rule.status.ready = Truth /\ rule.status.watches = Cardinality(Wanted(rule, Known))
               /\ observed = rule.status /\ rule.status.gen = rule.gen)

-----------------------------------------------------------------------------
\* What one would expect, or the comments of the code say, and TLC refutes with one edit
\* and one failed read; no run checks these.

\* A kind that is no longer served is not watched: the mapper goes on answering for it,
\* so its target stays, and with it the status it had.
RemovedIsWithdrawn == <>[](\A t \in registry : t.kind \in served)

\* A rule is Ready only with every condition True (readyFor: "no code path can set
\* Ready=True while something it does not know about is False").
ReadyMeansAll ==
    rule # None /\ rule.status.ready = "Streaming" => \A c \in Conds : rule.status.cond[c] = "True"

\* A gate that did not run because the selector was refused has no verdict
\* (ReasonNotEvaluated: "It is Unknown, never False").
NotEvaluatedIsUnknown ==
    rule # None /\ rule.status.cond.resolved = "Invalid" => rule.status.cond.rbac \in {"Absent", "Unknown"}
=============================================================================
