------------------------------ MODULE Resolver ------------------------------
(***************************************************************************)
(* The kind resolver, internal/watch/resolver.go, for one kind: a failed   *)
(* resolution parks the kind, callers that come before its retry time get  *)
(* the last verdict replayed, and the others ask discovery with no lock    *)
(* held.  Several callers and several resolvers ask about the kind.        *)
(***************************************************************************)
EXTENDS Naturals, FiniteSets

CONSTANTS
    Callers,
    Gates,                 \* the Resolver instances of the process
    GateOf,                \* the instance a caller uses
    Namespaced,            \* the callers that resolve for a StreamRule
    ClusterScoped,         \* whether the kind is cluster-scoped
    BaseDelay, MaxDelay,   \* in ticks
    MaxFlips               \* bound: installations, removals and outages of the kind

ASSUME ResolverAssumption ==
    /\ BaseDelay \in Nat /\ MaxDelay \in Nat /\ BaseDelay <= MaxDelay
    /\ GateOf \in [Callers -> Gates]

VARIABLES
    wanting,    \* the callers with a rule or a target of the kind left
    discovery,  \* what the API server would answer: found, notFound or error
    parked,     \* per gate: the verdict replayed, the delay and the ticks left of it
    call,       \* per caller: idle, asking, or what discovery answered
    verdict,    \* per caller: what its last Resolve returned
    calm,       \* ticks since the kind was last unresolvable or a failure outstanding
    flips

resolverVars == <<wanting, discovery, parked, call, verdict, calm, flips>>

Answers == {"found", "notFound", "error"}
Failures == {"notFound", "error"}
NotParked == [err |-> "none", delay |-> 0, wait |-> 0]

ResolverTypeOK ==
    /\ wanting \subseteq Callers /\ discovery \in Answers /\ flips \in 0..MaxFlips /\ calm \in 0..MaxDelay
    /\ \A g \in Gates : parked[g] = NotParked
                     \/ /\ parked[g].err \in Failures
                        /\ parked[g].delay \in BaseDelay..MaxDelay
                        /\ parked[g].wait \in 0..parked[g].delay
    /\ \A c \in Callers : /\ call[c] \in {"idle", "asking"} \cup Answers
                          /\ verdict[c] \in {"none", "clusterScoped"} \cup Answers

ResolverInit ==
    /\ wanting = Callers /\ discovery = "notFound" /\ calm = 0 /\ flips = 0
    /\ parked = [g \in Gates |-> NotParked]
    /\ call = [c \in Callers |-> "idle"] /\ verdict = [c \in Callers |-> "none"]

\* A CRD is installed or removed, or discovery fails.
Flip ==
    /\ flips < MaxFlips /\ flips' = flips + 1
    /\ \E a \in Answers \ {discovery} : discovery' = a
    /\ calm' = 0
    /\ UNCHANGED <<wanting, parked, call, verdict>>

\* The last rule, or target, of a caller that names the kind goes.
Leave(c) ==
    /\ c \in wanting /\ call[c] = "idle"
    /\ wanting' = wanting \ {c}
    /\ UNCHANGED <<discovery, parked, call, verdict, calm, flips>>

Resolvable == discovery = "found" /\ \A c \in Callers : call[c] \notin Failures

TimePasses ==
    /\ parked' = [g \in Gates |-> [parked[g] EXCEPT !.wait = IF @ = 0 THEN 0 ELSE @ - 1]]
    /\ calm' = IF ~Resolvable THEN 0 ELSE IF calm < MaxDelay THEN calm + 1 ELSE calm
    /\ UNCHANGED <<wanting, discovery, call, verdict, flips>>

\* gatedError: the retry time has not come.
GateShut(g) == parked[g] # NotParked /\ parked[g].wait > 0

\* Mutant: a replay starts the delay again.
ReplayExtends(c) ==
    /\ c \in wanting /\ call[c] = "idle" /\ GateShut(GateOf[c])
    /\ verdict' = [verdict EXCEPT ![c] = parked[GateOf[c]].err]
    /\ parked' = [parked EXCEPT ![GateOf[c]].wait = parked[GateOf[c]].delay]
    /\ UNCHANGED <<wanting, discovery, call, calm, flips>>

\* Resolve, at a shut gate: the verdict is replayed.
Replay(c) ==
    /\ c \in wanting /\ call[c] = "idle" /\ GateShut(GateOf[c])
    /\ verdict' = [verdict EXCEPT ![c] = parked[GateOf[c]].err]
    /\ UNCHANGED <<wanting, discovery, parked, call, calm, flips>>

Ask(c) ==
    /\ c \in wanting /\ call[c] = "idle" /\ ~GateShut(GateOf[c])
    /\ call' = [call EXCEPT ![c] = "asking"]
    /\ UNCHANGED <<wanting, discovery, parked, verdict, calm, flips>>

\* RESTMapping, classify.
Answer(c) ==
    /\ call[c] = "asking"
    /\ call' = [call EXCEPT ![c] = discovery]
    /\ calm' = IF discovery = "found" THEN calm ELSE 0
    /\ UNCHANGED <<wanting, discovery, parked, verdict, flips>>

NextDelay(p) ==
    IF p = NotParked THEN BaseDelay
    ELSE IF 2 * p.delay < MaxDelay THEN 2 * p.delay ELSE MaxDelay

Park(c) ==
    /\ call[c] \in Failures
    /\ LET d == NextDelay(parked[GateOf[c]])
       IN  parked' = [parked EXCEPT ![GateOf[c]] = [err |-> call[c], delay |-> d, wait |-> d]]
    /\ verdict' = [verdict EXCEPT ![c] = call[c]]
    /\ call' = [call EXCEPT ![c] = "idle"]
    /\ calm' = 0
    /\ UNCHANGED <<wanting, discovery, flips>>

\* checkScope: a namespaced rule may not watch a cluster-scoped kind.
Vetted(c) == IF ClusterScoped /\ c \in Namespaced THEN "clusterScoped" ELSE "found"

\* unpark, and ResolveForScope.
Unpark(c) ==
    /\ call[c] = "found"
    /\ parked' = [parked EXCEPT ![GateOf[c]] = NotParked]
    /\ verdict' = [verdict EXCEPT ![c] = Vetted(c)]
    /\ call' = [call EXCEPT ![c] = "idle"]
    /\ UNCHANGED <<wanting, discovery, calm, flips>>

Resolve(c) == Replay(c) \/ Ask(c) \/ Answer(c) \/ Park(c) \/ Unpark(c)

ResolverNext == Flip \/ TimePasses \/ \E c \in Callers : Resolve(c) \/ Leave(c)

ResolverSpec == ResolverInit /\ [][ResolverNext]_resolverVars

\* Time passes, calls come back, and callers retry (requeues and the pool's tick).
ResolverFairness ==
    /\ WF_resolverVars(TimePasses)
    /\ \A c \in Callers : /\ WF_resolverVars(Answer(c)) /\ WF_resolverVars(Park(c)) /\ WF_resolverVars(Unpark(c))
                          /\ SF_resolverVars(Ask(c))

FairResolver == ResolverSpec /\ ResolverFairness

-----------------------------------------------------------------------------
\* Once the kind has resolved and no failure has been outstanding for the longest
\* delay, no gate is shut, whatever calls overlapped (maxRetryDelay: "A CRD
\* installation should start streaming within a window an operator perceives as
\* immediate").
OpensInTime == calm >= MaxDelay => \A g \in Gates : ~GateShut(g)

\* A failure is reported only while the kind is unresolvable or was within the
\* longest delay; the verdict of a scope check is never given to another caller.
VerdictIsRecent ==
    [][\A c \in Callers : verdict'[c] # verdict[c] =>
          /\ verdict'[c] \in Failures => calm < MaxDelay
          /\ verdict'[c] = "clusterScoped" => c \in Namespaced]_resolverVars

\* A kind that stays installed is resolved in the end by every caller that stays,
\* without a restart (Resolve, "Self-healing").
SelfHeals ==
    \A c \in Callers :
        <>[](discovery = "found" /\ c \in wanting) => <>[](verdict[c] = Vetted(c) \/ c \notin wanting)

-----------------------------------------------------------------------------
\* What a comment of the code says and TLC refutes with a gate for the reconcilers and
\* one for the watch manager, as main builds them; no run checks this.

\* While the kind is parked nobody asks discovery (WatchManager's Options: "a kind
\* that failed to resolve is retried on one gate rather than two").
OneGate ==
    [][(\E c \in Callers : call[c] = "idle" /\ call'[c] = "asking")
          => \A g \in Gates : ~GateShut(g)]_resolverVars
=============================================================================
