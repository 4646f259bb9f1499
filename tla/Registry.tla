------------------------------ MODULE Registry ------------------------------
(***************************************************************************)
(* The desired-state registry, internal/plan/registry.go, and the loop of  *)
(* the WatchManager that follows it (internal/watch/manager.go, Start).    *)
(*                                                                         *)
(* Reconcilers replace or withdraw a rule's targets under the registry's   *)
(* lock and post a wake-up on a channel of capacity one.  The loop takes a *)
(* wake-up, waits out the debounce window, takes a snapshot and installs   *)
(* it; reconcilers run between any two of these steps.  Shutdown and the   *)
(* settle timer, which only closes the gate of the start-up collection,    *)
(* are left out.                                                           *)
(***************************************************************************)
EXTENDS Naturals, FiniteSets

CONSTANTS
    Rules,         \* rule keys
    TargetKeys,    \* (sink, kind, namespace)
    Selectors,     \* canonical label selectors
    Redactions,    \* non-empty redaction path sets
    NoRedaction,   \* the empty path set
    MaxEdits       \* bound: calls of Upsert and Remove

VARIABLES
    rules,      \* Registry.rules: each rule's canonical target set, {} if unknown
    targets,    \* Registry.targets: the reference counts of each key
    notified,   \* whether the changes channel holds a wake-up
    loop,       \* "waiting", "debouncing", "diffing", "installing"
    held,       \* the snapshot of the pass that is running
    installed,  \* the snapshot the interest table was last replaced from
    edits       \* registry calls so far

vars == <<rules, targets, notified, loop, held, installed, edits>>

loopVars == <<loop, held, installed>>

WatchTarget == [key: TargetKeys, selector: Selectors,
                redaction: Redactions \cup {NoRedaction}]

ASSUME RegistryAssumption ==
    /\ NoRedaction \notin Redactions
    /\ IsFiniteSet(Rules) /\ IsFiniteSet(WatchTarget)
    /\ MaxEdits \in Nat

TargetEntry == [rules: [Rules -> Nat], selectors: [Selectors -> Nat],
                redactions: [Redactions -> Nat]]

\* A key without an entry: nothing is counted.
NoEntry == [rules |-> [r \in Rules |-> 0], selectors |-> [s \in Selectors |-> 0],
            redactions |-> [p \in Redactions |-> 0]]

Counted(f) == {x \in DOMAIN f : f[x] > 0}

\* TargetState: what Snapshot reports of a key.
TargetState(entry) == [rules |-> Counted(entry.rules), selectors |-> Counted(entry.selectors),
                       redactions |-> Counted(entry.redactions)]

Snapshot == [key \in TargetKeys |-> TargetState(targets[key])]

TypeOK ==
    /\ rules \in [Rules -> SUBSET WatchTarget]
    /\ targets \in [TargetKeys -> TargetEntry]
    /\ notified \in BOOLEAN
    /\ loop \in {"waiting", "debouncing", "diffing", "installing"}
    /\ edits \in 0 .. MaxEdits

\* The loop's first pass runs before it waits for anything.
Init ==
    /\ rules = [r \in Rules |-> {}]
    /\ targets = [key \in TargetKeys |-> NoEntry]
    /\ notified = FALSE
    /\ loop = "diffing"
    /\ held = Snapshot
    /\ installed = Snapshot
    /\ edits = 0

-----------------------------------------------------------------------------
\* The targets of ts that lie on a key, have a selector, have a redaction.
On(key, ts) == {t \in ts : t.key = key}

Selecting(s, ts) == {t \in ts : t.selector = s}

Redacting(p, ts) == {t \in ts : t.redaction = p}

\* addRefLocked for every target of ts.  A rule that redacts nothing adds nothing
\* to the redactions.
AddRefs(r, ts, refs) ==
    [key \in TargetKeys |->
        LET entry == refs[key]
            on == On(key, ts)
        IN  [rules |-> [entry.rules EXCEPT ![r] = @ + Cardinality(on)],
             selectors |-> [s \in Selectors |->
                 entry.selectors[s] + Cardinality(Selecting(s, on))],
             redactions |-> [p \in Redactions |->
                 entry.redactions[p] + Cardinality(Redacting(p, on))]]]

\* A count that reaches zero is deleted, and stays so.
Less(n, m) == IF n > m THEN n - m ELSE 0

\* Mutant: a set of references instead of a count.
DropRefsAll(r, ts, refs) ==
    [key \in TargetKeys |->
        LET entry == refs[key]
            on == On(key, ts)
            left == [rules |-> [entry.rules EXCEPT ![r] = Less(@, Cardinality(on))],
                     selectors |-> [s \in Selectors |->
                         IF \E t \in on : t.selector = s THEN 0 ELSE entry.selectors[s]],
                     redactions |-> [p \in Redactions |->
                         IF \E t \in on : t.redaction = p THEN 0 ELSE entry.redactions[p]]]
        IN  IF Counted(left.rules) = {} THEN NoEntry ELSE left]

\* dropRefLocked for every target of ts; the entry goes when its last rule does,
\* which it does for good: no reference is added between two drops.
DropRefs(r, ts, refs) ==
    [key \in TargetKeys |->
        LET entry == refs[key]
            on == On(key, ts)
            left == [rules |-> [entry.rules EXCEPT ![r] = Less(@, Cardinality(on))],
                     selectors |-> [s \in Selectors |->
                         Less(entry.selectors[s], Cardinality(Selecting(s, on)))],
                     redactions |-> [p \in Redactions |->
                         Less(entry.redactions[p], Cardinality(Redacting(p, on)))]]
        IN  IF Counted(left.rules) = {} THEN NoEntry ELSE left]

Edit == edits < MaxEdits /\ edits' = edits + 1

\* A rule whose selectors do not parse changes nothing and is not an action.
Upsert(r, desired) ==
    /\ Edit
    /\ rules' = [rules EXCEPT ![r] = desired]
    /\ IF desired = rules[r]
       THEN UNCHANGED <<targets, notified>>
       ELSE /\ targets' = DropRefs(r, rules[r] \ desired, AddRefs(r, desired \ rules[r], targets))
            /\ notified' = TRUE
    /\ UNCHANGED loopVars

\* Removing an unknown rule does nothing.
Remove(r) ==
    /\ Edit
    /\ rules[r] # {}
    /\ rules' = [rules EXCEPT ![r] = {}]
    /\ targets' = DropRefs(r, rules[r], targets)
    /\ notified' = TRUE
    /\ UNCHANGED loopVars

-----------------------------------------------------------------------------
TakeWakeUp ==
    /\ loop = "waiting"
    /\ notified
    /\ notified' = FALSE
    /\ loop' = "debouncing"
    /\ UNCHANGED <<rules, targets, held, installed, edits>>

\* The safety tick.
Tick ==
    /\ loop = "waiting"
    /\ loop' = "diffing"
    /\ UNCHANGED <<rules, targets, notified, held, installed, edits>>

DebounceSwallows ==
    /\ loop = "debouncing"
    /\ notified
    /\ notified' = FALSE
    /\ UNCHANGED <<rules, targets, loopVars, edits>>

DebounceEnds ==
    /\ loop = "debouncing"
    /\ loop' = "diffing"
    /\ UNCHANGED <<rules, targets, notified, held, installed, edits>>

TakeSnapshot ==
    /\ loop = "diffing"
    /\ held' = Snapshot
    /\ loop' = "installing"
    /\ UNCHANGED <<rules, targets, notified, installed, edits>>

\* Mutant: what arrived during the pass is taken to be covered by it.
InstallAndDrain ==
    /\ loop = "installing"
    /\ installed' = held
    /\ loop' = "waiting"
    /\ notified' = FALSE
    /\ UNCHANGED <<rules, targets, held, edits>>

Install ==
    /\ loop = "installing"
    /\ installed' = held
    /\ loop' = "waiting"
    /\ UNCHANGED <<rules, targets, notified, held, edits>>

Loop == TakeWakeUp \/ DebounceSwallows \/ DebounceEnds \/ TakeSnapshot \/ Install

Next ==
    \/ \E r \in Rules : Remove(r) \/ \E desired \in SUBSET WatchTarget : Upsert(r, desired)
    \/ Loop
    \/ Tick

Spec == Init /\ [][Next]_vars

(***************************************************************************)
(* The loop's goroutine keeps running, and the debounce window is fixed,   *)
(* so it ends however many wake-ups arrive in it.  Nothing is assumed of   *)
(* the tick: the wake-ups alone must suffice.                              *)
(***************************************************************************)
Fairness ==
    /\ WF_vars(TakeWakeUp) /\ WF_vars(DebounceEnds)
    /\ WF_vars(TakeSnapshot) /\ WF_vars(Install)

FairSpec == Spec /\ Fairness

-----------------------------------------------------------------------------
\* Who asks for a key, and with which target.
Wants(rs, key) == {c \in Rules \X WatchTarget : c[2] \in rs[c[1]] /\ c[2].key = key}

Wanting(key) == Wants(rules, key)

\* The merged view says exactly what the rules ask for, after any sequence of
\* overlapping Upserts and Removes: a key's rules, selectors and redactions are
\* those of the targets its rules still hold (addRefLocked, dropRefLocked).
MergedExactly ==
    \A key \in TargetKeys :
        Snapshot[key] = [rules |-> {c[1] : c \in Wanting(key)},
                         selectors |-> {c[2].selector : c \in Wanting(key)},
                         redactions |-> {c[2].redaction : c \in Wanting(key)} \ {NoRedaction}]

\* Every count is the number of targets behind it.
CountsFit(rs, refs) ==
    \A key \in TargetKeys :
        /\ \A r \in Rules :
              refs[key].rules[r] = Cardinality({c \in Wants(rs, key) : c[1] = r})
        /\ \A s \in Selectors :
              refs[key].selectors[s] = Cardinality({c \in Wants(rs, key) : c[2].selector = s})
        /\ \A p \in Redactions :
              refs[key].redactions[p] = Cardinality({c \in Wants(rs, key) : c[2].redaction = p})

\* The invariant of the reference counts.
RegistryInv == TypeOK /\ CountsFit(rules, targets)

\* No wake-up is lost: a change the installed state does not reflect is announced
\* on the channel, or a pass that will see it is under way (notifyLocked drops a
\* wake-up when one is pending; debounce swallows them).
NoLostWakeUp ==
    /\ loop = "waiting" /\ installed # Snapshot => notified
    /\ loop = "installing" /\ held # Snapshot => notified

\* Once the rules settle, what they ask for is installed, without the tick.
Converges == <>[](installed = Snapshot)
=============================================================================
