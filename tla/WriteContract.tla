---------------------------- MODULE WriteContract ----------------------------
(***************************************************************************)
(* What a sink promises of the jobs handed to it (internal/sink/sink.go,   *)
(* Job and Writer): a job is accepted or refused; the commit callback of   *)
(* an accepted job fires once; it reports success only of a row that is    *)
(* durable.  A row may be durable although its callback reports a failure: *)
(* row insertion is at least once.                                         *)
(***************************************************************************)
CONSTANTS Jobs

VARIABLES
    fate,     \* "new", "refused", "accepted", "ok", "failed"
    durable   \* the jobs whose row the backend holds

vars == <<fate, durable>>

Init ==
    /\ fate = [j \in Jobs |-> "new"]
    /\ durable = {}

Answer(j, answer) ==
    /\ fate[j] = "new"
    /\ fate' = [fate EXCEPT ![j] = answer]
    /\ UNCHANGED durable

\* Rows of accepted jobs reach the backend, in any grouping.
Land(rows) ==
    /\ \A j \in rows : fate[j] = "accepted"
    /\ durable' = durable \cup rows
    /\ UNCHANGED fate

\* The callback of one job; its own row may land in the same step.
Settle(j, outcome) ==
    /\ fate[j] = "accepted"
    /\ fate' = [fate EXCEPT ![j] = outcome]
    /\ durable' \in {durable, durable \cup {j}}
    /\ outcome = "ok" => j \in durable'

Next ==
    \/ \E j \in Jobs : \E answer \in {"accepted", "refused"} : Answer(j, answer)
    \/ \E rows \in SUBSET Jobs : Land(rows)
    \/ \E j \in Jobs : \E outcome \in {"ok", "failed"} : Settle(j, outcome)

Spec == Init /\ [][Next]_vars

\* Every accepted job is settled.
AcceptedIsSettled == \A j \in Jobs : fate[j] = "accepted" ~> fate[j] \in {"ok", "failed"}
=============================================================================
