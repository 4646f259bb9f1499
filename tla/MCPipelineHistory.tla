------------------------- MODULE MCPipelineHistory -------------------------
(* PipelineHistory on a small instance, with an ordinary object and an Event. *)
EXTENDS PipelineHistory, TLC

CONSTANTS k1, e1

\* Bound: changes in a history that has been disturbed.
MaxDisturbedChanges == 2

Used(k) == live[k] # NoObject \/ Present(cache[k]) \/ RowsOf(k) # {} \/ work[k].pc # "idle"

\* Process, the cache and the workqueue treat keys apart: one of them is used at a
\* time.
OneKeyUsed ==
    /\ \A k, x \in Keys : Used(k) /\ Used(x) => k = x
    /\ Undisturbed \/ changes <= MaxDisturbedChanges
=============================================================================
