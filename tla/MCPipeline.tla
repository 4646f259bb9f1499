----------------------------- MODULE MCPipeline -----------------------------
(* Pipeline on small instances, with an ordinary object and an Event. *)
EXTENDS Pipeline, TLC

CONSTANTS k1, e1
=============================================================================
