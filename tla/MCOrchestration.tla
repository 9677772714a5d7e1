--------------------------- MODULE MCOrchestration ---------------------------
(* A chain for TLC: a producer, a reviser and a consumer. *)
EXTENDS Orchestration
=============================================================================
