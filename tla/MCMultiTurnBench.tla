-------------------------- MODULE MCMultiTurnBench --------------------------
(* Two tasks; an invocation asks for both of them, or for the first. *)
EXTENDS MultiTurnBench

MCTasks == {"t1", "t2"}
MCLimits == {{"t1"}, {"t1", "t2"}}
=============================================================================
