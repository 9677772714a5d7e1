----------------------------- MODULE MCTauSweep -----------------------------
(* Two drivers asked for one run, and two side by side. *)
EXTENDS TauSweep

SameRun == [d \in {"d1", "d2"} |-> <<2>>]
TwoRuns == [d \in {"d1", "d2"} |-> IF d = "d1" THEN <<1, 2>> ELSE <<2>>]
SideBySide == [d \in {"d1", "d2"} |-> IF d = "d1" THEN <<1>> ELSE <<10>>]
=============================================================================
