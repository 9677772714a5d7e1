----------------------------- MODULE MCCasePool -----------------------------
(* Instances of CasePool for TLC. *)
EXTENDS CasePool

MCThreeCases == <<"a", "b", "c">>
=============================================================================
