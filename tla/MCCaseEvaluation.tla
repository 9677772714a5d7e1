--------------------------- MODULE MCCaseEvaluation ---------------------------
(* A case for TLC: a conversation of two turns that share an output, and one of one. *)
EXTENDS CaseEvaluation

MCConversations == <<<<{"a", "b"}, {"b", "c"}>>, <<{"a", "b", "c"}>>>>
=============================================================================
