---------------------------- MODULE MCArmChunks ----------------------------
(* Three copies that begin at different chunks. *)
EXTENDS ArmChunks

Begin == [c \in {"a", "b", "c"} |-> IF c = "b" THEN 1 ELSE 0]
=============================================================================
