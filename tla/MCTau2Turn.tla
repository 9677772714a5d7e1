----------------------------- MODULE MCTau2Turn -----------------------------
(* A database of four states; one call adds, one doubles, one is refused at the
   top, so their order and number show in the state. *)
EXTENDS Tau2Turn

MCDbs == 0..3
MCCalls == {"add", "double", "reset"}
MCApply == [c \in MCCalls |-> [d \in MCDbs |->
  CASE c = "add" -> IF d = 3 THEN d ELSE d + 1
    [] c = "double" -> (2 * d) % 4
    [] c = "reset" -> 0]]
=============================================================================
