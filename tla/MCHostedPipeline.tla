--------------------------- MODULE MCHostedPipeline ---------------------------
(* The hosted study for TLC: the main study's three agents, a retriever, a     *)
(* narrower and an analyst.  The narrower cannot sort a table without its key. *)
EXTENDS HostedPipeline

\* "retyped" is the half with its codes read as numbers.
Tables == {"whole", "half", "retyped", "empty", "unkeyed"}

\* The smaller half of an empty table is empty.
Narrowed == [t \in Tables |->
  CASE t = "unkeyed" -> Undefined [] t = "whole" -> "half" [] OTHER -> "empty"]

\* The analyst's answers are written with the same words: "whole" is the right one.
\* A question that compares a code with its text goes wrong on the retyped half.
Answered == [t \in Tables |->
  CASE t = "unkeyed" -> Undefined [] t = "half" -> "whole" [] OTHER -> "empty"]

Rules == (2 :> Narrowed) @@ (3 :> Answered)
Reference == <<"whole", "half", "whole">>

\* The check of a table takes the retyped half for the half; that of the answers is exact.
Accepting == [n \in 1..3 |-> [t \in Tables |->
  IF n < 3 /\ t = "half" THEN {"half", "retyped"} ELSE {t}]]

=============================================================================
