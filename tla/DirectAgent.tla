---------------------------- MODULE DirectAgent ----------------------------
(***************************************************************************)
(* What a tau2 agent promises the benchmark: it acts on the environment's  *)
(* one database, in turns.  Every call of a turn takes effect once, in the *)
(* order it was made, on what the customer left; a turn that fails leaves  *)
(* the database as the turn found it.                                      *)
(***************************************************************************)
CONSTANTS
  Calls,   \* tool calls
  Dbs,     \* states of the database
  Apply    \* Apply[c][d]: the state after call c on d; a refused call leaves d

VARIABLES
  db,      \* the database
  phase,   \* "customer", "agent" or "failed": whose turn it is
  before   \* the database as the turn under way found it

vars == <<db, phase, before>>

Init == db \in Dbs /\ phase = "customer" /\ before = db

\* The task's initial state, and what the user side writes.
CustomerWrites(d) ==
  /\ phase = "customer"
  /\ db' = d
  /\ UNCHANGED <<phase, before>>

BeginTurn ==
  /\ phase = "customer"
  /\ phase' = "agent"
  /\ before' = db
  /\ UNCHANGED db

Call(c) ==
  /\ phase = "agent"
  /\ db' = Apply[c][db]
  /\ UNCHANGED <<phase, before>>

Answer ==
  /\ phase = "agent"
  /\ phase' = "customer"
  /\ UNCHANGED <<db, before>>

Fail ==
  /\ phase = "agent"
  /\ phase' = "failed"
  /\ db' = before
  /\ UNCHANGED before

Next ==
  \/ \E d \in Dbs : CustomerWrites(d)
  \/ \E c \in Calls : Call(c)
  \/ BeginTurn \/ Answer \/ Fail

Spec == Init /\ [][Next]_vars
=============================================================================
