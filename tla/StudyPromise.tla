---------------------------- MODULE StudyPromise ----------------------------
(***************************************************************************)
(* What the pipeline driver promises about a study, with no pool, queue or *)
(* retry in sight (run_channel in bench/scripts/run_pipeline.py): a pass   *)
(* owes one run to each case short of the pass's count; it ends when every *)
(* owed run is stored or given up on; nothing else is ever stored.         *)
(***************************************************************************)
EXTENDS Naturals

CONSTANTS
  Cases,      \* the cases of the study
  Repeats,    \* the stored runs each should end with
  MaxStored   \* bound: most runs of a case stored beforehand

VARIABLES
  stored,   \* stored[c]: runs of c on disk
  level,    \* the passes begun by this invocation
  owed      \* the cases this pass still owes a run

promised == <<stored, level, owed>>

Init ==
  /\ stored \in [Cases -> 0..MaxStored]
  /\ level = 0
  /\ owed = {}

NextPass ==
  /\ owed = {}
  /\ level < Repeats
  /\ level' = level + 1
  /\ owed' = {c \in Cases : stored[c] < level + 1}
  /\ UNCHANGED stored

StoreRun(c) ==
  /\ c \in owed
  /\ stored' = [stored EXCEPT ![c] = @ + 1]
  /\ owed' = owed \ {c}
  /\ UNCHANGED level

GiveUpOn(c) ==
  /\ c \in owed
  /\ owed' = owed \ {c}
  /\ UNCHANGED <<stored, level>>

\* The invocation is over, whatever it still owed; the next starts from nothing.
Over ==
  /\ level' = 0
  /\ owed' = {}
  /\ UNCHANGED stored

Next ==
  \/ NextPass
  \/ \E c \in Cases : StoreRun(c) \/ GiveUpOn(c)
  \/ Over

Spec == Init /\ [][Next]_promised
=============================================================================
