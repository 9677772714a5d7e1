------------------------------ MODULE ArmChunks ------------------------------
(***************************************************************************)
(* Copies of an arm's driver script (bench/scripts/drivers/x3_arm.sh,      *)
(* x5_arm.sh) that share its chunks of cases.  A copy claims a chunk by    *)
(* making its lock directory, runs the pool driver on it up to three times *)
(* and removes the directory; what another has claimed it passes.  Copies  *)
(* are killed, which leaves the directory and the pool driver behind; the  *)
(* lock directories are then cleared by hand.                              *)
(*                                                                         *)
(* The pool driver is here what StudyPromise says of it, over the one case *)
(* that stands for a chunk; it exits with an error when it is killed, runs *)
(* out of CPU time (ulimit -t) or gives up on the endpoint, and without    *)
(* one though it abandoned runs.                                           *)
(***************************************************************************)
EXTENDS Naturals, FiniteSets

CONSTANTS
  Copies,       \* copies started
  First,        \* First[c]: [first-chunk]
  Chunks,       \* how many chunks the cases make
  Attempts,     \* for attempt in 1 2 3
  Repeats,      \* --repeats
  Watched,      \* the chunk whose study is told of: any of them
  CarefulClear, \* whether locks are cleared only once nothing of the arm runs
  MaxKills,     \* bound: copies killed
  MaxClears     \* bound: clearings

ASSUME ArmAssumption ==
  /\ Chunks \in Nat \ {0} /\ \A c \in Copies : First[c] \in Nat
  /\ Attempts \in Nat \ {0} /\ Repeats \in Nat
  /\ Watched \in 0..(Chunks - 1)
  /\ CarefulClear \in BOOLEAN /\ MaxKills \in Nat /\ MaxClears \in Nat

Indexes == 0..(Chunks - 1)

VARIABLES
  at,       \* at[c]: not started, at a chunk, holding it, over, killed
  step,     \* step[c]: chunks gone through
  attempt,  \* attempt[c]: at the chunk it holds
  pool,     \* pool[c]: its pool driver: on, the pass, what the pass owes
  lock,     \* the lock directories there are
  stored,   \* stored[k]: runs of chunk k on disk
  kills, clears,
  settled   \* history: chunks driven to an exit of 0, or through every attempt

copy == <<at, step, attempt>>
bounds == <<kills, clears>>
vars == <<copy, pool, lock, stored, bounds, settled>>

Off == [on |-> FALSE, level |-> 0, owed |-> FALSE]
Fresh == [on |-> TRUE, level |-> 0, owed |-> FALSE]

Init ==
  /\ at = [c \in Copies |-> "new"]
  /\ step = [c \in Copies |-> 0] /\ attempt = [c \in Copies |-> 0]
  /\ pool = [c \in Copies |-> Off]
  /\ lock = {} /\ stored = [k \in Indexes |-> 0]
  /\ kills = 0 /\ clears = 0 /\ settled = {}

Index(c) == (First[c] + step[c]) % Chunks

Goes(c, where) == at' = [at EXCEPT ![c] = where]
Begins(c) == pool' = [pool EXCEPT ![c] = Fresh]

---------------------------------------------------------------------------
(* The script *)

Start(c) ==
  /\ at[c] = "new"
  /\ Goes(c, "chunk")
  /\ UNCHANGED <<step, attempt, pool, lock, stored, bounds, settled>>

\* Mutant of Free: the directory is made, or was there.
MadeOrThere(c) == TRUE

\* mkdir succeeds.
Free(c) == Index(c) \notin lock

Claim(c) ==
  /\ at[c] = "chunk" /\ step[c] < Chunks /\ Free(c)
  /\ lock' = lock \cup {Index(c)}
  /\ attempt' = [attempt EXCEPT ![c] = 1]
  /\ Begins(c) /\ Goes(c, "holding")
  /\ UNCHANGED <<step, stored, bounds, settled>>

\* Mutant of Passes: a copy waits for a chunk another holds.
Waits(c) == FALSE

\* mkdir fails: continue.
Passes(c) == Index(c) \in lock

Pass(c) ==
  /\ at[c] = "chunk" /\ step[c] < Chunks /\ Passes(c)
  /\ step' = [step EXCEPT ![c] = @ + 1]
  /\ UNCHANGED <<at, attempt, pool, lock, stored, bounds, settled>>

TriesAgain(c) == attempt[c] < Attempts

\* It goes on to the next chunk, and the directory is removed.
LeavesChunk(c) ==
  /\ lock' = lock \ {Index(c)}
  /\ step' = [step EXCEPT ![c] = @ + 1]
  /\ attempt' = [attempt EXCEPT ![c] = 0]
  /\ Goes(c, "chunk")

Over(c) ==
  /\ at[c] = "chunk" /\ step[c] = Chunks
  /\ Goes(c, "over")
  /\ UNCHANGED <<step, attempt, pool, lock, stored, bounds, settled>>

---------------------------------------------------------------------------
(* The pool driver, as StudyPromise has it *)

BeginPass(c) ==
  /\ pool[c].on /\ ~pool[c].owed /\ pool[c].level < Repeats
  /\ pool' = [pool EXCEPT ![c] = [on |-> TRUE, level |-> @.level + 1,
                                       owed |-> stored[Index(c)] < @.level + 1]]
  /\ UNCHANGED <<copy, lock, stored, bounds, settled>>

Store(c) ==
  /\ pool[c].on /\ pool[c].owed
  /\ stored' = [stored EXCEPT ![Index(c)] = @ + 1]
  /\ pool' = [pool EXCEPT ![c].owed = FALSE]
  /\ UNCHANGED <<copy, lock, bounds, settled>>

Abandon(c) ==
  /\ pool[c].on /\ pool[c].owed
  /\ pool' = [pool EXCEPT ![c].owed = FALSE]
  /\ UNCHANGED <<copy, lock, stored, bounds, settled>>

\* It ends; a copy that is there to see it breaks out of its attempts.
Exits(c) ==
  /\ pool[c].on /\ ~pool[c].owed /\ pool[c].level = Repeats
  /\ pool' = [pool EXCEPT ![c] = Off]
  /\ settled' = settled \cup {Index(c)}
  /\ IF at[c] = "holding" THEN LeavesChunk(c) ELSE UNCHANGED <<copy, lock>>
  /\ UNCHANGED <<stored, bounds>>

Fails(c) ==
  /\ pool[c].on
  /\ IF at[c] # "holding"
     THEN pool' = [pool EXCEPT ![c] = Off] /\ UNCHANGED <<copy, lock, settled>>
     ELSE IF TriesAgain(c)
     THEN Begins(c) /\ attempt' = [attempt EXCEPT ![c] = @ + 1] /\ UNCHANGED <<at, step, lock, settled>>
     ELSE /\ pool' = [pool EXCEPT ![c] = Off] /\ LeavesChunk(c)
          /\ settled' = IF attempt[c] >= Attempts THEN settled \cup {Index(c)} ELSE settled
  /\ UNCHANGED <<stored, bounds>>

---------------------------------------------------------------------------
\* The copy is killed; the pool driver it runs goes on.
Kill(c) ==
  /\ at[c] \in {"chunk", "holding"} /\ kills < MaxKills
  /\ kills' = kills + 1
  /\ Goes(c, "killed")
  /\ UNCHANGED <<step, attempt, pool, lock, stored, clears, settled>>

Quiet == \A c \in Copies : ~pool[c].on /\ at[c] # "holding"

\* "Clear logs/locks/<experiment>/ after a killed copy."
Clear ==
  /\ \E c \in Copies : at[c] = "killed"
  /\ CarefulClear => Quiet
  /\ clears < MaxClears
  /\ clears' = clears + 1
  /\ lock' = {}
  /\ UNCHANGED <<copy, pool, stored, kills, settled>>

Script(c) == Claim(c) \/ Pass(c) \/ Over(c)
Pool(c) == BeginPass(c) \/ Store(c) \/ Abandon(c) \/ Exits(c) \/ Fails(c)

Next ==
  \/ \E c \in Copies : Start(c) \/ Script(c) \/ Pool(c) \/ Kill(c)
  \/ Clear

Spec == Init /\ [][Next]_vars

\* A copy that was started goes on, and so does a pool driver (ulimit -t ends it at last).
FairSpec == Spec /\ \A c \in Copies : WF_vars(Script(c)) /\ WF_vars(Pool(c))

---------------------------------------------------------------------------
\* The state is well formed: three attempts at most, at a chunk of the arm.
TypeOK ==
  /\ at \in [Copies -> {"new", "chunk", "holding", "over", "killed"}]
  /\ step \in [Copies -> 0..Chunks] /\ attempt \in [Copies -> 0..Attempts]
  /\ pool \in [Copies -> [on: BOOLEAN, level: 0..Repeats, owed: BOOLEAN]]
  /\ lock \subseteq Indexes /\ stored \in [Indexes -> Nat] /\ settled \subseteq Indexes

\* A chunk ends with the runs asked for, however many copies go through it and however
\* often it is repeated (the claim, and the resume rule of the pool driver).
NeverPastRepeats == \A k \in Indexes : stored[k] <= Repeats

Ended == \A c \in Copies : at[c] \in {"new", "over", "killed"}

\* Copies that were started end, though a killed one's directory is never removed; and
\* unless one was killed, each chunk was then driven to its end or tried three times:
\* what one copy passed, the copy that held it saw to.
EveryChunkSettled ==
  (\E c \in Copies : at[c] = "chunk") ~> (Ended /\ (kills = 0 => settled = Indexes))

\* Whoever drives chunk k: all of them together are one driver of it, started again.
Driving(k) == {c \in Copies : pool[c].on /\ Index(c) = k}
LevelOf(k) == IF Driving(k) = {} THEN 0 ELSE pool[CHOOSE c \in Driving(k) : TRUE].level
OwedOf(k) == IF \E c \in Driving(k) : pool[c].owed THEN {k} ELSE {}

Study == INSTANCE StudyPromise WITH
  Cases <- {Watched}, MaxStored <- 0,
  stored <- [k \in {Watched} |-> stored[k]], level <- LevelOf(Watched), owed <- OwedOf(Watched)

\* The copies that go through a chunk, killed and started again, keep the promise of
\* one pool driver (run_channel) for it.
ChunkAsPromised == Study!Spec
=============================================================================
