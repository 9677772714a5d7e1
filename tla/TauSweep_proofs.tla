--------------------------- MODULE TauSweep_proofs ---------------------------
(***************************************************************************)
(* For any number of drivers, runs and tasks, however they are killed: a   *)
(* run has one driver, who holds its lock, a run.py by the descriptor it   *)
(* inherited.  And where no run's number begins another's: a file has one  *)
(* writer; what the runs came to is kept; and with nothing killed no task  *)
(* is run again.                                                           *)
(*                                                                         *)
(* The last three go by what is on disk, run by run: which file of a run   *)
(* is the latest, and which has the rewards of the others.                 *)
(***************************************************************************)
EXTENDS TauSweep, FiniteSetTheorems, SequenceTheorems, WellFoundedInduction, TLAPS

\* What starts from a driver.
Of(d) == {Bash(d), Child(d)}

Places == {"lock", "look", "sweeping", "count", "resuming", "patched", "merging",
           "merged", "last", "exit", "gone"}

\* As much of the state's type as the lock depends on.
DriverType ==
  /\ at \in [Drivers -> Places]
  /\ nth \in [Drivers -> Nat] /\ \A d \in Drivers : nth[d] \in 1..Len(Plan[d])
  /\ DOMAIN child = Drivers /\ \A d \in Drivers : "on" \in DOMAIN child[d]
  /\ DOMAIN lock = Runs

\* A driver holds the lock of its run from when it has it until it ends, and its run.py
\* as long as that goes on; it starts one only where it then waits for it.
HoldersHold ==
  \A d \in Drivers :
    /\ at[d] \notin {"lock", "gone"} => Bash(d) \in lock[RunOf(d)]
    /\ child[d].on => Child(d) \in lock[RunOf(d)] /\ at[d] \in {"sweeping", "resuming", "gone"}

\* What holds a lock is of one driver.
OneHolder ==
  \A r \in Runs : \A d, e \in Drivers :
    Of(d) \cap lock[r] # {} /\ Of(e) \cap lock[r] # {} => d = e

LockInv == DriverType /\ HoldersHold /\ OneHolder

---------------------------------------------------------------------------
\* A driver's run is one of the plan.
LEMMA RunOfIsRun ==
  ASSUME SweepAssumption, DriverType, NEW d \in Drivers
  PROVE  RunOf(d) \in Runs
<1>1. nth[d] \in DOMAIN Plan[d]
  BY DEF SweepAssumption, DriverType
<1> QED BY <1>1 DEF RunOf, Runs, ToSet

\* Of two drivers nothing is the same process.
LEMMA Processes ==
  \A d, e \in Drivers : /\ Bash(d) # Child(e)
                        /\ Bash(d) = Bash(e) => d = e
                        /\ Child(d) = Child(e) => d = e
  BY DEF Bash, Child

LEMMA InitLock == ASSUME SweepAssumption, Init PROVE LockInv
<1>1. DriverType
  BY DEF SweepAssumption, Init, DriverType, Places, Idle
<1>2. HoldersHold /\ OneHolder
  BY DEF Init, HoldersHold, OneHolder, Idle
<1> QED BY <1>1, <1>2 DEF LockInv

\* A driver that holds its run goes from place to place, with no run.py of its own going on.
LEMMA Moves ==
  ASSUME LockInv, NEW d \in Drivers, NEW p \in Places \ {"lock", "gone"},
         at[d] \notin {"lock", "gone"}, ~child[d].on,
         Goes(d, p), UNCHANGED <<nth, child, lock>>
  PROVE  LockInv'
<1>1. DriverType'
  BY DEF LockInv, DriverType, Goes, Places
<1>2. HoldersHold'
  <2> SUFFICES ASSUME NEW e \in Drivers
               PROVE  /\ at'[e] \notin {"lock", "gone"} => Bash(e) \in lock[RunOf(e)]
                      /\ child[e].on => Child(e) \in lock[RunOf(e)] /\ at'[e] \in {"sweeping", "resuming", "gone"}
    BY DEF HoldersHold, RunOf, Bash, Child
  <2>1. at' = [at EXCEPT ![d] = p] /\ DOMAIN at = Drivers
    BY DEF Goes, LockInv, DriverType
  <2>2. CASE e = d
    BY <2>1, <2>2 DEF LockInv, HoldersHold
  <2>3. CASE e # d
    BY <2>1, <2>3 DEF LockInv, HoldersHold
  <2> QED BY <2>2, <2>3
<1>3. OneHolder'
  BY DEF LockInv, OneHolder
<1> QED BY <1>1, <1>2, <1>3 DEF LockInv

\* It starts run.py, which holds the lock with it.
LEMMA Launches ==
  ASSUME SweepAssumption, LockInv, NEW d \in Drivers, NEW p \in {"sweeping", "resuming"}, NEW todo,
         at[d] \notin {"lock", "gone"}, Goes(d, p), Launch(d, todo), UNCHANGED nth
  PROVE  LockInv'
<1> DEFINE r == RunOf(d)
<1>1. /\ at' = [at EXCEPT ![d] = p] /\ DOMAIN at = Drivers /\ nth' = nth
      /\ child' = [child EXCEPT ![d] = [on |-> TRUE, file |-> 0, todo |-> todo]] /\ DOMAIN child = Drivers
      /\ lock' = [lock EXCEPT ![r] = lock[r] \cup {Child(d)}] /\ DOMAIN lock = Runs /\ r \in Runs
  BY RunOfIsRun DEF Goes, Launch, Inherited, LockInv, DriverType
<1>2. DriverType'
  BY <1>1 DEF LockInv, DriverType, Places
<1>3. HoldersHold'
  <2> SUFFICES ASSUME NEW e \in Drivers
               PROVE  /\ at'[e] \notin {"lock", "gone"} => Bash(e) \in lock'[RunOf(e)]
                      /\ child'[e].on => Child(e) \in lock'[RunOf(e)] /\ at'[e] \in {"sweeping", "resuming", "gone"}
    BY <1>1 DEF HoldersHold, RunOf, Bash, Child
  <2>1. RunOf(e) \in Runs
    BY RunOfIsRun DEF LockInv
  <2>2. CASE e = d
    BY <1>1, <2>2 DEF LockInv, HoldersHold
  <2>3. CASE e # d
    <3>1. lock[RunOf(e)] \subseteq lock'[RunOf(e)] /\ at'[e] = at[e] /\ child'[e] = child[e]
      BY <1>1, <2>1, <2>3
    <3> QED BY <3>1 DEF LockInv, HoldersHold
  <2> QED BY <2>2, <2>3
<1>4. OneHolder'
  <2> SUFFICES ASSUME NEW q \in Runs, NEW e \in Drivers, NEW f \in Drivers,
                      Of(e) \cap lock'[q] # {}, Of(f) \cap lock'[q] # {}
               PROVE  e = f
    BY DEF OneHolder, Of, Bash, Child
  <2>1. Bash(d) \in lock[r]
    BY DEF LockInv, HoldersHold
  <2>2. \A g \in Drivers : Of(g) \cap lock'[q] # {} => Of(g) \cap lock[q] # {}
    BY <1>1, <2>1, Processes DEF Of
  <2> QED BY <2>2 DEF LockInv, OneHolder
<1> QED BY <1>2, <1>3, <1>4 DEF LockInv

\* A lock of which something is let go stays with those it was with.
LEMMA LessHeld ==
  ASSUME OneHolder, \A r \in Runs : lock'[r] \subseteq lock[r]
  PROVE  OneHolder'
<1> SUFFICES ASSUME NEW q \in Runs, NEW e \in Drivers, NEW f \in Drivers,
                    Of(e) \cap lock'[q] # {}, Of(f) \cap lock'[q] # {}
             PROVE  e = f
  BY DEF OneHolder, Of, Bash, Child
<1> QED BY DEF OneHolder

\* It ends, or is killed: what it started holds on.
LEMMA Lets ==
  ASSUME SweepAssumption, LockInv, NEW d \in Drivers,
         Goes(d, "gone"), lock' = Released(d), UNCHANGED <<nth, child>>
  PROVE  LockInv'
<1> DEFINE r == RunOf(d)
<1>1. /\ at' = [at EXCEPT ![d] = "gone"] /\ DOMAIN at = Drivers /\ nth' = nth /\ child' = child
      /\ lock' = [lock EXCEPT ![r] = lock[r] \ {Bash(d)}] /\ DOMAIN lock = Runs /\ r \in Runs
  BY RunOfIsRun DEF Goes, Released, LockInv, DriverType
<1>2. DriverType'
  BY <1>1 DEF LockInv, DriverType, Places
<1>3. HoldersHold'
  <2> SUFFICES ASSUME NEW e \in Drivers
               PROVE  /\ at'[e] \notin {"lock", "gone"} => Bash(e) \in lock'[RunOf(e)]
                      /\ child[e].on => Child(e) \in lock'[RunOf(e)] /\ at'[e] \in {"sweeping", "resuming", "gone"}
    BY <1>1 DEF HoldersHold, RunOf, Bash, Child
  <2>1. RunOf(e) \in Runs
    BY RunOfIsRun DEF LockInv
  <2>2. CASE e = d
    BY <1>1, <2>2, Processes DEF LockInv, HoldersHold
  <2>3. CASE e # d
    <3>1. at'[e] = at[e]
      BY <1>1, <2>3
    <3>2. /\ Bash(e) \in lock[RunOf(e)] => Bash(e) \in lock'[RunOf(e)]
          /\ Child(e) \in lock[RunOf(e)] => Child(e) \in lock'[RunOf(e)]
      BY <1>1, <2>1, <2>3, Processes
    <3> QED BY <3>1, <3>2 DEF LockInv, HoldersHold
  <2> QED BY <2>2, <2>3
<1>4. OneHolder'
  BY <1>1, LessHeld DEF LockInv
<1> QED BY <1>2, <1>3, <1>4 DEF LockInv

\* It lets its run go for the next.
LEMMA Turns ==
  ASSUME SweepAssumption, LockInv, NEW d \in Drivers, at[d] = "last", nth[d] < Len(Plan[d]),
         Goes(d, "lock"), lock' = Released(d), nth' = [nth EXCEPT ![d] = nth[d] + 1], UNCHANGED child
  PROVE  LockInv'
<1> DEFINE r == RunOf(d)
<1>1. /\ at' = [at EXCEPT ![d] = "lock"] /\ DOMAIN at = Drivers /\ child' = child
      /\ nth' = [nth EXCEPT ![d] = nth[d] + 1] /\ DOMAIN nth = Drivers /\ nth[d] \in 1..Len(Plan[d])
      /\ lock' = [lock EXCEPT ![r] = lock[r] \ {Bash(d)}] /\ DOMAIN lock = Runs /\ r \in Runs
  BY RunOfIsRun DEF Goes, Released, LockInv, DriverType
<1>2. DriverType'
  BY <1>1 DEF LockInv, DriverType, Places, SweepAssumption
<1>3. HoldersHold'
  <2> SUFFICES ASSUME NEW e \in Drivers
               PROVE  /\ at'[e] \notin {"lock", "gone"} => Bash(e) \in lock'[RunOf(e)']
                      /\ child[e].on => Child(e) \in lock'[RunOf(e)'] /\ at'[e] \in {"sweeping", "resuming", "gone"}
    BY <1>1 DEF HoldersHold, RunOf, Bash, Child
  <2>1. RunOf(e) \in Runs
    BY RunOfIsRun DEF LockInv
  <2>2. CASE e = d
    BY <1>1, <2>2 DEF LockInv, HoldersHold
  <2>3. CASE e # d
    <3>1. at'[e] = at[e] /\ RunOf(e)' = RunOf(e)
      BY <1>1, <2>3 DEF RunOf
    <3>2. /\ Bash(e) \in lock[RunOf(e)] => Bash(e) \in lock'[RunOf(e)]
          /\ Child(e) \in lock[RunOf(e)] => Child(e) \in lock'[RunOf(e)]
      BY <1>1, <2>1, <2>3, Processes
    <3> QED BY <3>1, <3>2 DEF LockInv, HoldersHold
  <2> QED BY <2>2, <2>3
<1>4. OneHolder'
  BY <1>1, LessHeld DEF LockInv
<1> QED BY <1>2, <1>3, <1>4 DEF LockInv

\* A run.py ends, or is killed.
LEMMA RunGone ==
  ASSUME SweepAssumption, LockInv, NEW d \in Drivers, Gone(d), UNCHANGED <<at, nth>>
  PROVE  LockInv'
<1> DEFINE r == RunOf(d)
<1>1. /\ child' = [child EXCEPT ![d] = Idle] /\ DOMAIN child = Drivers /\ at' = at /\ nth' = nth
      /\ lock' = [lock EXCEPT ![r] = lock[r] \ {Child(d)}] /\ DOMAIN lock = Runs /\ r \in Runs
  BY RunOfIsRun DEF Gone, LockInv, DriverType
<1>2. DriverType'
  BY <1>1 DEF LockInv, DriverType, Places, Idle
<1>3. HoldersHold'
  <2> SUFFICES ASSUME NEW e \in Drivers
               PROVE  /\ at[e] \notin {"lock", "gone"} => Bash(e) \in lock'[RunOf(e)]
                      /\ child'[e].on => Child(e) \in lock'[RunOf(e)] /\ at[e] \in {"sweeping", "resuming", "gone"}
    BY <1>1 DEF HoldersHold, RunOf, Bash, Child
  <2>1. RunOf(e) \in Runs /\ (Bash(e) \in lock[RunOf(e)] => Bash(e) \in lock'[RunOf(e)])
    BY <1>1, RunOfIsRun, Processes DEF LockInv
  <2>2. CASE e = d
    BY <1>1, <2>1, <2>2 DEF LockInv, HoldersHold, Idle
  <2>3. CASE e # d
    <3>1. child'[e] = child[e] /\ (Child(e) \in lock[RunOf(e)] => Child(e) \in lock'[RunOf(e)])
      BY <1>1, <2>1, <2>3, Processes
    <3> QED BY <3>1, <2>1 DEF LockInv, HoldersHold
  <2> QED BY <2>2, <2>3
<1>4. OneHolder'
  BY <1>1, LessHeld DEF LockInv
<1> QED BY <1>2, <1>3, <1>4 DEF LockInv

\* A run.py goes on.
LEMMA RunGoesOn ==
  ASSUME LockInv, UNCHANGED <<at, nth, lock>>,
         DOMAIN child' = Drivers, \A d \in Drivers : "on" \in DOMAIN child'[d] /\ child'[d].on = child[d].on
  PROVE  LockInv'
<1>1. DriverType' /\ OneHolder'
  BY DEF LockInv, DriverType, OneHolder
<1>2. HoldersHold'
  BY DEF LockInv, HoldersHold, RunOf
<1> QED BY <1>1, <1>2 DEF LockInv

LEMMA HoldLock ==
  ASSUME SweepAssumption, LockInv, NEW d \in Drivers, Hold(d)
  PROVE  LockInv'
<1> DEFINE r == RunOf(d)
<1>1. /\ at' = [at EXCEPT ![d] = "look"] /\ DOMAIN at = Drivers /\ child' = child /\ nth' = nth
      /\ lock[r] = {} /\ lock' = [lock EXCEPT ![r] = {Bash(d)}] /\ DOMAIN lock = Runs /\ r \in Runs
  BY RunOfIsRun DEF Hold, Goes, LockInv, DriverType
<1>2. DriverType'
  BY <1>1 DEF LockInv, DriverType, Places
<1>3. HoldersHold'
  <2> SUFFICES ASSUME NEW e \in Drivers
               PROVE  /\ at'[e] \notin {"lock", "gone"} => Bash(e) \in lock'[RunOf(e)]
                      /\ child[e].on => Child(e) \in lock'[RunOf(e)] /\ at'[e] \in {"sweeping", "resuming", "gone"}
    BY <1>1 DEF HoldersHold, RunOf, Bash, Child
  <2>1. RunOf(e) \in Runs
    BY RunOfIsRun DEF LockInv
  <2>2. CASE e = d
    BY <1>1, <2>2 DEF LockInv, HoldersHold
  <2>3. CASE e # d
    <3>1. at'[e] = at[e] /\ lock[RunOf(e)] \subseteq lock'[RunOf(e)]
      BY <1>1, <2>1, <2>3
    <3> QED BY <3>1 DEF LockInv, HoldersHold
  <2> QED BY <2>2, <2>3
<1>4. OneHolder'
  <2> SUFFICES ASSUME NEW q \in Runs, NEW e \in Drivers, NEW f \in Drivers,
                      Of(e) \cap lock'[q] # {}, Of(f) \cap lock'[q] # {}
               PROVE  e = f
    BY DEF OneHolder, Of, Bash, Child
  <2>1. CASE q = r
    BY <1>1, <2>1, Processes DEF Of
  <2>2. CASE q # r
    BY <1>1, <2>2 DEF LockInv, OneHolder
  <2> QED BY <2>1, <2>2
<1> QED BY <1>2, <1>3, <1>4 DEF LockInv

LEMMA CrashLock == ASSUME LockInv, Crash PROVE LockInv'
<1>1. DriverType'
  BY DEF LockInv, DriverType, Crash, Places, Idle
<1>2. HoldersHold' /\ OneHolder'
  BY DEF Crash, HoldersHold, OneHolder, Idle
<1> QED BY <1>1, <1>2 DEF LockInv

\* With no run.py of its own going on, and the run held, where it does anything itself.
LEMMA Alone ==
  ASSUME LockInv, NEW d \in Drivers, at[d] \notin {"sweeping", "resuming", "gone"}
  PROVE  ~child[d].on
  BY DEF LockInv, HoldersHold

---------------------------------------------------------------------------
LEMMA DriveLock ==
  ASSUME SweepAssumption, LockInv, NEW d \in Drivers, Drive(d)
  PROVE  LockInv'
<1>1. CASE Hold(d)
  BY <1>1, HoldLock
<1>2. CASE Look(d)
  <2>1. at[d] \notin {"lock", "gone"} /\ ~child[d].on /\ nth' = nth
    BY <1>2, Alone DEF Look
  <2>2. CASE Found(d) = 0
    <3>1. Goes(d, "sweeping") /\ Launch(d, Tasks)
      BY <1>2, <2>2 DEF Look
    <3> QED BY <3>1, <2>1, Launches
  <2>3. CASE Found(d) # 0
    <3>1. Goes(d, "count") /\ UNCHANGED <<nth, child, lock>>
      BY <1>2, <2>3 DEF Look
    <3> QED BY <3>1, <2>1, Moves DEF Places
  <2> QED BY <2>2, <2>3
<1>3. CASE Swept(d) \/ Unreadable(d) \/ Resumed(d) \/ Merge(d) \/ MergeWrites(d) \/ Supersede(d)
  <2>1. at[d] \notin {"lock", "gone"} /\ UNCHANGED <<nth, child, lock>>
    BY <1>3 DEF Swept, Unreadable, Resumed, Merge, MergeWrites, Supersede
  <2>2. ~child[d].on
    BY <1>3, Alone DEF Swept, Unreadable, Resumed, Merge, MergeWrites, Supersede
  <2>3. \E p \in Places \ {"lock", "gone"} : Goes(d, p)
    BY <1>3 DEF Swept, Unreadable, Resumed, Merge, MergeWrites, Supersede, Places, Goes
  <2> QED BY <2>1, <2>2, <2>3, Moves
<1>4. CASE Count(d)
  <2>1. at[d] \notin {"lock", "gone"} /\ ~child[d].on /\ nth' = nth
    BY <1>4, Alone DEF Count
  <2>2. CASE Missing(sweep[d]) = {} \/ attempt[d] = MaxAttempts
    <3>1. Goes(d, "last") /\ UNCHANGED <<nth, child, lock>>
      BY <1>4, <2>2 DEF Count
    <3> QED BY <3>1, <2>1, Moves DEF Places
  <2>3. CASE ~(Missing(sweep[d]) = {} \/ attempt[d] = MaxAttempts)
    <3>1. Goes(d, "resuming") /\ Launch(d, Missing(sweep[d]))
      BY <1>4, <2>3 DEF Count
    <3> QED BY <3>1, <2>1, Launches
  <2> QED BY <2>2, <2>3
<1>5. CASE LastCount(d)
  <2>1. at[d] = "last" /\ UNCHANGED child /\ ~child[d].on
    BY <1>5, Alone DEF LastCount
  <2>2. CASE Goes(d, "exit") /\ UNCHANGED <<nth, lock>>
    BY <2>1, <2>2, Moves DEF Places
  <2>3. CASE nth[d] < Len(Plan[d]) /\ nth' = [nth EXCEPT ![d] = nth[d] + 1] /\ Goes(d, "lock") /\ lock' = Released(d)
    BY <2>1, <2>3, Turns
  <2> QED BY <1>5, <2>2, <2>3 DEF LastCount
<1>6. CASE Exit(d)
  BY <1>6, Lets DEF Exit
<1> QED BY <1>1, <1>2, <1>3, <1>4, <1>5, <1>6 DEF Drive

LEMMA StepLock == ASSUME SweepAssumption, LockInv, [Next]_vars PROVE LockInv'
<1>1. ASSUME NEW d \in Drivers, Drive(d) PROVE LockInv'
  BY <1>1, DriveLock
<1>2. ASSUME NEW d \in Drivers, KillDriver(d) PROVE LockInv'
  BY <1>2, Lets DEF KillDriver
<1>3. ASSUME NEW d \in Drivers, Ends(d) \/ KillRun(d) PROVE LockInv'
  BY <1>3, RunGone DEF Ends, KillRun, driver
<1>4. ASSUME NEW d \in Drivers, Opens(d) PROVE LockInv'
  <2>1. UNCHANGED <<at, nth, lock>> /\ child' = [child EXCEPT ![d].file = Len(file) + 1]
    BY <1>4 DEF Opens, driver
  <2>2. DOMAIN child' = Drivers /\ \A e \in Drivers : "on" \in DOMAIN child'[e] /\ child'[e].on = child[e].on
    BY <2>1 DEF LockInv, DriverType
  <2> QED BY <2>1, <2>2, RunGoesOn
<1>5. ASSUME NEW d \in Drivers, NEW t \in Tasks, NEW reward \in BOOLEAN, TaskEnds(d, t, reward) PROVE LockInv'
  <2>1. UNCHANGED <<at, nth, lock>> /\ child' = [child EXCEPT ![d].todo = @ \ {t}]
    BY <1>5 DEF TaskEnds, driver
  <2>2. DOMAIN child' = Drivers /\ \A e \in Drivers : "on" \in DOMAIN child'[e] /\ child'[e].on = child[e].on
    BY <2>1 DEF LockInv, DriverType
  <2> QED BY <2>1, <2>2, RunGoesOn
<1>6. CASE Crash
  BY <1>6, CrashLock
<1>7. CASE UNCHANGED vars
  BY <1>7, RunGoesOn DEF vars, driver, LockInv, DriverType
<1> QED BY <1>1, <1>2, <1>3, <1>4, <1>5, <1>6, <1>7 DEF Next

\* Whoever writes a run's files holds its lock.
LEMMA WritersHold ==
  ASSUME LockInv, NEW d \in Drivers, NEW r, Writes(d, r)
  PROVE  Of(d) \cap lock[r] # {}
  BY DEF LockInv, HoldersHold, Writes, Of

LEMMA OneDriverFollows == ASSUME SweepAssumption, LockInv PROVE OneDriver
<1> SUFFICES ASSUME NEW r \in Runs PROVE Cardinality({d \in Drivers : Writes(d, r)}) <= 1
  BY DEF OneDriver
<1> DEFINE W == {d \in Drivers : Writes(d, r)}
<1>1. \A d, e \in W : d = e
  BY WritersHold DEF LockInv, OneHolder
<1>2. Cardinality(W) <= 1
  <2> HIDE DEF W
  <2>1. CASE W = {}
    BY <2>1, FS_EmptySet
  <2>2. CASE W # {}
    <3>1. PICK d \in W : W = {d}
      BY <1>1, <2>2
    <3>2. Cardinality({d}) = 1
      BY FS_Singleton
    <3> QED BY <3>1, <3>2
  <2> QED BY <2>1, <2>2
<1> QED BY <1>2 DEF OneDriver

\* A run has one driver at work (hold_run, sweep.sh), whatever is killed and whatever its
\* number: the lock is held on by the descriptor a run.py inherits.
THEOREM RunsHaveOneDriver == Spec => []OneDriver
<1>1. SweepAssumption => (Init => LockInv)
  BY InitLock
<1>2. SweepAssumption => (LockInv /\ [Next]_vars => LockInv')
  BY StepLock
<1>3. SweepAssumption => (LockInv => OneDriver)
  BY OneDriverFollows
<1> QED BY <1>1, <1>2, <1>3, SweepAssumption, PTL DEF Spec

---------------------------------------------------------------------------
(* The last of some in a sequence of files *)

\* A set of places in a sequence has a last one.
LEMMA LastPlace ==
  ASSUME NEW n \in Nat, NEW I \in SUBSET (1..n), I # {}
  PROVE  Max(I) \in I /\ \A i \in I : Max(I) >= i
<1> DEFINE less == {p \in Nat \X Nat : p[1] < p[2]}
           T == {n - i : i \in I}
<1>1. IsWellFoundedOn(less, Nat)
  BY NatLessThanWellFounded DEF OpToRel
<1>2. T \subseteq Nat /\ T # {}
  <2>1. \A i \in I : i \in Int /\ i <= n
    OBVIOUS
  <2>2. \A i \in I : n - i \in Nat
    BY <2>1
  <2>3. PICK i \in I : TRUE
    OBVIOUS
  <2> QED BY <2>2, <2>3
<1>3. PICK x \in T : \A y \in T : ~(<<y, x>> \in less)
  <2> HIDE DEF less, T
  <2> QED BY <1>1, <1>2, WFMin
<1>4. PICK i \in I : x = n - i
  OBVIOUS
<1>5. ASSUME NEW j \in I PROVE i >= j
  <2>1. ~(<<n - j, x>> \in less)
    BY <1>3
  <2>2. ~(n - j < x)
    <3>1. n - j \in Nat /\ x \in Nat
      BY <1>2
    <3> QED BY <2>1, <3>1
  <2> QED BY <2>2, <1>4
<1> QED BY <1>5 DEF Max

LEMMA FirstPlace ==
  ASSUME NEW k \in Nat PROVE Min({k}) = k
  BY DEF Min

LEMMA Without ==
  ASSUME NEW S, NEW q \in Seq(S), IsInjective(q), NEW k \in 1..Len(q)
  PROVE  /\ RemoveFirst(q, q[k]) \in Seq(S)
         /\ Len(RemoveFirst(q, q[k])) = Len(q) - 1
         /\ \A i \in 1..(Len(q) - 1) : RemoveFirst(q, q[k])[i] = IF i < k THEN q[i] ELSE q[i + 1]
<1>1. {i \in 1..Len(q) : q[i] = q[k]} = {k}
  BY DEF IsInjective
<1>2. SelectInSeq(q, LAMBDA v : v = q[k]) = k
  BY <1>1, FirstPlace DEF SelectInSeq
<1>3. RemoveFirst(q, q[k]) = SubSeq(q, 1, k - 1) \o SubSeq(q, k + 1, Len(q))
  BY <1>2 DEF RemoveFirst, RemoveAt
<1>4. SubSeq(q, 1, k - 1) \in Seq(S) /\ SubSeq(q, k + 1, Len(q)) \in Seq(S)
  OBVIOUS
<1>5. Len(SubSeq(q, 1, k - 1)) = k - 1 /\ Len(SubSeq(q, k + 1, Len(q))) = Len(q) - k
  OBVIOUS
<1>6. /\ \A i \in 1..(k - 1) : SubSeq(q, 1, k - 1)[i] = q[i]
      /\ \A i \in 1..(Len(q) - k) : SubSeq(q, k + 1, Len(q))[i] = q[k + i]
  OBVIOUS
<1> DEFINE a == SubSeq(q, 1, k - 1)
           b == SubSeq(q, k + 1, Len(q))
<1> HIDE DEF a, b
<1>7. a \o b \in Seq(S) /\ Len(a \o b) = Len(q) - 1
  <2>1. a \in Seq(S) /\ b \in Seq(S) /\ Len(a) = k - 1 /\ Len(b) = Len(q) - k
    BY <1>4, <1>5 DEF a, b
  <2>2. a \o b \in Seq(S) /\ Len(a \o b) = Len(a) + Len(b)
    BY <2>1
  <2> QED BY <2>1, <2>2
<1>8. ASSUME NEW i \in 1..(Len(q) - 1) PROVE (a \o b)[i] = IF i < k THEN q[i] ELSE q[i + 1]
  <2>2. a \in Seq(S) /\ b \in Seq(S) /\ Len(a) = k - 1 /\ Len(b) = Len(q) - k
    BY <1>4, <1>5 DEF a, b
  <2>1. (a \o b)[i] = IF i <= Len(a) THEN a[i] ELSE b[i - Len(a)]
    BY <2>2
  <2>3. CASE i < k
    BY <2>1, <2>2, <2>3, <1>6 DEF a
  <2>4. CASE ~(i < k)
    <3>1. i - Len(a) \in 1..(Len(q) - k) /\ (a \o b)[i] = b[i - Len(a)]
      BY <2>1, <2>2, <2>4
    <3>2. b[i - Len(a)] = q[k + (i - Len(a))]
      BY <3>1, <1>6 DEF b
    <3> QED BY <3>1, <3>2, <2>2, <2>4
  <2> QED BY <2>3, <2>4
<1> QED BY <1>3, <1>7, <1>8 DEF a, b

\* The last element of q that is of M, 0 for none.
LastOf(q, M) == LET I == {i \in 1..Len(q) : q[i] \in M} IN IF I = {} THEN 0 ELSE q[Max(I)]

\* It is what no other of M comes after.
LEMMA LastOfIs ==
  ASSUME NEW q, NEW M, Len(q) \in Nat, NEW k \in 1..Len(q), q[k] \in M,
         \A i \in 1..Len(q) : q[i] \in M => i <= k
  PROVE  LastOf(q, M) = q[k]
<1> DEFINE I == {i \in 1..Len(q) : q[i] \in M}
<1>1. k \in I
  OBVIOUS
<1>2. Max(I) \in I /\ Max(I) >= k
  BY <1>1, LastPlace
<1>3. Max(I) = k
  BY <1>2
<1> QED BY <1>1, <1>3 DEF LastOf

LEMMA LastOfHas ==
  ASSUME NEW q, NEW M, Len(q) \in Nat, NEW j \in 1..Len(q), q[j] \in M
  PROVE  \E k \in 1..Len(q) : /\ q[k] \in M /\ LastOf(q, M) = q[k]
                              /\ \A i \in 1..Len(q) : q[i] \in M => i <= k
<1> DEFINE I == {i \in 1..Len(q) : q[i] \in M}
<1>1. j \in I
  OBVIOUS
<1>2. Max(I) \in I /\ \A i \in I : Max(I) >= i
  BY <1>1, LastPlace
<1> QED BY <1>1, <1>2 DEF LastOf

LEMMA LastOfNone ==
  ASSUME NEW q, NEW M, \A i \in 1..Len(q) : q[i] \notin M
  PROVE  LastOf(q, M) = 0
  BY DEF LastOf

\* What an element taken out, put last or added does to the elements, and to the last.
LEMMA TakenOut ==
  ASSUME NEW S, NEW q \in Seq(S), IsInjective(q), NEW f \in ToSet(q)
  PROVE  LET p == RemoveFirst(q, f)
         IN  /\ p \in Seq(S) /\ IsInjective(p) /\ ToSet(p) = ToSet(q) \ {f}
             /\ \A M : f \notin M \/ LastOf(q, M) # f => LastOf(p, M) = LastOf(q, M)
<1> DEFINE p == RemoveFirst(q, f)
           n == Len(q)
<1>0. PICK k \in 1..n : q[k] = f
  BY DEF ToSet
<1>1. /\ p \in Seq(S) /\ Len(p) = n - 1 /\ n \in Nat /\ n >= 1
      /\ \A i \in 1..(n - 1) : p[i] = IF i < k THEN q[i] ELSE q[i + 1]
  <2>1. /\ RemoveFirst(q, q[k]) \in Seq(S) /\ Len(RemoveFirst(q, q[k])) = Len(q) - 1
        /\ \A i \in 1..(Len(q) - 1) : RemoveFirst(q, q[k])[i] = IF i < k THEN q[i] ELSE q[i + 1]
    BY Without
  <2>2. n \in Nat /\ n >= 1
    OBVIOUS
  <2> QED BY <1>0, <2>1, <2>2
<1>2. DOMAIN p = 1..(n - 1) /\ DOMAIN q = 1..n
  BY <1>1
<1>3. \A i, j \in 1..n : q[i] = q[j] => i = j
  BY <1>2 DEF IsInjective
<1> HIDE DEF p, n
<1>4. IsInjective(p)
  <2> SUFFICES ASSUME NEW i \in 1..(n - 1), NEW j \in 1..(n - 1), p[i] = p[j] PROVE i = j
    BY <1>2 DEF IsInjective
  <2>1. i \in 1..n /\ i + 1 \in 1..n /\ j \in 1..n /\ j + 1 \in 1..n
    BY <1>1
  <2>2. (IF i < k THEN i ELSE i + 1) = (IF j < k THEN j ELSE j + 1)
    <3>1. p[i] = q[IF i < k THEN i ELSE i + 1] /\ p[j] = q[IF j < k THEN j ELSE j + 1]
      BY <1>1
    <3> QED BY <3>1, <1>3, <2>1
  <2> QED BY <2>1, <2>2, <1>0
<1>5. ToSet(p) = ToSet(q) \ {f}
  <2>1. ToSet(p) \subseteq ToSet(q) \ {f}
    <3> SUFFICES ASSUME NEW i \in 1..(n - 1) PROVE p[i] \in ToSet(q) /\ p[i] # f
      BY <1>2 DEF ToSet
    <3>1. i \in 1..n /\ i + 1 \in 1..n
      BY <1>1
    <3>2. q[i] \in ToSet(q) /\ q[i + 1] \in ToSet(q)
      BY <3>1, <1>2 DEF ToSet
    <3>3. (i < k => q[i] # f) /\ (~(i < k) => q[i + 1] # f)
      BY <3>1, <1>0, <1>3
    <3> QED BY <1>1, <3>2, <3>3
  <2>2. ToSet(q) \ {f} \subseteq ToSet(p)
    <3> SUFFICES ASSUME NEW i \in 1..n, q[i] # f PROVE \E j \in 1..(n - 1) : p[j] = q[i]
      BY <1>2 DEF ToSet
    <3>1. CASE i < k
      <4>1. i \in 1..(n - 1) /\ p[i] = q[i]
        BY <1>0, <1>1, <3>1
      <4> QED BY <4>1
    <3>2. CASE i > k
      <4>1. i - 1 \in 1..(n - 1) /\ ~(i - 1 < k) /\ (i - 1) + 1 = i
        BY <1>0, <1>1, <3>2
      <4>2. p[i - 1] = q[i]
        BY <1>1, <4>1
      <4> QED BY <4>1, <4>2
    <3> QED BY <3>1, <3>2, <1>0
  <2> QED BY <2>1, <2>2
<1>6. ASSUME NEW M, f \notin M \/ LastOf(q, M) # f PROVE LastOf(p, M) = LastOf(q, M)
  <2>1. CASE \A i \in 1..n : q[i] \in M => q[i] = f
    <3>1. \A i \in 1..n : q[i] \notin M
      <4>1. CASE f \notin M
        BY <4>1, <2>1
      <4>2. CASE f \in M
        <5>1. \A i \in 1..Len(q) : q[i] \in M => i <= k
          BY <1>0, <1>3, <2>1 DEF n
        <5>2. LastOf(q, M) = f
          BY <1>0, <1>1, <4>2, <5>1, LastOfIs DEF n
        <5> QED BY <5>2, <4>2, <1>6
      <4> QED BY <4>1, <4>2
    <3>2. \A i \in 1..Len(p) : p[i] \notin M
      BY <1>1, <3>1
    <3> QED BY <3>1, <3>2, LastOfNone DEF n
  <2>2. ASSUME NEW j \in 1..n, q[j] \in M, q[j] # f PROVE LastOf(p, M) = LastOf(q, M)
    <3>1. PICK m \in 1..n : /\ q[m] \in M /\ LastOf(q, M) = q[m]
                            /\ \A i \in 1..n : q[i] \in M => i <= m
      BY <1>1, <2>2, LastOfHas DEF n
    <3>2. m # k
      BY <1>6, <3>1, <1>0
    <3> DEFINE l == IF m < k THEN m ELSE m - 1
    <3>3. l \in 1..(n - 1) /\ p[l] = q[m]
      <4>1. CASE m < k
        BY <1>0, <1>1, <4>1
      <4>2. CASE ~(m < k)
        <5>1. m - 1 \in 1..(n - 1) /\ ~(m - 1 < k) /\ (m - 1) + 1 = m
          BY <1>0, <1>1, <3>2, <4>2
        <5> QED BY <1>1, <5>1, <4>2
      <4> QED BY <4>1, <4>2
    <3>4. ASSUME NEW i \in 1..(n - 1), p[i] \in M PROVE i <= l
      <4>1. i \in 1..n /\ i + 1 \in 1..n
        BY <1>1
      <4>2. IF i < k THEN i <= m ELSE i + 1 <= m
        BY <1>1, <3>1, <3>4, <4>1
      <4> QED BY <4>2, <4>1, <3>2, <1>0
    <3>5. LastOf(p, M) = p[l]
      <4> HIDE DEF l
      <4> QED BY <1>1, <3>1, <3>3, <3>4, LastOfIs
    <3> QED BY <3>1, <3>3, <3>5
  <2> QED BY <2>1, <2>2
<1> QED BY <1>1, <1>4, <1>5, <1>6 DEF p

LEMMA PutLast ==
  ASSUME NEW S, NEW q \in Seq(S), IsInjective(q), NEW f \in S, f \notin ToSet(q)
  PROVE  LET p == Append(q, f)
         IN  /\ p \in Seq(S) /\ IsInjective(p) /\ ToSet(p) = ToSet(q) \cup {f}
             /\ \A M : LastOf(p, M) = IF f \in M THEN f ELSE LastOf(q, M)
<1> DEFINE p == Append(q, f)
           n == Len(q)
<1>1. p \in Seq(S) /\ Len(p) = n + 1 /\ n \in Nat /\ p[n + 1] = f /\ \A i \in 1..n : p[i] = q[i]
  OBVIOUS
<1>2. DOMAIN p = 1..(n + 1) /\ DOMAIN q = 1..n
  BY <1>1
<1>3. \A i \in 1..n : q[i] # f
  BY <1>2 DEF ToSet
<1>4. \A i, j \in 1..n : q[i] = q[j] => i = j
  BY <1>2 DEF IsInjective
<1> HIDE DEF p, n
<1>5. IsInjective(p)
  <2>1. \A i \in 1..(n + 1) : i = n + 1 \/ i \in 1..n
    BY <1>1
  <2> QED BY <1>1, <1>2, <1>3, <1>4, <2>1 DEF IsInjective
<1>6. ToSet(p) = ToSet(q) \cup {f}
  <2>1. \A i \in 1..(n + 1) : i = n + 1 \/ i \in 1..n
    BY <1>1
  <2>2. \A i \in 1..n : i \in 1..(n + 1)
    BY <1>1
  <2>3. n + 1 \in 1..(n + 1)
    BY <1>1
  <2> QED BY <1>1, <1>2, <2>1, <2>2, <2>3 DEF ToSet
<1>7. ASSUME NEW M PROVE LastOf(p, M) = IF f \in M THEN f ELSE LastOf(q, M)
  <2>1. CASE f \in M
    <3>1. n + 1 \in 1..Len(p) /\ \A i \in 1..Len(p) : i <= n + 1
      BY <1>1
    <3> QED BY <1>1, <2>1, <3>1, LastOfIs
  <2>2. CASE f \notin M
    <3>1. \A i \in 1..Len(p) : p[i] \in M => i \in 1..n
      BY <1>1, <2>2
    <3>2. CASE \A i \in 1..n : q[i] \notin M
      <4>1. \A i \in 1..Len(p) : p[i] \notin M
        BY <1>1, <3>1, <3>2
      <4> QED BY <2>2, <3>2, <4>1, LastOfNone DEF n
    <3>3. ASSUME NEW j \in 1..n, q[j] \in M PROVE LastOf(p, M) = LastOf(q, M)
      <4>1. PICK m \in 1..n : /\ q[m] \in M /\ LastOf(q, M) = q[m]
                              /\ \A i \in 1..n : q[i] \in M => i <= m
        BY <1>1, <3>3, LastOfHas DEF n
      <4>2. m \in 1..Len(p) /\ p[m] = q[m]
        BY <1>1, <4>1
      <4>3. \A i \in 1..Len(p) : p[i] \in M => i <= m
        BY <1>1, <3>1, <4>1
      <4>4. LastOf(p, M) = p[m]
        BY <1>1, <4>1, <4>2, <4>3, LastOfIs
      <4> QED BY <4>1, <4>2, <4>4
    <3> QED BY <2>2, <3>2, <3>3
  <2> QED BY <2>1, <2>2
<1> QED BY <1>1, <1>5, <1>6, <1>7 DEF p

---------------------------------------------------------------------------
(* What is on disk, run by run *)

\* No run is looked up by a number another run's begins with: so it is below run 10.
RunsApart == \A r, s \in Runs : s \div 10 # r

In(r) == {f \in ToSet(dir) : file[f].run = r}
TasksOf(f) == {s.task : s \in file[f].sims}
RewardsOf(f) == Rewarded(file[f].sims)

\* A file has a simulation of a task once, and one number for all of them.
WellFormed(sims) ==
  /\ sims \subseteq Simulations
  /\ \A s, t \in sims : s.trial = t.trial /\ (s.task = t.task => s = t)

Files == [run : Runs, sims : SUBSET Simulations, whole : BOOLEAN]
DiskOK ==
  /\ file \in Seq(Files)
  /\ \A f \in DOMAIN file : WellFormed(file[f].sims)
  /\ dir \in Seq(DOMAIN file) /\ IsInjective(dir)

\* What run.py has to do is in no simulation of its file, which is the latest.
ChildOK(d) ==
  LET c == child[d]  r == RunOf(d)
  IN  /\ c.file \in DOMAIN file \cup {0}
      /\ c.on /\ c.file # 0 =>
           /\ c.file \in In(r) /\ Latest(r) = c.file
           /\ TasksOf(c.file) \cap c.todo = {}
           /\ \A s \in file[c.file].sims : s.trial = "raw"
      /\ c.on /\ c.file = 0 /\ at[d] = "sweeping" => Latest(r) = 0
      /\ ~c.on => c.file = 0

\* A re-run is of what the sweep's file misses, until it is folded into it: one that
\* merge.py refuses, cut short, stays the latest till the next is made.
Repairs(d, f) == f \in In(RunOf(d)) /\ f # sweep[d] /\ TasksOf(f) \subseteq Missing(sweep[d])

DriverOK(d) ==
  LET r == RunOf(d)  s == sweep[d]  p == patch[d]  c == child[d]
  IN  /\ {s, p} \subseteq DOMAIN file \cup {0} /\ attempt[d] \in 0..MaxAttempts
      /\ at[d] \in {"count", "resuming", "patched", "merging", "merged", "last"} => s \in In(r)
      /\ at[d] \in {"merging", "merged"} => Latest(r) = s
      /\ at[d] = "patched" => Latest(r) = p
      /\ at[d] \in {"count", "resuming"} /\ c.file = 0 => Latest(r) = s \/ Repairs(d, Latest(r))
      /\ at[d] = "resuming" /\ c.on => c.todo \subseteq Missing(s) /\ (c.file # 0 => Repairs(d, c.file))
      /\ at[d] \in {"patched", "merging"} => Repairs(d, p)
      /\ at[d] = "merged" => p \in In(r) \ {s} /\ RewardsOf(p) \subseteq RewardsOf(s)

\* What came to a reward is in a file of its run, cut short or not.
Kept == \A p \in results : p[1] \in Runs /\ \E f \in In(p[1]) : p[2] \in RewardsOf(f)

FieldsOK ==
  /\ child \in [Drivers -> [on : BOOLEAN, file : Nat, todo : SUBSET Tasks]]
  /\ sweep \in [Drivers -> Nat] /\ patch \in [Drivers -> Nat] /\ attempt \in [Drivers -> Nat]
  /\ \A r \in Runs : IsFiniteSet(lock[r])
  /\ done \subseteq Runs

SweepInv ==
  /\ LockInv /\ FieldsOK /\ DiskOK
  /\ \A d \in Drivers : ChildOK(d) /\ DriverOK(d)
  /\ Kept

---------------------------------------------------------------------------
(* The latest file of a run, and what a write makes of it *)

LEMMA FileType ==
  ASSUME DiskOK, NEW f \in DOMAIN file
  PROVE  /\ file[f] \in Files
         /\ file[f].run \in Runs /\ file[f].sims \subseteq Simulations /\ file[f].whole \in BOOLEAN
         /\ WellFormed(file[f].sims) /\ f \in Nat \ {0}
<1>1. file \in Seq(Files)
  BY DEF DiskOK
<1>2. DOMAIN file = 1..Len(file) /\ Len(file) \in Nat
  BY <1>1
<1>3. f \in 1..Len(file)
  BY <1>2
<1>4. file[f] \in Files
  BY <1>1, <1>3
<1>5. \A n \in Nat : 1..n \subseteq Nat \ {0}
  OBVIOUS
<1>6. file[f].run \in Runs /\ file[f].sims \subseteq Simulations /\ file[f].whole \in BOOLEAN
  BY <1>4 DEF Files
<1> QED BY <1>2, <1>3, <1>4, <1>5, <1>6, Zenon DEF DiskOK

LEMMA LatestIsLast == RunsApart /\ DiskOK => \A q \in Runs : Latest(q) = LastOf(dir, In(q))
<1> SUFFICES ASSUME RunsApart, DiskOK, NEW r \in Runs PROVE Latest(r) = LastOf(dir, In(r))
  OBVIOUS
<1>1. DOMAIN dir = 1..Len(dir) /\ Len(dir) \in Nat /\ \A i \in 1..Len(dir) : dir[i] \in DOMAIN file /\ file[dir[i]].run \in Runs
  <2>1. DOMAIN dir = 1..Len(dir) /\ Len(dir) \in Nat /\ \A i \in 1..Len(dir) : dir[i] \in DOMAIN file
    BY DEF DiskOK
  <2>2. \A f \in DOMAIN file : file[f].run \in Runs
    BY FileType
  <2>3. \A i \in 1..Len(dir) : dir[i] \in DOMAIN file
    BY <2>1
  <2> QED BY <2>1, <2>2, <2>3
<1>2. \A i \in 1..Len(dir) : Matches(r, dir[i]) <=> dir[i] \in In(r)
  BY <1>1 DEF RunsApart, Matches, In, ToSet
<1> DEFINE I == {i \in 1..Len(dir) : Matches(r, dir[i])}
<1>3. I = {i \in 1..Len(dir) : dir[i] \in In(r)}
  BY <1>2
<1>4. SelectLastInSeq(dir, LAMBDA f : Matches(r, f)) = IF I # {} THEN Max(I) ELSE 0
  BY DEF SelectLastInSeq
<1>5. I # {} => Max(I) \in I
  BY <1>1, LastPlace
<1>6. I # {} => Max(I) # 0
  BY <1>5
<1> HIDE DEF I
<1> QED BY <1>3, <1>4, <1>6 DEF Latest, LastOf

LEMMA LatestIsLastNext == RunsApart /\ DiskOK' => \A q \in Runs : Latest(q)' = LastOf(dir', In(q)')
<1>1. (RunsApart /\ DiskOK => \A q \in Runs : Latest(q) = LastOf(dir, In(q)))'
  BY LatestIsLast, PTL
<1> QED BY <1>1 DEF RunsApart

LEMMA LatestIsIn ==
  ASSUME RunsApart, DiskOK, NEW r \in Runs
  PROVE  /\ Latest(r) = IF In(r) = {} THEN 0 ELSE Latest(r)
         /\ In(r) # {} => Latest(r) \in In(r)
         /\ In(r) \subseteq DOMAIN file /\ 0 \notin DOMAIN file
<1>1. DOMAIN dir = 1..Len(dir) /\ Len(dir) \in Nat /\ In(r) \subseteq ToSet(dir)
  BY DEF DiskOK, In
<1>2. In(r) \subseteq DOMAIN file /\ 0 \notin DOMAIN file
  BY DEF DiskOK, In, ToSet
<1>3. CASE In(r) = {}
  <2>1. LastOf(dir, In(r)) = 0
    BY <1>3, LastOfNone
  <2> QED BY <2>1, <1>2, <1>3, LatestIsLast
<1>4. CASE In(r) # {}
  <2>1. PICK j \in 1..Len(dir) : dir[j] \in In(r)
    BY <1>1, <1>4 DEF ToSet
  <2>2. LastOf(dir, In(r)) \in In(r)
    BY <1>1, <2>1, LastOfHas
  <2> QED BY <2>2, <1>2, <1>4, LatestIsLast
<1> QED BY <1>3, <1>4

\* A file written is its run's latest; the other runs' files are as they were.
LEMMA Written ==
  ASSUME RunsApart, DiskOK, NEW f \in ToSet(dir), NEW new \in Files,
         WellFormed(new.sims), new.run = file[f].run, file' = [file EXCEPT ![f] = new],
         dir' = Touched(f) \/ (dir' = dir /\ Latest(file[f].run) = f)
  PROVE  /\ DiskOK' /\ ToSet(dir') = ToSet(dir) /\ DOMAIN file' = DOMAIN file
         /\ \A r \in Runs : In(r)' = In(r) /\ Latest(r)' = IF r = file[f].run THEN f ELSE Latest(r)
<1>1. f \in DOMAIN file /\ DOMAIN file' = DOMAIN file
  BY DEF DiskOK, ToSet
<1>2. file' \in Seq(Files) /\ \A g \in DOMAIN file' : WellFormed(file'[g].sims)
  BY <1>1 DEF DiskOK
<1>3. \A g \in DOMAIN file : file'[g].run = file[g].run
  BY <1>1 DEF DiskOK
<1>4. ToSet(dir) \subseteq DOMAIN file
  BY DEF DiskOK, ToSet
<1>5. /\ dir' \in Seq(DOMAIN file) /\ IsInjective(dir') /\ ToSet(dir') = ToSet(dir)
      /\ \/ \A M : LastOf(dir', M) = IF f \in M THEN f ELSE LastOf(dir, M)
         \/ dir' = dir /\ Latest(file[f].run) = f
  <2>1. CASE dir' = Touched(f)
    <3> DEFINE p == RemoveFirst(dir, f)
    <3>1. /\ p \in Seq(DOMAIN file) /\ IsInjective(p) /\ ToSet(p) = ToSet(dir) \ {f}
          /\ \A M : f \notin M => LastOf(p, M) = LastOf(dir, M)
      BY TakenOut DEF DiskOK
    <3>2. dir' = Append(p, f)
      BY <2>1 DEF Touched
    <3> HIDE DEF p
    <3>3. /\ dir' \in Seq(DOMAIN file) /\ IsInjective(dir') /\ ToSet(dir') = ToSet(p) \cup {f}
          /\ \A M : LastOf(dir', M) = IF f \in M THEN f ELSE LastOf(p, M)
      BY <1>1, <3>1, <3>2, PutLast
    <3> QED BY <3>1, <3>3
  <2>2. CASE dir' = dir /\ Latest(file[f].run) = f
    <3>1. dir \in Seq(DOMAIN file) /\ IsInjective(dir)
      BY DEF DiskOK
    <3> QED BY <2>2, <3>1
  <2> QED BY <2>1, <2>2
<1>6. DiskOK'
  BY <1>1, <1>2, <1>5 DEF DiskOK
<1>7. \A r \in Runs : In(r)' = In(r)
  BY <1>3, <1>4, <1>5 DEF In
<1>8. ASSUME NEW r \in Runs PROVE Latest(r)' = IF r = file[f].run THEN f ELSE Latest(r)
  <2>1. Latest(r)' = LastOf(dir', In(r))
    <3> QED BY <1>6, <1>7, LatestIsLastNext
  <2>2. Latest(r) = LastOf(dir, In(r))
    BY LatestIsLast
  <2>3. f \in In(r) <=> r = file[f].run
    BY DEF In
  <2> QED BY <1>5, <2>1, <2>2, <2>3
<1> QED BY <1>1, <1>5, <1>6, <1>7, <1>8

---------------------------------------------------------------------------
(* What a step of one driver leaves of the others *)

Elsewhere(d) ==
  \A e \in Drivers \ {d} :
    /\ at'[e] = at[e] /\ nth'[e] = nth[e] /\ child'[e] = child[e]
    /\ sweep'[e] = sweep[e] /\ patch'[e] = patch[e] /\ attempt'[e] = attempt[e]

LEMMA OneAtATime ==
  ASSUME LockInv, NEW r \in Runs, NEW d \in Drivers, NEW e \in Drivers, Writes(d, r), Writes(e, r)
  PROVE  d = e
  BY WritersHold DEF LockInv, OneHolder

LEMMA Undisturbed ==
  ASSUME NEW d \in Drivers, NEW e \in Drivers \ {d}, NEW r \in Runs, RunOf(e) = r, Elsewhere(d),
         ChildOK(e), DriverOK(e), DOMAIN file \subseteq DOMAIN file',
         Writes(e, r) => /\ In(r)' = In(r) /\ Latest(r)' = Latest(r)
                         /\ \A f \in In(r) : file'[f] = file[f]
  PROVE  ChildOK(e)' /\ DriverOK(e)'
<1>1. RunOf(e)' = r /\ at'[e] = at[e] /\ child'[e] = child[e] /\ sweep'[e] = sweep[e] /\ patch'[e] = patch[e] /\ attempt'[e] = attempt[e]
  BY DEF Elsewhere, RunOf
<1>2. CASE ~Writes(e, r)
  <2>1. ~child[e].on /\ at[e] \in {"lock", "exit", "gone"}
    BY <1>2 DEF Writes
  <2>2. ChildOK(e)'
    BY <1>1, <2>1 DEF ChildOK
  <2>3. DriverOK(e)'
    BY <1>1, <2>1 DEF DriverOK
  <2> QED BY <2>2, <2>3
<1>3. CASE Writes(e, r)
  <2>1. In(r)' = In(r) /\ Latest(r)' = Latest(r) /\ \A f \in In(r) : file'[f] = file[f]
    BY <1>3
  <2>2. ChildOK(e)'
    <3>1. \A f \in In(r) : TasksOf(f)' = TasksOf(f)
      BY <2>1 DEF TasksOf
    <3> QED BY <1>1, <2>1, <3>1 DEF ChildOK
  <2>3. sweep[e] \in In(r) => \A f : Repairs(e, f) => Repairs(e, f)'
    BY <1>1, <2>1 DEF Repairs, TasksOf, Missing
  <2>4. sweep[e] \in In(r) => Missing(sweep[e])' = Missing(sweep[e]) /\ RewardsOf(sweep[e])' = RewardsOf(sweep[e])
    BY <1>1, <2>1 DEF Missing, RewardsOf
  <2>5. patch[e] \in In(r) => RewardsOf(patch[e])' = RewardsOf(patch[e])
    BY <1>1, <2>1 DEF RewardsOf
  <2>6. DriverOK(e)'
    <3> USE <1>1, <2>1 DEF DriverOK
    <3>1. {sweep[e], patch[e]} \subseteq DOMAIN file' \cup {0} /\ attempt'[e] \in 0..MaxAttempts
      OBVIOUS
    <3>2. at[e] \in {"count", "resuming", "patched", "merging", "merged", "last"} => sweep[e] \in In(r)
      OBVIOUS
    <3>3. /\ at[e] \in {"merging", "merged"} => Latest(r)' = sweep[e]
          /\ at[e] = "patched" => Latest(r)' = patch[e]
      OBVIOUS
    <3>4. CASE at[e] \in {"count", "resuming"}
      <4>1. at[e] = "resuming" /\ child[e].on => child[e].todo \subseteq Missing(sweep[e])'
        BY <3>2, <3>4, <2>4
      <4>2. at[e] = "resuming" /\ child[e].on /\ child[e].file # 0 => Repairs(e, child[e].file)'
        BY <3>2, <3>4, <2>3
      <4>3. child[e].file = 0 => Latest(r)' = sweep[e] \/ Repairs(e, Latest(r))'
        BY <3>2, <3>4, <2>3 DEF Repairs
      <4> QED BY <3>1, <3>2, <3>4, <4>1, <4>2, <4>3
    <3>5. CASE at[e] \in {"patched", "merging"}
      <4>1. Repairs(e, patch[e])'
        BY <3>2, <3>5, <2>3
      <4> QED BY <3>1, <3>2, <3>3, <3>5, <4>1
    <3>6. CASE at[e] = "merged"
      <4>1. patch[e] \in In(r) \ {sweep[e]} /\ RewardsOf(patch[e]) \subseteq RewardsOf(sweep[e])
        BY <3>6
      <4> QED BY <3>1, <3>2, <3>3, <3>6, <4>1, <2>4, <2>5
    <3>7. CASE at[e] \notin {"count", "resuming", "patched", "merging", "merged"}
      BY <3>1, <3>2, <3>3, <3>7
    <3> QED BY <3>4, <3>5, <3>6, <3>7
  <2> QED BY <2>2, <2>6
<1> QED BY <1>2, <1>3

\* The step changes no file.
LEMMA StepOffDisk ==
  ASSUME SweepInv, LockInv', FieldsOK', NEW d \in Drivers, Elsewhere(d), UNCHANGED <<file, dir, results>>,
         ChildOK(d)', DriverOK(d)', SweepAssumption
  PROVE  SweepInv'
<1>1. /\ DiskOK' /\ Kept' /\ DOMAIN file' = DOMAIN file
      /\ \A r \in Runs : In(r)' = In(r) /\ Latest(r)' = Latest(r)
  <2>1. \A r \in Runs : In(r)' = In(r)
    BY DEF In
  <2>2. \A r \in Runs : Latest(r)' = Latest(r)
    BY DEF Latest, Matches, SelectLastInSeq
  <2>3. DiskOK'
    BY DEF SweepInv, DiskOK
  <2>4. Kept'
    BY <2>1 DEF SweepInv, Kept, RewardsOf
  <2> QED BY <2>1, <2>2, <2>3, <2>4
<1>2. ASSUME NEW e \in Drivers PROVE ChildOK(e)' /\ DriverOK(e)'
  <2>1. CASE e = d
    BY <2>1
  <2>2. CASE e # d
    <3>1. RunOf(e) \in Runs
      BY RunOfIsRun DEF SweepInv, LockInv
    <3>2. ChildOK(e) /\ DriverOK(e)
      BY DEF SweepInv
    <3> DEFINE r == RunOf(e)
    <3>3. PICK r0 \in Runs : RunOf(e) = r0
      BY <3>1
    <3>4. In(r0)' = In(r0) /\ Latest(r0)' = Latest(r0) /\ \A f \in In(r0) : file'[f] = file[f]
      BY <1>1
    <3> QED BY <1>1, <2>2, <3>2, <3>3, <3>4, Undisturbed
  <2> QED BY <2>1, <2>2
<1> QED BY <1>1, <1>2 DEF SweepInv

\* It changes files of its own run.
LEMMA StepOnDisk ==
  ASSUME SweepAssumption, SweepInv, LockInv', FieldsOK', DiskOK', Kept', NEW d \in Drivers, Elsewhere(d),
         NEW r \in Runs, RunOf(d) = r, Writes(d, r), UNCHANGED nth, DOMAIN file \subseteq DOMAIN file',
         \A q \in Runs \ {r} : In(q)' = In(q) /\ Latest(q)' = Latest(q) /\ \A f \in In(q) : file'[f] = file[f],
         ChildOK(d)', DriverOK(d)'
  PROVE  SweepInv'
<1>1. ASSUME NEW e \in Drivers \ {d} PROVE ~Writes(e, r)
  BY OneAtATime DEF SweepInv
<1>2. ASSUME NEW e \in Drivers PROVE ChildOK(e)' /\ DriverOK(e)'
  <2>1. CASE e = d
    BY <2>1
  <2>2. CASE e # d
    <3>1. PICK q \in Runs : RunOf(e) = q
      BY RunOfIsRun DEF SweepInv, LockInv
    <3>2. ChildOK(e) /\ DriverOK(e)
      BY DEF SweepInv
    <3>3. Writes(e, q) => q # r
      BY <1>1, <2>2
    <3> QED BY <2>2, <3>1, <3>2, <3>3, Undisturbed
  <2> QED BY <2>1, <2>2
<1> QED BY <1>2 DEF SweepInv

---------------------------------------------------------------------------
(* What merge.py and run.py make of simulations *)

Trial(sims) == {s.trial : s \in sims}
Task(sims) == {s.task : s \in sims}

\* The same simulations under another number.
SameBut(n, s, trial) == n \in Simulations /\ n.trial = trial /\ n.task = s.task /\ n.reward = s.reward

LEMMA NewNumber ==
  ASSUME NEW sims, NEW new, NEW trial, WellFormed(sims),
         \A n \in new : \E s \in sims : SameBut(n, s, trial),
         \A s \in sims : \E n \in new : SameBut(n, s, trial)
  PROVE  WellFormed(new) /\ Task(new) = Task(sims) /\ Rewarded(new) = Rewarded(sims)
<1>1. Task(new) = Task(sims) /\ Rewarded(new) = Rewarded(sims)
  BY DEF SameBut, Task, Rewarded
<1>2. new \subseteq Simulations /\ \A n \in new : n.trial = trial
  BY DEF SameBut
<1>3. ASSUME NEW n \in new, NEW m \in new, n.task = m.task PROVE n = m
  <2>1. PICK s \in sims : SameBut(n, s, trial)
    OBVIOUS
  <2>2. PICK t \in sims : SameBut(m, t, trial)
    OBVIOUS
  <2>3. s = t
    <3>1. s.task = t.task
      BY <1>3, <2>1, <2>2 DEF SameBut
    <3> QED BY <3>1 DEF WellFormed
  <2>4. n \in Simulations /\ m \in Simulations /\ n.trial = m.trial /\ n.task = m.task /\ n.reward = m.reward
    BY <2>1, <2>2, <2>3 DEF SameBut
  <2>5. \A x \in Simulations : x = [task |-> x.task, trial |-> x.trial, reward |-> x.reward]
    BY DEF Simulations
  <2> QED BY <2>4, <2>5
<1> QED BY <1>1, <1>2, <1>3 DEF WellFormed

LEMMA NumberedIs ==
  ASSUME NEW r, NEW sims, WellFormed(sims)
  PROVE  /\ WellFormed(Numbered(r, sims))
         /\ Task(Numbered(r, sims)) = Task(sims) /\ Rewarded(Numbered(r, sims)) = Rewarded(sims)
<1>1. CASE r = 1
  BY <1>1 DEF Numbered
<1>2. CASE r # 1
  <2> DEFINE new == {[s EXCEPT !.trial = "own"] : s \in sims}
  <2>1. Numbered(r, sims) = new
    BY <1>2 DEF Numbered
  <2>2. \A s \in sims : SameBut([s EXCEPT !.trial = "own"], s, "own")
    BY DEF WellFormed, Simulations, Trials, SameBut
  <2>3. /\ \A n \in new : \E s \in sims : SameBut(n, s, "own")
        /\ \A s \in sims : \E n \in new : SameBut(n, s, "own")
    BY <2>2
  <2> HIDE DEF new
  <2> QED BY <2>1, <2>3, NewNumber
<1> QED BY <1>1, <1>2

LEMMA RenumberedIs ==
  ASSUME NEW base, NEW add, WellFormed(base), WellFormed(add)
  PROVE  LET new == Renumbered(base, add)
         IN  /\ WellFormed(new) /\ Task(new) = Task(add) /\ Rewarded(new) = Rewarded(add)
             /\ \A n \in new, s \in base : n.trial = s.trial
<1> DEFINE trials == {s.trial : s \in base}
<1>1. CASE base = {}
  <2>1. trials = {}
    BY <1>1
  <2>2. Cardinality(trials) # 1
    BY <2>1, FS_EmptySet
  <2>3. Renumbered(base, add) = add
    BY <2>2 DEF Renumbered
  <2> QED BY <1>1, <2>3
<1>2. CASE base # {}
  <2> DEFINE b == CHOOSE x \in base : TRUE
  <2>1. b \in base
    BY <1>2
  <2>2. trials = {b.trial} /\ b.trial \in Trials
    BY <2>1 DEF WellFormed, Simulations
  <2>3. Cardinality(trials) = 1
    BY <2>2, FS_Singleton
  <2> DEFINE new == {[s EXCEPT !.trial = b.trial] : s \in add}
  <2>4. Renumbered(base, add) = new
    BY <2>3 DEF Renumbered
  <2>5. \A s \in base : s.trial = b.trial
    BY <2>1 DEF WellFormed
  <2> HIDE DEF b
  <2>6. \A s \in add : SameBut([s EXCEPT !.trial = b.trial], s, b.trial)
    BY <2>2 DEF WellFormed, Simulations, SameBut
  <2>7. /\ \A n \in new : \E s \in add : SameBut(n, s, b.trial)
        /\ \A s \in add : \E n \in new : SameBut(n, s, b.trial)
    BY <2>6
  <2> HIDE DEF new
  <2>8. WellFormed(new) /\ Task(new) = Task(add) /\ Rewarded(new) = Rewarded(add)
    BY <2>7, NewNumber
  <2>9. \A n \in new, s \in base : n.trial = s.trial
    BY <2>5, <2>7 DEF SameBut
  <2> QED BY <2>4, <2>8, <2>9
<1> QED BY <1>1, <1>2

\* A re-run of what the file misses goes into it without taking a reward from it.
LEMMA MergedIs ==
  ASSUME NEW base, NEW add, WellFormed(base), WellFormed(add), Task(add) \cap Rewarded(base) = {}
  PROVE  WellFormed(Merged(base, add)) /\ Rewarded(base) \cup Rewarded(add) \subseteq Rewarded(Merged(base, add))
<1> DEFINE new == Renumbered(base, add)
           kept == {s \in base : \A n \in new : <<n.task, n.trial>> # <<s.task, s.trial>>}
<1>1. /\ WellFormed(new) /\ Task(new) = Task(add) /\ Rewarded(new) = Rewarded(add)
      /\ \A n \in new, s \in base : n.trial = s.trial
  BY RenumberedIs
<1>2. Merged(base, add) = new \cup kept
  BY DEF Merged
<1> HIDE DEF new
<1>3. \A n \in new, s \in kept : n.task # s.task
  BY <1>1
<1>4. WellFormed(new \cup kept)
  <2>1. WellFormed(kept)
    BY DEF WellFormed
  <2>2. \A n \in new, s \in kept : n.trial = s.trial /\ n.task # s.task
    BY <1>1, <1>3
  <2> HIDE DEF kept
  <2> QED BY <1>1, <2>1, <2>2 DEF WellFormed
<1>5. Rewarded(base) \subseteq Rewarded(new \cup kept)
  <2> SUFFICES ASSUME NEW s \in base, s.reward PROVE s \in kept
    BY DEF Rewarded
  <2>1. s.task \notin Task(add)
    BY DEF Rewarded
  <2>2. \A n \in new : n.task # s.task
    BY <1>1, <2>1 DEF Task
  <2> QED BY <2>2
<1>6. Rewarded(add) \subseteq Rewarded(new \cup kept)
  BY <1>1 DEF Rewarded
<1> QED BY <1>2, <1>4, <1>5, <1>6

---------------------------------------------------------------------------
(* The files, step by step *)

LEMMA SameDisk ==
  ASSUME UNCHANGED <<file, dir>>
  PROVE  /\ \A r : In(r)' = In(r) /\ Latest(r)' = Latest(r)
         /\ \A f : Missing(f)' = Missing(f) /\ RewardsOf(f)' = RewardsOf(f) /\ TasksOf(f)' = TasksOf(f)
  BY DEF In, Latest, Matches, SelectLastInSeq, Missing, RewardsOf, TasksOf

\* What is known of a driver and its run.
LEMMA Known ==
  ASSUME SweepAssumption, RunsApart, SweepInv, NEW d \in Drivers
  PROVE  /\ RunOf(d) \in Runs /\ ChildOK(d) /\ DriverOK(d) /\ DiskOK
         /\ at[d] \in Places /\ child[d] \in [on : BOOLEAN, file : Nat, todo : SUBSET Tasks]
         /\ DOMAIN at = Drivers /\ DOMAIN nth = Drivers /\ DOMAIN child = Drivers
         /\ DOMAIN sweep = Drivers /\ DOMAIN patch = Drivers /\ DOMAIN attempt = Drivers
         /\ at[d] \notin {"sweeping", "resuming", "gone"} => ~child[d].on
         /\ In(RunOf(d)) \subseteq DOMAIN file /\ 0 \notin DOMAIN file
         /\ Latest(RunOf(d)) \in In(RunOf(d)) \cup {0} /\ (In(RunOf(d)) # {} => Latest(RunOf(d)) \in In(RunOf(d)))
<1>1. RunOf(d) \in Runs /\ ChildOK(d) /\ DriverOK(d) /\ DiskOK
  BY RunOfIsRun DEF SweepInv, LockInv
<1>2. /\ at[d] \in Places /\ child[d] \in [on : BOOLEAN, file : Nat, todo : SUBSET Tasks]
      /\ DOMAIN at = Drivers /\ DOMAIN nth = Drivers /\ DOMAIN child = Drivers
      /\ DOMAIN sweep = Drivers /\ DOMAIN patch = Drivers /\ DOMAIN attempt = Drivers
  BY DEF SweepInv, LockInv, DriverType, FieldsOK
<1>3. at[d] \notin {"sweeping", "resuming", "gone"} => ~child[d].on
  BY Alone DEF SweepInv
<1>4. /\ In(RunOf(d)) \subseteq DOMAIN file /\ 0 \notin DOMAIN file
      /\ Latest(RunOf(d)) \in In(RunOf(d)) \cup {0} /\ (In(RunOf(d)) # {} => Latest(RunOf(d)) \in In(RunOf(d)))
  BY <1>1, LatestIsIn
<1> QED BY <1>1, <1>2, <1>3, <1>4

LEMMA HoldFiles ==
  ASSUME SweepAssumption, RunsApart, SweepInv, LockInv', FieldsOK', NEW d \in Drivers, Hold(d)
  PROVE  SweepInv'
<1> PICK r \in Runs : RunOf(d) = r
  BY Known
<1>1. /\ at[d] = "lock" /\ at' = [at EXCEPT ![d] = "look"] /\ UNCHANGED <<file, dir, results, nth, sweep, patch, attempt, child>>
  BY DEF Hold, Goes, disk, history
<1>2. at'[d] = "look" /\ ~child[d].on /\ Elsewhere(d) /\ RunOf(d)' = r
  BY <1>1, Known DEF Elsewhere, RunOf
<1>3. ChildOK(d)' /\ DriverOK(d)'
  BY <1>1, <1>2, Known DEF ChildOK, DriverOK
<1> QED BY <1>1, <1>2, <1>3, StepOffDisk

LEMMA LookFiles ==
  ASSUME SweepAssumption, RunsApart, SweepInv, LockInv', FieldsOK', NEW d \in Drivers, Look(d)
  PROVE  SweepInv'
<1> PICK r \in Runs : RunOf(d) = r
  BY Known
<1>1. at[d] = "look" /\ attempt' = [attempt EXCEPT ![d] = 0] /\ UNCHANGED <<file, dir, results, nth, patch>>
  BY DEF Look, disk, history
<1>2. ~child[d].on /\ RunOf(d)' = r /\ attempt'[d] \in 0..MaxAttempts
  <2>1. ~child[d].on /\ RunOf(d)' = r
    BY <1>1, Known DEF RunOf
  <2>2. attempt'[d] = 0 /\ 0 \in 0..MaxAttempts
    BY <1>1, Known DEF SweepAssumption
  <2> QED BY <2>1, <2>2
<1>3. CASE Latest(r) = 0
  <2>1. /\ at' = [at EXCEPT ![d] = "sweeping"] /\ UNCHANGED sweep
        /\ child' = [child EXCEPT ![d] = [on |-> TRUE, file |-> 0, todo |-> Tasks]]
    BY <1>3 DEF Look, Found, Goes, Launch
  <2>2. Elsewhere(d) /\ at'[d] = "sweeping" /\ child'[d] = [on |-> TRUE, file |-> 0, todo |-> Tasks]
    BY <1>1, <2>1, Known DEF Elsewhere
  <2>3. ChildOK(d)' /\ DriverOK(d)'
    BY <1>1, <1>2, <1>3, <2>1, <2>2, Known, SameDisk DEF ChildOK, DriverOK
  <2> QED BY <1>1, <1>2, <2>2, <2>3, StepOffDisk
<1>4. CASE Latest(r) # 0
  <2>1. at' = [at EXCEPT ![d] = "count"] /\ sweep' = [sweep EXCEPT ![d] = Latest(r)] /\ UNCHANGED child
    BY <1>4 DEF Look, Found, Goes
  <2>2. Elsewhere(d) /\ at'[d] = "count" /\ sweep'[d] = Latest(r)
    BY <1>1, <2>1, Known DEF Elsewhere
  <2>3. ChildOK(d)' /\ DriverOK(d)'
    BY <1>1, <1>2, <1>4, <2>1, <2>2, Known, SameDisk DEF ChildOK, DriverOK
  <2> QED BY <1>1, <1>2, <2>2, <2>3, StepOffDisk
<1> QED BY <1>3, <1>4

LEMMA SweptFiles ==
  ASSUME SweepAssumption, RunsApart, SweepInv, LockInv', FieldsOK', NEW d \in Drivers, Swept(d)
  PROVE  SweepInv'
<1> PICK r \in Runs : RunOf(d) = r
  BY Known
<1>1. /\ at[d] = "sweeping" /\ ~child[d].on /\ UNCHANGED <<file, dir, results, nth, patch, attempt, child>>
      /\ sweep' = [sweep EXCEPT ![d] = Latest(r)] /\ at' = [at EXCEPT ![d] = IF sweep'[d] = 0 THEN "exit" ELSE "count"]
  BY DEF Swept, Goes, disk, history
<1>2. /\ RunOf(d)' = r /\ Elsewhere(d)
      /\ sweep'[d] = Latest(r) /\ at'[d] = IF sweep'[d] = 0 THEN "exit" ELSE "count"
  BY <1>1, Known DEF RunOf, Elsewhere
<1>3. ChildOK(d)' /\ DriverOK(d)'
  BY <1>1, <1>2, Known, SameDisk DEF ChildOK, DriverOK
<1> QED BY <1>1, <1>2, <1>3, StepOffDisk

\* A driver that stops, or is killed, its run.py going on or not.
LEMMA LeftFiles ==
  ASSUME SweepAssumption, RunsApart, SweepInv, LockInv', FieldsOK', NEW d \in Drivers, NEW p \in {"exit", "gone"},
         Goes(d, p),
         UNCHANGED <<file, dir, results, nth, sweep, patch, attempt, child>>
  PROVE  SweepInv'
<1> PICK r \in Runs : RunOf(d) = r
  BY Known
<1>1. at'[d] = p /\ Elsewhere(d) /\ RunOf(d)' = r
  BY Known DEF Goes, Elsewhere, RunOf
<1>2. ChildOK(d)' /\ DriverOK(d)'
  BY <1>1, Known, SameDisk DEF ChildOK, DriverOK
<1> QED BY <1>1, <1>2, StepOffDisk

LEMMA CountFiles ==
  ASSUME SweepAssumption, RunsApart, SweepInv, LockInv', FieldsOK', NEW d \in Drivers, Count(d)
  PROVE  SweepInv'
<1> PICK r \in Runs : RunOf(d) = r
  BY Known
<1> DEFINE s == sweep[d]
<1>1. at[d] = "count" /\ file[s].whole /\ UNCHANGED <<file, dir, results, nth, patch, sweep>>
  BY DEF Count, disk, history
<1>2. ~child[d].on /\ RunOf(d)' = r /\ s \in In(r)
  BY <1>1, Known DEF RunOf, DriverOK
<1>3. Latest(r) = s \/ Repairs(d, Latest(r))
  BY <1>1, <1>2, Known DEF ChildOK, DriverOK
<1>4. CASE Missing(s) = {} \/ attempt[d] = MaxAttempts
  <2>1. at' = [at EXCEPT ![d] = "last"] /\ UNCHANGED <<attempt, child>>
    BY <1>4 DEF Count, Goes
  <2>2. Elsewhere(d) /\ at'[d] = "last"
    BY <1>1, <2>1, Known DEF Elsewhere
  <2>3. ChildOK(d)' /\ DriverOK(d)'
    BY <1>1, <1>2, <2>1, <2>2, Known, SameDisk DEF ChildOK, DriverOK
  <2> QED BY <1>1, <2>2, <2>3, StepOffDisk
<1>5. CASE ~(Missing(s) = {} \/ attempt[d] = MaxAttempts)
  <2>1. /\ at' = [at EXCEPT ![d] = "resuming"] /\ attempt' = [attempt EXCEPT ![d] = attempt[d] + 1]
        /\ child' = [child EXCEPT ![d] = [on |-> TRUE, file |-> 0, todo |-> Missing(s)]]
    BY <1>5 DEF Count, Goes, Launch
  <2>2. /\ Elsewhere(d) /\ at'[d] = "resuming" /\ attempt'[d] = attempt[d] + 1
        /\ child'[d] = [on |-> TRUE, file |-> 0, todo |-> Missing(s)]
    BY <1>1, <2>1, Known DEF Elsewhere
  <2>3. attempt'[d] \in 0..MaxAttempts
    <3>1. attempt[d] \in 0..MaxAttempts /\ attempt[d] # MaxAttempts /\ MaxAttempts \in Nat
      BY <1>5, Known DEF DriverOK, SweepAssumption
    <3> QED BY <3>1, <2>2
  <2>4. ChildOK(d)'
    BY <2>2, Known DEF ChildOK
  <2>5. DriverOK(d)'
    <3>1. {s, patch[d]} \subseteq DOMAIN file \cup {0}
      BY Known DEF DriverOK
    <3>2. Missing(s)' = Missing(s) /\ In(r)' = In(r) /\ Latest(r)' = Latest(r)
      BY <1>1, SameDisk
    <3>3. Latest(r)' = s \/ Repairs(d, Latest(r))'
      BY <1>1, <1>2, <1>3, SameDisk DEF Repairs
    <3> QED BY <1>1, <1>2, <2>2, <2>3, <3>1, <3>2, <3>3 DEF DriverOK
  <2> QED BY <1>1, <2>2, <2>4, <2>5, StepOffDisk
<1> QED BY <1>4, <1>5

LEMMA ResumedFiles ==
  ASSUME SweepAssumption, RunsApart, SweepInv, LockInv', FieldsOK', NEW d \in Drivers, Resumed(d)
  PROVE  SweepInv'
<1> PICK r \in Runs : RunOf(d) = r
  BY Known
<1>1. /\ at[d] = "resuming" /\ ~child[d].on /\ UNCHANGED <<file, dir, results, nth, sweep, attempt, child>>
      /\ patch' = [patch EXCEPT ![d] = Latest(r)] /\ at' = [at EXCEPT ![d] = IF patch'[d] = sweep[d] THEN "last" ELSE "patched"]
  BY DEF Resumed, Goes, disk, history
<1>2. /\ RunOf(d)' = r /\ Elsewhere(d)
      /\ patch'[d] = Latest(r) /\ at'[d] = IF patch'[d] = sweep[d] THEN "last" ELSE "patched"
  BY <1>1, Known DEF RunOf, Elsewhere
<1>3. sweep[d] \in In(r) /\ (Latest(r) = sweep[d] \/ Repairs(d, Latest(r)))
  BY <1>1, Known DEF ChildOK, DriverOK
<1>4. ChildOK(d)'
  BY <1>1, <1>2, Known DEF ChildOK
<1>5. DriverOK(d)'
  <2>1. In(r)' = In(r) /\ Latest(r)' = Latest(r) /\ \A f : Repairs(d, f)' = Repairs(d, f)
    BY <1>1, <1>2, SameDisk DEF Repairs
  <2>2. {sweep[d], Latest(r)} \subseteq DOMAIN file \cup {0} /\ attempt[d] \in 0..MaxAttempts
    BY Known DEF DriverOK
  <2>3. CASE Latest(r) = sweep[d]
    BY <1>1, <1>2, <1>3, <2>1, <2>2, <2>3 DEF DriverOK
  <2>4. CASE Latest(r) # sweep[d]
    <3>1. Repairs(d, patch[d])'
      BY <1>2, <1>3, <2>1, <2>4, Known DEF Repairs
    <3> QED BY <1>1, <1>2, <1>3, <2>1, <2>2, <2>4, <3>1 DEF DriverOK
  <2> QED BY <2>3, <2>4
<1> QED BY <1>1, <1>2, <1>4, <1>5, StepOffDisk

LEMMA LastCountFiles ==
  ASSUME SweepAssumption, RunsApart, SweepInv, LockInv', FieldsOK', NEW d \in Drivers, LastCount(d)
  PROVE  SweepInv'
<1>1. /\ at[d] = "last" /\ UNCHANGED <<file, dir, results, sweep, patch, attempt, child>>
      /\ \/ at' = [at EXCEPT ![d] = "lock"] /\ nth' = [nth EXCEPT ![d] = nth[d] + 1]
         \/ at' = [at EXCEPT ![d] = "exit"] /\ UNCHANGED nth
  BY DEF LastCount, Goes, disk
<1>2. ~child[d].on /\ Elsewhere(d) /\ at'[d] \in {"lock", "exit"}
  BY <1>1, Known DEF Elsewhere
<1>3. ChildOK(d)' /\ DriverOK(d)'
  BY <1>1, <1>2, Known DEF ChildOK, DriverOK
<1> QED BY <1>1, <1>2, <1>3, StepOffDisk

\* A run.py ends that wrote nothing, or is killed.
LEMMA GoneFiles ==
  ASSUME SweepAssumption, RunsApart, SweepInv, LockInv', FieldsOK', NEW d \in Drivers, child[d].on, Gone(d),
         UNCHANGED <<file, dir, results, at, nth, sweep, patch, attempt>>
  PROVE  SweepInv'
<1> PICK r \in Runs : RunOf(d) = r
  BY Known
<1>1. child' = [child EXCEPT ![d] = Idle]
  BY DEF Gone
<1>2. /\ child'[d] = Idle /\ at'[d] = at[d] /\ RunOf(d)' = r /\ Elsewhere(d)
      /\ at[d] \in {"sweeping", "resuming", "gone"}
  BY <1>1, Known DEF RunOf, Elsewhere
<1>3. ChildOK(d)'
  BY <1>2 DEF ChildOK, Idle
<1>4. DriverOK(d)'
  <2>1. In(r)' = In(r) /\ Latest(r)' = Latest(r) /\ \A f : Repairs(d, f)' = Repairs(d, f)
    BY <1>2, SameDisk DEF Repairs
  <2>2. {sweep[d], patch[d]} \subseteq DOMAIN file \cup {0} /\ attempt[d] \in 0..MaxAttempts
    BY Known DEF DriverOK
  <2>3. CASE at[d] = "resuming"
    <3>1. /\ sweep[d] \in In(r) /\ (child[d].file = 0 => Latest(r) = sweep[d] \/ Repairs(d, Latest(r)))
          /\ (child[d].file # 0 => Repairs(d, child[d].file))
      BY <2>3, Known DEF DriverOK
    <3>2. child[d].file # 0 => Latest(r) = child[d].file
      BY Known DEF ChildOK
    <3>3. Latest(r) = sweep[d] \/ Repairs(d, Latest(r))
      BY <3>1, <3>2
    <3>4. Latest(r)' = sweep'[d] \/ Repairs(d, Latest(r))'
      BY <2>1, <3>3 DEF Repairs
    <3> QED BY <1>2, <2>1, <2>2, <2>3, <3>1, <3>4 DEF DriverOK, Idle
  <2>4. CASE at[d] # "resuming"
    BY <1>2, <2>2, <2>4 DEF DriverOK
  <2> QED BY <2>3, <2>4
<1> QED BY <1>2, <1>3, <1>4, StepOffDisk

\* What cutting files short leaves of them.
LEMMA CutIs ==
  ASSUME DiskOK, NEW cut, CutShort(cut)
  PROVE  /\ DOMAIN file' = DOMAIN file /\ dir' = dir /\ file' \in Seq(Files)
         /\ \A f \in DOMAIN file : file'[f].run = file[f].run /\ file'[f].sims = file[f].sims
         /\ cut = {} => file' = file
         /\ \A f \in DOMAIN file : cut = {f} => file' = [file EXCEPT ![f] = [file[f] EXCEPT !.whole = FALSE]]
<1> DEFINE new(f) == [file[f] EXCEPT !.whole = file[f].whole /\ f \notin cut]
<1>1. file' = [f \in DOMAIN file |-> new(f)] /\ dir' = dir
  BY DEF CutShort
<1>2. ASSUME NEW f \in DOMAIN file
      PROVE  /\ new(f) \in Files /\ new(f).run = file[f].run /\ new(f).sims = file[f].sims
             /\ f \notin cut => new(f) = file[f]
             /\ f \in cut => new(f) = [file[f] EXCEPT !.whole = FALSE]
  <2>1. file[f] \in Files
    BY FileType
  <2>2. file[f].whole \in BOOLEAN
    BY FileType
  <2>3. (f \notin cut => (file[f].whole /\ f \notin cut) = file[f].whole) /\ (f \in cut => (file[f].whole /\ f \notin cut) = FALSE)
    BY <2>2
  <2>4. f \notin cut => new(f) = file[f]
    BY <2>1, <2>3 DEF Files
  <2>5. f \in cut => new(f) = [file[f] EXCEPT !.whole = FALSE]
    BY <2>3
  <2>6. [file[f] EXCEPT !.whole = FALSE] \in Files /\ [file[f] EXCEPT !.whole = FALSE].run = file[f].run
        /\ [file[f] EXCEPT !.whole = FALSE].sims = file[f].sims
    BY <2>1 DEF Files
  <2> HIDE DEF new
  <2> QED BY <2>1, <2>4, <2>5, <2>6
<1>3. file \in Seq(Files) /\ DOMAIN file = 1..Len(file) /\ Len(file) \in Nat /\ file = [f \in DOMAIN file |-> file[f]]
  BY DEF DiskOK
<1> HIDE DEF new
<1>4. DOMAIN file' = DOMAIN file /\ \A f \in DOMAIN file : file'[f] = new(f)
  BY <1>1
<1>5. file' \in Seq(Files)
  BY <1>1, <1>2, <1>3
<1>6. cut = {} => file' = file
  BY <1>1, <1>2, <1>3
<1>7. ASSUME NEW f \in DOMAIN file, cut = {f} PROVE file' = [file EXCEPT ![f] = [file[f] EXCEPT !.whole = FALSE]]
  <2> DEFINE rec == [file[f] EXCEPT !.whole = FALSE]
  <2>1. new(f) = rec /\ \A g \in DOMAIN file \ {f} : new(g) = file[g]
    BY <1>2, <1>7
  <2> HIDE DEF rec
  <2>2. file' = [file EXCEPT ![f] = rec]
    BY <1>1, <1>3, <2>1
  <2> QED BY <2>2 DEF rec
<1> QED BY <1>1, <1>2, <1>4, <1>5, <1>6, <1>7

LEMMA CrashFiles ==
  ASSUME SweepAssumption, RunsApart, SweepInv, LockInv', FieldsOK', Crash
  PROVE  SweepInv'
<1>1. /\ UNCHANGED <<results, nth, sweep, patch, attempt>> /\ child' = [d \in Drivers |-> Idle]
      /\ at' = [d \in Drivers |-> IF at[d] = "lock" THEN "lock" ELSE "gone"]
  BY DEF Crash, history
<1>0. /\ DOMAIN file' = DOMAIN file /\ dir' = dir /\ file' \in Seq(Files)
      /\ \A f \in DOMAIN file : file'[f].run = file[f].run /\ file'[f].sims = file[f].sims
  <2>1. PICK cut : CutShort(cut)
    BY DEF Crash
  <2> QED BY <2>1, CutIs DEF SweepInv
<1>2. \A d \in Drivers : /\ ~child'[d].on /\ child'[d].file = 0 /\ at'[d] \in {"lock", "gone"}
                         /\ sweep'[d] = sweep[d] /\ patch'[d] = patch[d] /\ attempt'[d] = attempt[d]
  BY <1>1 DEF Idle
<1>3. ASSUME NEW d \in Drivers PROVE ChildOK(d)' /\ DriverOK(d)'
  <2>1. {sweep[d], patch[d]} \subseteq DOMAIN file \cup {0} /\ attempt[d] \in 0..MaxAttempts
    BY Known DEF DriverOK
  <2> QED BY <1>0, <1>2, <2>1 DEF ChildOK, DriverOK
<1>4. DiskOK'
  BY <1>0 DEF SweepInv, DiskOK
<1>5. Kept'
  <2>1. results' = results /\ Kept /\ ToSet(dir) \subseteq DOMAIN file
    BY <1>1 DEF SweepInv, DiskOK, ToSet
  <2>2. \A r : In(r)' = In(r) /\ In(r) \subseteq DOMAIN file
    BY <1>0, <2>1 DEF In
  <2>3. \A f \in DOMAIN file : RewardsOf(f)' = RewardsOf(f)
    BY <1>0 DEF RewardsOf
  <2> QED BY <2>1, <2>2, <2>3 DEF Kept
<1> QED BY <1>3, <1>4, <1>5 DEF SweepInv

\* A file begun is its run's latest, and empty.
IsOpened(r, n) ==
  /\ DiskOK' /\ DOMAIN file' = DOMAIN file \cup {n} /\ n \notin DOMAIN file /\ n # 0
  /\ file'[n] = [run |-> r, sims |-> {}, whole |-> TRUE] /\ \A f \in DOMAIN file : file'[f] = file[f]
  /\ \A q \in Runs : /\ In(q) \subseteq DOMAIN file
                     /\ In(q)' = IF q = r THEN In(r) \cup {n} ELSE In(q)
                     /\ Latest(q)' = IF q = r THEN n ELSE Latest(q)
  /\ TasksOf(n)' = {} /\ RewardsOf(n)' = {}

LEMMA Opened ==
  ASSUME SweepAssumption, RunsApart, SweepInv, NEW r \in Runs, NEW n, n = Len(file) + 1,
         file' = Append(file, [run |-> r, sims |-> {}, whole |-> TRUE]), dir' = Append(dir, n)
  PROVE  IsOpened(r, n)
<1> DEFINE new == [run |-> r, sims |-> {}, whole |-> TRUE]
<1>1. file' = Append(file, new) /\ dir' = Append(dir, n)
  OBVIOUS
<1>3. /\ file \in Seq(Files) /\ Len(file) \in Nat /\ DOMAIN file = 1..Len(file) /\ new \in Files
      /\ \A f \in DOMAIN file : WellFormed(file[f].sims)
      /\ dir \in Seq(DOMAIN file) /\ IsInjective(dir)
  <2>1. new \in Files
    BY DEF Files
  <2> HIDE DEF new
  <2>2. DiskOK
    BY DEF SweepInv
  <2> QED BY <2>1, <2>2 DEF DiskOK
<1>4. WellFormed(new.sims)
  BY DEF WellFormed
<1> HIDE DEF new
<1>5. /\ file' \in Seq(Files) /\ DOMAIN file' = DOMAIN file \cup {n} /\ n \notin DOMAIN file /\ file'[n] = new
      /\ \A f \in DOMAIN file : file'[f] = file[f]
  <2>1. /\ file' \in Seq(Files) /\ Len(file') = Len(file) + 1 /\ file'[Len(file) + 1] = new
        /\ \A f \in 1..Len(file) : file'[f] = file[f]
    BY <1>1, <1>3
  <2>2. DOMAIN file' = 1..(Len(file) + 1)
    BY <2>1
  <2>3. \A k \in Nat : 1..(k + 1) = 1..k \cup {k + 1} /\ k + 1 \notin 1..k
    OBVIOUS
  <2> QED BY <1>3, <2>1, <2>2, <2>3
<1>6. ToSet(dir) \subseteq DOMAIN file /\ dir \in Seq(DOMAIN file')
  <2>1. \A i \in DOMAIN dir : dir[i] \in DOMAIN file
    BY <1>3
  <2>2. DOMAIN file \subseteq DOMAIN file'
    BY <1>5
  <2> QED BY <2>1, <2>2, <1>3, SeqMonotonic DEF ToSet
<1>7. /\ dir' \in Seq(DOMAIN file') /\ IsInjective(dir') /\ ToSet(dir') = ToSet(dir) \cup {n}
      /\ \A M : LastOf(dir', M) = IF n \in M THEN n ELSE LastOf(dir, M)
  <2>1. n \in DOMAIN file' /\ n \notin ToSet(dir)
    BY <1>5, <1>6
  <2> QED BY <1>1, <1>3, <1>6, <2>1, PutLast
<1>8. DiskOK'
  <2>1. \A f \in DOMAIN file' : WellFormed(file'[f].sims)
    BY <1>3, <1>4, <1>5
  <2> QED BY <1>5, <1>7, <2>1 DEF DiskOK
<1>9. \A q \in Runs : In(q)' = IF q = r THEN In(r) \cup {n} ELSE In(q)
  BY <1>5, <1>6, <1>7 DEF In, new
<1>10. \A q \in Runs : Latest(q)' = IF q = r THEN n ELSE Latest(q)
  <2> SUFFICES ASSUME NEW q \in Runs PROVE Latest(q)' = IF q = r THEN n ELSE Latest(q)
    OBVIOUS
  <2>1. Latest(q)' = LastOf(dir', In(q)') /\ Latest(q) = LastOf(dir, In(q))
    BY <1>8, LatestIsLast, LatestIsLastNext DEF SweepInv
  <2>2. n \in In(q)' <=> q = r
    BY <1>5, <1>6, <1>9 DEF In
  <2> QED BY <1>7, <1>9, <2>1, <2>2
<1>11. n # 0 /\ n \in In(r)' /\ Latest(r)' = n /\ file'[n].whole /\ TasksOf(n)' = {} /\ RewardsOf(n)' = {}
  <2>1. n \in DOMAIN file' /\ n # 0
    BY <1>3, <1>5
  <2>2. file'[n].whole /\ file'[n].sims = {}
    BY <1>5 DEF new
  <2> QED BY <1>9, <1>10, <2>1, <2>2 DEF TasksOf, RewardsOf, Rewarded
<1>12. \A q \in Runs : In(q) \subseteq DOMAIN file
  BY <1>6 DEF In
<1> QED BY <1>5, <1>8, <1>9, <1>10, <1>11, <1>12 DEF IsOpened, new

LEMMA OpensFiles ==
  ASSUME SweepAssumption, RunsApart, SweepInv, LockInv', FieldsOK', NEW d \in Drivers, Opens(d)
  PROVE  SweepInv'
<1> PICK r \in Runs : RunOf(d) = r
  BY Known
<1> PICK n : n = Len(file) + 1
  OBVIOUS
<1>1. /\ child[d].on /\ child[d].file = 0 /\ file' = Append(file, [run |-> r, sims |-> {}, whole |-> TRUE]) /\ dir' = Append(dir, n)
      /\ child' = [child EXCEPT ![d].file = n] /\ UNCHANGED <<at, nth, sweep, patch, attempt, results>>
  BY DEF Opens, driver, history
<1>2. /\ child'[d].on /\ child'[d].file = n /\ child'[d].todo = child[d].todo /\ RunOf(d)' = r /\ Writes(d, r)
      /\ Elsewhere(d) /\ at[d] \in {"sweeping", "resuming", "gone"}
  BY <1>1, Known DEF RunOf, Writes, Elsewhere
<1>3. IsOpened(r, n)
  BY <1>1, Opened
<1>5. /\ DOMAIN file' = DOMAIN file \cup {n} /\ n \notin DOMAIN file
      /\ file'[n].whole /\ file'[n].sims = {} /\ \A f \in DOMAIN file : file'[f] = file[f]
  BY <1>3 DEF IsOpened
<1>6. \A q \in Runs : In(q) \subseteq DOMAIN file
  BY <1>3 DEF IsOpened
<1>8. DiskOK'
  BY <1>3 DEF IsOpened
<1>9. \A q \in Runs : In(q)' = IF q = r THEN In(r) \cup {n} ELSE In(q)
  BY <1>3 DEF IsOpened
<1>10. \A q \in Runs : Latest(q)' = IF q = r THEN n ELSE Latest(q)
  BY <1>3 DEF IsOpened
<1>11. n # 0 /\ n \in In(r)' /\ Latest(r)' = n /\ TasksOf(n)' = {} /\ RewardsOf(n)' = {}
  BY <1>3, <1>9, <1>10 DEF IsOpened
<1>12. ChildOK(d)'
  <2>1. \A s \in file'[n].sims : s.trial = "raw"
    BY <1>5
  <2> QED BY <1>2, <1>5, <1>11, <2>1 DEF ChildOK
<1>13. DriverOK(d)'
  <2>1. {sweep[d], patch[d]} \subseteq DOMAIN file' \cup {0} /\ attempt[d] \in 0..MaxAttempts
    BY <1>5, Known DEF DriverOK
  <2>2. CASE at[d] = "resuming"
    <3>1. sweep[d] \in In(r) /\ child[d].todo \subseteq Missing(sweep[d])
      BY <1>1, <2>2, Known DEF DriverOK
    <3>2. sweep[d] \in DOMAIN file /\ sweep[d] # n /\ sweep[d] \in In(r)'
      BY <1>5, <1>9, <3>1, Known
    <3>3. Missing(sweep[d])' = Missing(sweep[d])
      BY <1>1, <1>5, <3>2 DEF Missing
    <3>4. Repairs(d, n)'
      BY <1>1, <1>2, <1>11, <3>2 DEF Repairs
    <3>5. child'[d].todo \subseteq Missing(sweep[d])' /\ Repairs(d, child[d].file)'
      BY <1>1, <1>2, <3>1, <3>3, <3>4
    <3>6. child'[d].file # 0 /\ at'[d] = "resuming" /\ sweep'[d] = sweep[d] /\ patch'[d] = patch[d] /\ attempt'[d] = attempt[d]
      BY <1>1, <1>2, <1>11, <2>2
    <3> QED BY <1>2, <2>1, <3>2, <3>5, <3>6, <1>1 DEF DriverOK
  <2>3. CASE at[d] \in {"sweeping", "gone"}
    BY <1>1, <2>1, <2>3 DEF DriverOK
  <2> QED BY <1>2, <2>2, <2>3
<1>14. Kept'
  <2> SUFFICES ASSUME NEW p \in results PROVE p[1] \in Runs /\ \E f \in In(p[1])' : p[2] \in RewardsOf(f)'
    BY <1>1 DEF Kept
  <2>1. PICK f \in In(p[1]) : p[2] \in RewardsOf(f) /\ p[1] \in Runs
    BY DEF SweepInv, Kept
  <2>2. f \in DOMAIN file /\ f \in In(p[1])'
    BY <1>6, <1>9, <2>1
  <2> QED BY <1>5, <2>1, <2>2 DEF RewardsOf
<1>15. \A q \in Runs \ {r} : In(q)' = In(q) /\ Latest(q)' = Latest(q) /\ \A f \in In(q) : file'[f] = file[f]
  BY <1>5, <1>6, <1>9, <1>10
<1>16. DOMAIN file \subseteq DOMAIN file'
  BY <1>5
<1> QED BY <1>1, <1>2, <1>8, <1>12, <1>13, <1>14, <1>15, <1>16, StepOnDisk

\* The one file of the run written, f, is its latest and new.
Only(r, f, new) ==
  /\ In(r)' = In(r) /\ Latest(r)' = f /\ DOMAIN file' = DOMAIN file
  /\ file'[f] = new /\ \A g \in In(r) \ {f} : file'[g] = file[g]

\* What writing a file of the run comes to, for the whole.
LEMMA WritesFiles ==
  ASSUME SweepAssumption, RunsApart, SweepInv, LockInv', FieldsOK', NEW d \in Drivers, NEW r \in Runs, RunOf(d) = r,
         Writes(d, r), Elsewhere(d), UNCHANGED nth,
         NEW f \in In(r), NEW new \in Files, WellFormed(new.sims), new.run = r, file' = [file EXCEPT ![f] = new],
         dir' = Touched(f) \/ (dir' = dir /\ Latest(r) = f),
         Rewarded(file[f].sims) \subseteq Rewarded(new.sims),
         results' \subseteq results \cup {<<r, t>> : t \in Rewarded(new.sims)},
         Only(r, f, new) => ChildOK(d)' /\ DriverOK(d)'
  PROVE  SweepInv'
<1>1. DiskOK /\ f \in ToSet(dir) /\ file[f].run = r /\ f \in DOMAIN file
  BY Known DEF In
<1>2. /\ DiskOK' /\ ToSet(dir') = ToSet(dir) /\ DOMAIN file' = DOMAIN file
      /\ \A q \in Runs : In(q)' = In(q) /\ Latest(q)' = IF q = r THEN f ELSE Latest(q)
  BY <1>1, Written
<1>3. file'[f] = new /\ \A g \in DOMAIN file \ {f} : file'[g] = file[g]
  BY <1>1
<1>4. \A q \in Runs : In(q) \subseteq DOMAIN file
  BY <1>1, LatestIsIn
<1>5. ChildOK(d)' /\ DriverOK(d)'
  BY <1>2, <1>3, <1>4 DEF Only
<1>6. Kept'
  <2> SUFFICES ASSUME NEW p \in results' PROVE p[1] \in Runs /\ \E g \in In(p[1])' : p[2] \in RewardsOf(g)'
    BY DEF Kept
  <2>1. CASE p \in results
    <3>1. PICK g \in In(p[1]) : p[2] \in RewardsOf(g) /\ p[1] \in Runs
      BY <2>1 DEF SweepInv, Kept
    <3>2. g \in In(p[1])' /\ g \in DOMAIN file
      BY <1>2, <1>4, <3>1
    <3>3. RewardsOf(g) \subseteq RewardsOf(g)'
      BY <1>3, <3>2 DEF RewardsOf
    <3> QED BY <3>1, <3>2, <3>3
  <2>2. CASE p \notin results
    <3>1. PICK t \in Rewarded(new.sims) : p = <<r, t>>
      BY <2>2
    <3>2. f \in In(r)' /\ t \in RewardsOf(f)'
      BY <1>2, <1>3, <3>1 DEF RewardsOf
    <3> QED BY <3>1, <3>2
  <2> QED BY <2>1, <2>2
<1>7. \A q \in Runs \ {r} : In(q)' = In(q) /\ Latest(q)' = Latest(q) /\ \A g \in In(q) : file'[g] = file[g]
  BY <1>1, <1>2, <1>3, <1>4 DEF In
<1> QED BY <1>2, <1>5, <1>6, <1>7, StepOnDisk

LEMMA TaskEndsFiles ==
  ASSUME SweepAssumption, RunsApart, SweepInv, LockInv', FieldsOK', NEW d \in Drivers, NEW t \in Tasks,
         NEW reward \in BOOLEAN, TaskEnds(d, t, reward)
  PROVE  SweepInv'
<1> PICK r \in Runs : RunOf(d) = r
  BY Known
<1> PICK f : f = child[d].file
  OBVIOUS
<1> DEFINE x == [task |-> t, trial |-> "raw", reward |-> reward]
<1>1. /\ child[d].on /\ f # 0 /\ t \in child[d].todo /\ file' = [file EXCEPT ![f].sims = file[f].sims \cup {x}]
      /\ dir' = Touched(f) /\ child' = [child EXCEPT ![d].todo = child[d].todo \ {t}]
      /\ results' = IF reward THEN results \cup {<<r, t>>} ELSE results
      /\ UNCHANGED <<at, nth, sweep, patch, attempt>>
  BY DEF TaskEnds, driver
<1>2. /\ child'[d] = [child[d] EXCEPT !.todo = child[d].todo \ {t}] /\ Elsewhere(d) /\ RunOf(d)' = r
      /\ Writes(d, r) /\ at[d] \in {"sweeping", "resuming", "gone"}
  BY <1>1, Known DEF RunOf, Writes, Elsewhere
<1>3. /\ child'[d].on /\ child'[d].file = f /\ child'[d].todo = child[d].todo \ {t} /\ RunOf(d)' = r
      /\ at'[d] = at[d] /\ sweep'[d] = sweep[d] /\ patch'[d] = patch[d] /\ attempt'[d] = attempt[d]
  BY <1>1, <1>2, Known
<1>4. /\ f \in In(r) /\ Latest(r) = f /\ TasksOf(f) \cap child[d].todo = {}
      /\ \A s \in file[f].sims : s.trial = "raw"
  BY <1>1, Known DEF ChildOK
<1>5. f \in DOMAIN file /\ file[f].run = r /\ file[f] \in Files /\ WellFormed(file[f].sims)
  BY <1>4, Known, FileType DEF In
<1> DEFINE new == [file[f] EXCEPT !.sims = file[f].sims \cup {x}]
<1>6. new.run = r /\ new.sims = file[f].sims \cup {x}
  BY <1>4, <1>5 DEF Files
<1>7. x \in Simulations /\ x.task = t /\ x.trial = "raw" /\ (x.reward <=> reward)
  BY DEF Simulations, Trials
<1> HIDE DEF x
<1>8. new \in Files
  BY <1>5, <1>7 DEF Files, WellFormed
<1>9. WellFormed(new.sims)
  <2>1. \A s \in file[f].sims : s.task # t
    BY <1>1, <1>4 DEF TasksOf
  <2> QED BY <1>4, <1>5, <1>6, <1>7, <2>1 DEF WellFormed
<1>10. file' = [file EXCEPT ![f] = new]
  BY <1>1, <1>5
<1>11. Rewarded(file[f].sims) \subseteq Rewarded(new.sims) /\ (reward => t \in Rewarded(new.sims))
  BY <1>6, <1>7 DEF Rewarded
<1> HIDE DEF new
<1>12. results' \subseteq results \cup {<<r, q>> : q \in Rewarded(new.sims)}
  BY <1>1, <1>11
<1>13. ASSUME Only(r, f, new)
       PROVE  ChildOK(d)' /\ DriverOK(d)'
  <2>1. TasksOf(f)' = TasksOf(f) \cup {t} /\ \A s \in file'[f].sims : s.trial = "raw"
    BY <1>4, <1>6, <1>7, <1>13 DEF TasksOf, Only
  <2>2. ChildOK(d)'
    BY <1>3, <1>4, <1>5, <1>6, <1>13, <2>1 DEF ChildOK, Only
  <2>3. {sweep'[d], patch'[d]} \subseteq DOMAIN file' \cup {0} /\ attempt'[d] \in 0..MaxAttempts
    BY <1>3, <1>13, Known DEF DriverOK, Only
  <2>4. CASE at[d] = "resuming"
    <3>1. sweep[d] \in In(r) /\ child[d].todo \subseteq Missing(sweep[d]) /\ Repairs(d, f)
      BY <1>1, <2>4, Known DEF DriverOK
    <3>2. sweep[d] # f /\ Missing(sweep[d])' = Missing(sweep[d])
      BY <1>1, <1>13, <3>1 DEF Repairs, Missing, Only
    <3>3. Repairs(d, f)'
      BY <1>1, <1>2, <1>13, <2>1, <3>1, <3>2 DEF Repairs, Only
    <3>4. child'[d].todo \subseteq Missing(sweep[d])'
      BY <1>3, <3>1, <3>2
    <3>5. /\ at'[d] = "resuming" /\ RunOf(d)' = r /\ sweep'[d] \in In(r)' /\ child'[d].on /\ child'[d].file = f /\ f # 0
          /\ child'[d].todo \subseteq Missing(sweep[d])'
      BY <1>1, <1>3, <1>13, <2>4, <3>1, <3>4 DEF Only
    <3> QED BY <2>2, <2>3, <3>3, <3>5 DEF DriverOK
  <2>5. CASE at[d] # "resuming"
    <3>1. at'[d] \in {"sweeping", "gone"}
      BY <1>2, <1>3, <2>5
    <3> QED BY <2>2, <2>3, <3>1 DEF DriverOK
  <2> QED BY <2>2, <2>4, <2>5
<1> QED BY <1>1, <1>2, <1>4, <1>6, <1>8, <1>9, <1>10, <1>11, <1>12, <1>13, WritesFiles

\* A run.py ends as it writes its file, or is killed so that it is cut short: what the
\* file has is the same, but for the number.
LEMMA GoneWritesFiles ==
  ASSUME SweepAssumption, RunsApart, SweepInv, LockInv', FieldsOK', NEW d \in Drivers, child[d].on, Gone(d),
         UNCHANGED <<results, at, nth, sweep, patch, attempt>>, NEW r \in Runs, RunOf(d) = r,
         NEW f, f = child[d].file, f # 0, NEW new \in Files, WellFormed(new.sims), new.run = r,
         Task(new.sims) = Task(file[f].sims), Rewarded(new.sims) = Rewarded(file[f].sims),
         file' = [file EXCEPT ![f] = new], dir' = Touched(f) \/ dir' = dir
  PROVE  SweepInv'
<1>1. /\ child'[d] = Idle /\ Elsewhere(d) /\ RunOf(d)' = r /\ Writes(d, r) /\ at[d] \in {"sweeping", "resuming", "gone"}
      /\ at'[d] = at[d] /\ sweep'[d] = sweep[d] /\ patch'[d] = patch[d] /\ attempt'[d] = attempt[d]
  BY Known DEF Gone, RunOf, Writes, Elsewhere
<1>2. f \in In(r) /\ Latest(r) = f
  BY Known DEF ChildOK
<1>3. ASSUME Only(r, f, new)
      PROVE  ChildOK(d)' /\ DriverOK(d)'
  <2>1. ChildOK(d)'
    BY <1>1 DEF ChildOK, Idle
  <2>2. {sweep'[d], patch'[d]} \subseteq DOMAIN file' \cup {0} /\ attempt'[d] \in 0..MaxAttempts
    BY <1>1, <1>3, Known DEF DriverOK, Only
  <2>3. CASE at[d] = "resuming"
    <3>1. sweep[d] \in In(r) /\ Repairs(d, f)
      BY <2>3, Known DEF DriverOK
    <3>2. sweep[d] # f /\ Missing(sweep[d])' = Missing(sweep[d])
      BY <1>3, <3>1 DEF Repairs, Missing, Only
    <3>3. TasksOf(f)' = TasksOf(f)
      BY <1>3 DEF TasksOf, Task, Only
    <3>4. Repairs(d, f)'
      BY <1>1, <1>3, <3>1, <3>2, <3>3 DEF Repairs, Only
    <3>5. Latest(r)' = sweep'[d] \/ Repairs(d, Latest(r))'
      BY <1>3, <3>4 DEF Repairs, Only
    <3>6. at'[d] = "resuming" /\ RunOf(d)' = r /\ sweep'[d] \in In(r)' /\ ~child'[d].on
      BY <1>1, <1>3, <2>3, <3>1 DEF Only, Idle
    <3> QED BY <2>1, <2>2, <3>5, <3>6 DEF DriverOK
  <2>4. CASE at[d] # "resuming"
    <3>1. at'[d] \in {"sweeping", "gone"}
      BY <1>1, <2>4
    <3> QED BY <2>1, <2>2, <3>1 DEF DriverOK
  <2> QED BY <2>1, <2>3, <2>4
<1>4. results' \subseteq results \cup {<<r, q>> : q \in Rewarded(new.sims)}
  OBVIOUS
<1> QED BY <1>1, <1>2, <1>3, <1>4, WritesFiles

LEMMA EndsFiles ==
  ASSUME SweepAssumption, RunsApart, SweepInv, LockInv', FieldsOK', NEW d \in Drivers, Ends(d)
  PROVE  SweepInv'
<1> PICK r \in Runs : RunOf(d) = r
  BY Known
<1> PICK f : f = child[d].file
  OBVIOUS
<1>1. child[d].on /\ Gone(d) /\ UNCHANGED <<at, nth, sweep, patch, attempt, results>>
  BY DEF Ends, driver, history
<1>2. CASE f = 0
  <2>1. UNCHANGED <<file, dir>>
    BY <1>2 DEF Ends, disk
  <2> QED BY <1>1, <2>1, GoneFiles
<1>3. CASE f # 0
  <2>1. /\ file' = [file EXCEPT ![f].sims = Numbered(r, file[f].sims)]
        /\ dir' = IF r = 1 THEN dir ELSE Touched(f)
    BY <1>3 DEF Ends
  <2>2. f \in In(r)
    BY <1>1, <1>3, Known DEF ChildOK
  <2>3. f \in DOMAIN file /\ file[f].run = r /\ file[f] \in Files /\ WellFormed(file[f].sims)
    BY <2>2, Known, FileType DEF In
  <2> DEFINE sims == Numbered(r, file[f].sims)
             new == [file[f] EXCEPT !.sims = sims]
  <2>4. WellFormed(sims) /\ Task(sims) = Task(file[f].sims) /\ Rewarded(sims) = Rewarded(file[f].sims)
    BY <2>3, NumberedIs
  <2> HIDE DEF sims
  <2>5. new.run = r /\ new.sims = sims /\ new \in Files
    BY <2>3, <2>4 DEF Files, WellFormed
  <2>6. file' = [file EXCEPT ![f] = new]
    BY <2>1, <2>3 DEF sims
  <2> HIDE DEF new
  <2>7. dir' = Touched(f) \/ dir' = dir
    BY <2>1
  <2>8. WellFormed(new.sims) /\ Rewarded(new.sims) = Rewarded(file[f].sims)
    BY <2>4, <2>5
  <2>9. Task(new.sims) = Task(file[f].sims)
    BY <2>4, <2>5
  <2> QED BY <1>1, <1>3, <2>5, <2>6, <2>7, <2>8, <2>9, GoneWritesFiles
<1> QED BY <1>2, <1>3

\* A run.py killed leaves its file as it was, or cut short.
LEMMA KillRunFiles ==
  ASSUME SweepAssumption, RunsApart, SweepInv, LockInv', FieldsOK', NEW d \in Drivers, KillRun(d)
  PROVE  SweepInv'
<1> PICK r \in Runs : RunOf(d) = r
  BY Known
<1> PICK f : f = child[d].file
  OBVIOUS
<1>1. child[d].on /\ Gone(d) /\ UNCHANGED <<at, nth, sweep, patch, attempt, results>>
  BY DEF KillRun, driver, history
<1>2. PICK cut \in SUBSET Writing(d) : CutShort(cut)
  BY DEF KillRun
<1>3. DiskOK
  BY DEF SweepInv
<1>4. CASE cut = {}
  <2>1. UNCHANGED <<file, dir>>
    BY <1>2, <1>3, <1>4, CutIs
  <2> QED BY <1>1, <2>1, GoneFiles
<1>5. CASE cut # {}
  <2>1. cut = {f} /\ f # 0
    BY <1>1, <1>2, <1>5 DEF Writing
  <2>2. f \in In(r)
    BY <1>1, <2>1, Known DEF ChildOK
  <2>3. f \in DOMAIN file /\ file[f].run = r /\ file[f] \in Files /\ WellFormed(file[f].sims)
    BY <2>2, Known, FileType DEF In
  <2> DEFINE new == [file[f] EXCEPT !.whole = FALSE]
  <2>4. new.run = r /\ new.sims = file[f].sims /\ new \in Files
    BY <2>3 DEF Files
  <2>5. file' = [file EXCEPT ![f] = new] /\ dir' = dir
    BY <1>2, <1>3, <2>1, <2>3, CutIs
  <2> HIDE DEF new
  <2> QED BY <1>1, <2>1, <2>3, <2>4, <2>5, GoneWritesFiles
<1> QED BY <1>4, <1>5

\* A re-run is folded into a file of its own run; one that merge.py refuses, cut short or
\* meant for a file cut short, stays where it is.
LEMMA MergeFiles ==
  ASSUME SweepAssumption, RunsApart, SweepInv, LockInv', FieldsOK', NEW d \in Drivers, Merge(d)
  PROVE  SweepInv'
<1> PICK r \in Runs : RunOf(d) = r
  BY Known
<1> PICK s : s = sweep[d]
  OBVIOUS
<1>1. at[d] = "patched" /\ ~child[d].on /\ child[d].file = 0 /\ UNCHANGED <<nth, sweep, patch, attempt, child, results>>
  BY Known DEF Merge, ChildOK, history
<1>2. Writes(d, r) /\ RunOf(d)' = r
  BY <1>1 DEF RunOf, Writes
<1>3. s \in In(r) /\ Repairs(d, patch[d]) /\ Latest(r) = patch[d]
  BY <1>1, <1>2, Known DEF DriverOK
<1>4. file[patch[d]].run = r /\ file[s].run = r
  BY <1>3 DEF Repairs, In
<1>5. CASE at' = [at EXCEPT ![d] = "count"] /\ UNCHANGED <<file, dir>>
  <2>1. at'[d] = "count" /\ Elsewhere(d)
    BY <1>1, <1>5, Known DEF Elsewhere
  <2>2. ChildOK(d)'
    BY <1>1, <1>5, Known, SameDisk DEF ChildOK
  <2>3. DriverOK(d)'
    <3>1. {s, patch[d]} \subseteq DOMAIN file \cup {0} /\ attempt[d] \in 0..MaxAttempts
      BY Known DEF DriverOK
    <3>2. Repairs(d, Latest(r))' /\ In(r)' = In(r)
      BY <1>1, <1>2, <1>3, <1>5, SameDisk DEF Repairs
    <3> QED BY <1>1, <1>2, <1>3, <1>5, <2>1, <3>1, <3>2 DEF DriverOK
  <2> QED BY <1>1, <1>5, <2>1, <2>2, <2>3, StepOffDisk
<1>6. CASE at' = [at EXCEPT ![d] = "merging"] /\ file' = [file EXCEPT ![s].whole = FALSE] /\ dir' = Touched(s)
  <2>1. at'[d] = "merging" /\ Elsewhere(d)
    BY <1>1, <1>6, Known DEF Elsewhere
  <2>2. s \in DOMAIN file /\ file[s] \in Files /\ WellFormed(file[s].sims)
    BY <1>3, Known, FileType
  <2> DEFINE new == [file[s] EXCEPT !.whole = FALSE]
  <2>3. new.run = r /\ new.sims = file[s].sims /\ new \in Files /\ file' = [file EXCEPT ![s] = new]
    BY <1>4, <1>6, <2>2 DEF Files
  <2> HIDE DEF new
  <2>4. ASSUME Only(r, s, new)
        PROVE  ChildOK(d)' /\ DriverOK(d)'
    <3>1. ChildOK(d)'
      BY <1>1, <2>4, Known DEF ChildOK, Only
    <3>2. Missing(s)' = Missing(s) /\ TasksOf(patch[d])' = TasksOf(patch[d])
      BY <1>1, <1>3, <2>3, <2>4 DEF Missing, TasksOf, Repairs, Only
    <3>3. Repairs(d, patch[d])'
      BY <1>1, <1>2, <1>3, <2>4, <3>2 DEF Repairs, Only
    <3>4. {sweep[d], patch[d]} \subseteq DOMAIN file' \cup {0} /\ attempt[d] \in 0..MaxAttempts
      BY <2>4, Known DEF DriverOK, Only
    <3> QED BY <1>1, <1>2, <1>3, <2>1, <2>4, <3>1, <3>3, <3>4 DEF DriverOK, Only
  <2>5. results' \subseteq results \cup {<<r, q>> : q \in Rewarded(new.sims)} /\ Rewarded(file[s].sims) \subseteq Rewarded(new.sims)
    BY <1>1, <2>3
  <2>6. WellFormed(new.sims)
    BY <2>2, <2>3
  <2> QED BY <1>1, <1>2, <1>3, <1>6, <2>1, <2>3, <2>4, <2>5, <2>6, WritesFiles
<1> QED BY <1>5, <1>6 DEF Merge, Goes, disk

LEMMA MergeWritesFiles ==
  ASSUME SweepAssumption, RunsApart, SweepInv, LockInv', FieldsOK', NEW d \in Drivers, MergeWrites(d)
  PROVE  SweepInv'
<1> PICK r \in Runs : RunOf(d) = r
  BY Known
<1> PICK s : s = sweep[d]
  OBVIOUS
<1> PICK p : p = patch[d]
  OBVIOUS
<1> DEFINE sims == Merged(file[s].sims, file[p].sims)
           new == [file[s] EXCEPT !.whole = TRUE, !.sims = sims]
<1>1. /\ at[d] = "merging" /\ ~child[d].on /\ UNCHANGED <<nth, sweep, patch, attempt, child, results>>
      /\ at' = [at EXCEPT ![d] = "merged"] /\ file' = [file EXCEPT ![s] = new] /\ dir' = Touched(s)
  <2>1. /\ at[d] = "merging" /\ UNCHANGED <<nth, sweep, patch, attempt, child, results>>
        /\ at' = [at EXCEPT ![d] = "merged"] /\ dir' = Touched(s)
    BY DEF MergeWrites, Goes, history
  <2>2. file' = [file EXCEPT ![s] = new]
    BY DEF MergeWrites
  <2>3. ~child[d].on
    BY <2>1, Known
  <2> QED BY <2>1, <2>2, <2>3
<1>2. Writes(d, r) /\ RunOf(d)' = r /\ at'[d] = "merged" /\ Elsewhere(d)
  BY <1>1, Known DEF RunOf, Writes, Elsewhere
<1>3. s \in In(r) /\ Latest(r) = s /\ Repairs(d, p)
  BY <1>1, Known DEF DriverOK
<1>4. p \in In(r) /\ p # s /\ TasksOf(p) \subseteq Missing(s)
  BY <1>3 DEF Repairs
<1>5. /\ s \in DOMAIN file /\ file[s] \in Files /\ WellFormed(file[s].sims) /\ file[s].run = r
      /\ p \in DOMAIN file /\ WellFormed(file[p].sims)
  BY <1>3, <1>4, Known, FileType DEF In
<1>6. Task(file[p].sims) \cap Rewarded(file[s].sims) = {}
  BY <1>4 DEF TasksOf, Task, Missing
<1>7. WellFormed(sims) /\ Rewarded(file[s].sims) \cup Rewarded(file[p].sims) \subseteq Rewarded(sims)
  BY <1>5, <1>6, MergedIs
<1> HIDE DEF sims
<1>8. new.run = r /\ new.sims = sims /\ new.whole /\ new \in Files
  BY <1>5, <1>7 DEF Files, WellFormed
<1> HIDE DEF new
<1>9. ASSUME Only(r, s, new)
      PROVE  ChildOK(d)' /\ DriverOK(d)'
  <2>1. ChildOK(d)'
    BY <1>1, <1>9, Known DEF ChildOK, Only
  <2>2. RewardsOf(p)' \subseteq RewardsOf(s)'
    BY <1>4, <1>7, <1>8, <1>9 DEF RewardsOf, Only
  <2>3. {sweep[d], patch[d]} \subseteq DOMAIN file' \cup {0} /\ attempt[d] \in 0..MaxAttempts
    BY <1>9, Known DEF DriverOK, Only
  <2>4. patch'[d] = p /\ sweep'[d] = s
    BY <1>1
  <2>5. RewardsOf(patch[d])' \subseteq RewardsOf(sweep[d])'
    BY <2>2, <2>4 DEF RewardsOf
  <2>6. patch'[d] \in In(r)' \ {sweep'[d]}
    BY <1>4, <1>9, <2>4 DEF Only
  <2> QED BY <1>1, <1>2, <1>3, <1>9, <2>1, <2>3, <2>4, <2>5, <2>6 DEF DriverOK, Only
<1>10. results' \subseteq results \cup {<<r, q>> : q \in Rewarded(new.sims)} /\ Rewarded(file[s].sims) \subseteq Rewarded(new.sims)
  BY <1>1, <1>7, <1>8
<1>11. WellFormed(new.sims)
  BY <1>7, <1>8
<1> QED BY <1>1, <1>2, <1>3, <1>8, <1>9, <1>10, <1>11, WritesFiles

\* What is moved aside is in the sweep's file by then.
LEMMA SupersedeFiles ==
  ASSUME SweepAssumption, RunsApart, SweepInv, LockInv', FieldsOK', NEW d \in Drivers, Supersede(d)
  PROVE  SweepInv'
<1> PICK r \in Runs : RunOf(d) = r
  BY Known
<1> PICK s : s = sweep[d]
  OBVIOUS
<1> PICK p : p = patch[d]
  OBVIOUS
<1>1. /\ at[d] = "merged" /\ ~child[d].on /\ UNCHANGED <<file, nth, sweep, patch, attempt, child, results>>
      /\ at' = [at EXCEPT ![d] = "count"] /\ dir' = RemoveFirst(dir, p)
  BY Known DEF Supersede, Goes, history
<1>2. Writes(d, r) /\ RunOf(d)' = r /\ at'[d] = "count" /\ Elsewhere(d)
  BY <1>1, Known DEF RunOf, Writes, Elsewhere
<1>3. s \in In(r) /\ Latest(r) = s /\ p \in In(r) \ {s} /\ RewardsOf(p) \subseteq RewardsOf(s)
  BY <1>1, Known DEF DriverOK
<1>4. p \in ToSet(dir) /\ file[p].run = r /\ DiskOK
  BY <1>3, Known DEF In
<1>5. /\ dir' \in Seq(DOMAIN file) /\ IsInjective(dir') /\ ToSet(dir') = ToSet(dir) \ {p}
      /\ \A M : p \notin M \/ LastOf(dir, M) # p => LastOf(dir', M) = LastOf(dir, M)
  BY <1>1, <1>4, TakenOut DEF DiskOK
<1>6. DiskOK'
  BY <1>1, <1>4, <1>5 DEF DiskOK
<1>7. \A q : In(q)' = In(q) \ {p}
  BY <1>1, <1>5 DEF In
<1>8. ASSUME NEW q \in Runs PROVE Latest(q)' = Latest(q)
  <2>1. Latest(q) = LastOf(dir, In(q)) /\ Latest(q)' = LastOf(dir', In(q)')
    BY <1>4, <1>6, LatestIsLast, LatestIsLastNext
  <2>2. LastOf(dir', In(q)') = LastOf(dir', In(q))
    <3>1. \A i \in 1..Len(dir') : dir'[i] \in In(q)' <=> dir'[i] \in In(q)
      <4>1. \A i \in 1..Len(dir') : dir'[i] \in ToSet(dir')
        BY <1>5 DEF ToSet
      <4> QED BY <1>5, <1>7, <4>1
    <3> QED BY <3>1 DEF LastOf
  <2>3. p \notin In(q) \/ LastOf(dir, In(q)) # p
    BY <1>3, <1>4, <2>1 DEF In
  <2> QED BY <1>5, <2>1, <2>2, <2>3
<1>9. ChildOK(d)'
  BY <1>1, Known DEF ChildOK
<1>10. DriverOK(d)'
  <2>1. {sweep[d], patch[d]} \subseteq DOMAIN file' \cup {0} /\ attempt[d] \in 0..MaxAttempts
    BY <1>1, Known DEF DriverOK
  <2> QED BY <1>1, <1>2, <1>3, <1>7, <1>8, <2>1 DEF DriverOK
<1>11. Kept'
  <2> SUFFICES ASSUME NEW x \in results PROVE x[1] \in Runs /\ \E g \in In(x[1])' : x[2] \in RewardsOf(g)'
    BY <1>1 DEF Kept
  <2>1. PICK g \in In(x[1]) : x[2] \in RewardsOf(g) /\ x[1] \in Runs
    BY DEF SweepInv, Kept
  <2>2. \A h : RewardsOf(h)' = RewardsOf(h)
    BY <1>1 DEF RewardsOf
  <2>3. CASE g = p
    <3>1. x[1] = r
      BY <1>4, <2>1, <2>3 DEF In
    <3> QED BY <1>3, <1>7, <2>1, <2>2, <2>3, <3>1
  <2>4. CASE g # p
    BY <1>7, <2>1, <2>2, <2>4
  <2> QED BY <2>3, <2>4
<1>12. \A q \in Runs \ {r} : In(q)' = In(q) /\ Latest(q)' = Latest(q) /\ \A f \in In(q) : file'[f] = file[f]
  <2>1. \A q \in Runs \ {r} : p \notin In(q)
    BY <1>4 DEF In
  <2> QED BY <1>1, <1>7, <1>8, <2>1
<1> QED BY <1>1, <1>2, <1>6, <1>9, <1>10, <1>11, <1>12, StepOnDisk

---------------------------------------------------------------------------
(* The fields of the drivers *)

Launched == [on : BOOLEAN, file : Nat, todo : SUBSET Tasks]

LEMMA Finite ==
  ASSUME SweepAssumption, DriverType, \A r \in Runs : IsFiniteSet(lock[r]), NEW d \in Drivers,
         \/ lock' = lock \/ lock' = [lock EXCEPT ![RunOf(d)] = {Bash(d)}]
         \/ lock' = Inherited(d) \/ lock' = Released(d) \/ Gone(d)
  PROVE  \A r \in Runs : IsFiniteSet(lock'[r])
<1> PICK q \in Runs : RunOf(d) = q
  BY RunOfIsRun
<1>1. IsFiniteSet(lock[q]) /\ DOMAIN lock = Runs
  BY DEF DriverType
<1>2. IsFiniteSet({Bash(d)}) /\ IsFiniteSet({Child(d)})
  BY FS_Singleton
<1>3. /\ IsFiniteSet(lock[q] \cup {Child(d)})
      /\ IsFiniteSet(lock[q] \ {Bash(d)}) /\ IsFiniteSet(lock[q] \ {Child(d)})
  BY <1>1, <1>2, FS_Union, FS_Difference
<1>4. \/ lock' = lock
      \/ \E held : IsFiniteSet(held) /\ lock' = [lock EXCEPT ![q] = held]
  BY <1>2, <1>3 DEF Inherited, Released, Gone
<1> QED BY <1>1, <1>4

LEMMA FieldsFollow ==
  ASSUME FieldsOK, \A r \in Runs : IsFiniteSet(lock'[r]), NEW d \in Drivers,
         child' = child \/ \E c \in Launched : child' = [child EXCEPT ![d] = c],
         sweep' = sweep \/ \E f \in Nat : sweep' = [sweep EXCEPT ![d] = f],
         patch' = patch \/ \E f \in Nat : patch' = [patch EXCEPT ![d] = f],
         attempt' = attempt \/ \E n \in Nat : attempt' = [attempt EXCEPT ![d] = n],
         done' \subseteq done \cup Runs
  PROVE  FieldsOK'
<1>1. child' \in [Drivers -> Launched]
  BY DEF FieldsOK, Launched
<1>2. sweep' \in [Drivers -> Nat] /\ patch' \in [Drivers -> Nat] /\ attempt' \in [Drivers -> Nat]
  BY DEF FieldsOK
<1>3. done' \subseteq Runs
  BY DEF FieldsOK
<1> QED BY <1>1, <1>2, <1>3 DEF FieldsOK, Launched

LEMMA StepFields ==
  ASSUME SweepAssumption, RunsApart, SweepInv, [Next]_vars
  PROVE  FieldsOK'
<1>0. FieldsOK /\ DriverType /\ \A r \in Runs : IsFiniteSet(lock[r])
  BY DEF SweepInv, LockInv, FieldsOK
<1>1. \A d \in Drivers : /\ Latest(RunOf(d)) \in Nat /\ attempt[d] \in Nat /\ child[d] \in Launched /\ Len(file) \in Nat
                         /\ RunOf(d) \in Runs
  <2> TAKE d \in Drivers
  <2>1. DOMAIN file \subseteq Nat
    BY FileType DEF SweepInv
  <2>2. Latest(RunOf(d)) \in Nat
    BY <2>1, Known
  <2>3. Len(file) \in Nat
    BY DEF SweepInv, DiskOK
  <2> QED BY <1>0, <2>2, <2>3, Known DEF FieldsOK, Launched
<1>2. Idle \in Launched
  BY DEF Idle, Launched
<1>3. \A todo \in SUBSET Tasks : [on |-> TRUE, file |-> 0, todo |-> todo] \in Launched
  BY DEF Launched
<1>4. \A f : Missing(f) \in SUBSET Tasks
  BY DEF Missing
<1>5. ASSUME NEW d \in Drivers, Drive(d) PROVE FieldsOK'
  <2>1. \A r \in Runs : IsFiniteSet(lock'[r])
    <3>1. \/ lock' = lock \/ lock' = [lock EXCEPT ![RunOf(d)] = {Bash(d)}]
          \/ lock' = Inherited(d) \/ lock' = Released(d)
      BY <1>5 DEF Drive, Hold, Look, Swept, Unreadable, Count, Resumed, Merge, MergeWrites, Supersede, LastCount, Exit, Launch
    <3> QED BY <1>0, <3>1, Finite
  <2>2. child' = child \/ \E c \in Launched : child' = [child EXCEPT ![d] = c]
    BY <1>3, <1>4, <1>5 DEF Drive, Hold, Look, Swept, Unreadable, Count, Resumed, Merge, MergeWrites, Supersede, LastCount, Exit, Launch
  <2>3. sweep' = sweep \/ \E f \in Nat : sweep' = [sweep EXCEPT ![d] = f]
    BY <1>1, <1>5 DEF Drive, Hold, Look, Found, Swept, Unreadable, Count, Resumed, Merge, MergeWrites, Supersede, LastCount, Exit
  <2>4. patch' = patch \/ \E f \in Nat : patch' = [patch EXCEPT ![d] = f]
    BY <1>1, <1>5 DEF Drive, Hold, Look, Swept, Unreadable, Count, Resumed, Merge, MergeWrites, Supersede, LastCount, Exit
  <2>5. attempt' = attempt \/ \E n \in Nat : attempt' = [attempt EXCEPT ![d] = n]
    <3>1. 0 \in Nat /\ attempt[d] + 1 \in Nat
      BY <1>1
    <3> QED BY <3>1, <1>5 DEF Drive, Hold, Look, Swept, Unreadable, Count, Resumed, Merge, MergeWrites, Supersede, LastCount, Exit
  <2>6. done' \subseteq done \cup Runs
    BY <1>1, <1>5 DEF Drive, Hold, Look, Swept, Unreadable, Count, Resumed, Merge, MergeWrites, Supersede, LastCount, Exit, history
  <2> QED BY <1>0, <2>1, <2>2, <2>3, <2>4, <2>5, <2>6, FieldsFollow
<1>6. ASSUME NEW d \in Drivers, KillDriver(d) \/ KillRun(d) \/ Ends(d) PROVE FieldsOK'
  <2>1. lock' = Released(d) \/ Gone(d)
    BY <1>6 DEF KillDriver, KillRun, Ends
  <2>2. child' = child \/ \E c \in Launched : child' = [child EXCEPT ![d] = c]
    BY <1>2, <1>6 DEF KillDriver, KillRun, Ends, Gone
  <2>3. UNCHANGED <<sweep, patch, attempt, done>>
    BY <1>6 DEF KillDriver, KillRun, Ends, driver, history
  <2>4. \A r \in Runs : IsFiniteSet(lock'[r])
    BY <1>0, <2>1, Finite
  <2> QED BY <1>0, <2>2, <2>3, <2>4, FieldsFollow
<1>7. ASSUME NEW d \in Drivers, Opens(d) \/ \E t \in Tasks, reward \in BOOLEAN : TaskEnds(d, t, reward) PROVE FieldsOK'
  <2>1. \E c \in Launched : child' = [child EXCEPT ![d] = c]
    <3>0. child[d] \in Launched /\ Len(file) + 1 \in Nat
      BY <1>1
    <3>1. \A c \in Launched : /\ \A n \in Nat : [c EXCEPT !.file = n] \in Launched
                             /\ \A t : [c EXCEPT !.todo = c.todo \ {t}] \in Launched
      BY DEF Launched
    <3> QED BY <1>7, <3>0, <3>1 DEF Opens, TaskEnds
  <2>2. UNCHANGED <<sweep, patch, attempt, lock, done>>
    BY <1>7 DEF Opens, TaskEnds, driver, history
  <2>3. \A r \in Runs : IsFiniteSet(lock'[r])
    BY <1>0, <2>2
  <2> QED BY <1>0, <2>1, <2>2, <2>3, FieldsFollow
<1>8. CASE Crash
  <2>1. child' = [d \in Drivers |-> Idle] /\ UNCHANGED <<sweep, patch, attempt, done>> /\ lock' = [r \in Runs |-> {}]
    BY <1>8 DEF Crash, history
  <2>2. child' \in [Drivers -> Launched] /\ \A r \in Runs : IsFiniteSet(lock'[r])
    BY <1>2, <2>1, FS_EmptySet
  <2> QED BY <1>0, <2>1, <2>2 DEF FieldsOK, Launched
<1>9. CASE UNCHANGED vars
  BY <1>0, <1>9 DEF FieldsOK, vars, driver, history
<1> QED BY <1>5, <1>6, <1>7, <1>8, <1>9 DEF Next

---------------------------------------------------------------------------
LEMMA InitSweep == ASSUME SweepAssumption, Init PROVE SweepInv
<1>1. LockInv
  BY InitLock
<1>2. FieldsOK
  <2>1. IsFiniteSet({})
    BY FS_EmptySet
  <2> QED BY <2>1 DEF Init, FieldsOK, Idle
<1>3. DiskOK
  BY DEF Init, DiskOK, IsInjective
<1>4. \A r : In(r) = {}
  BY DEF Init, In, ToSet
<1>5. Kept
  BY <1>4 DEF Init, Kept
<1>6. ASSUME NEW d \in Drivers PROVE ChildOK(d) /\ DriverOK(d)
  BY DEF Init, ChildOK, DriverOK, Idle, SweepAssumption
<1> QED BY <1>1, <1>2, <1>3, <1>5, <1>6 DEF SweepInv

LEMMA StepSweep ==
  ASSUME SweepAssumption, RunsApart, SweepInv, [Next]_vars
  PROVE  SweepInv'
<1>1. LockInv' /\ FieldsOK'
  BY StepLock, StepFields DEF SweepInv
<1>2. ASSUME NEW d \in Drivers, Drive(d) PROVE SweepInv'
  <2>1. CASE Unreadable(d) \/ Exit(d)
    <3>1. UNCHANGED <<file, dir, results, nth, sweep, patch, attempt, child>> /\ (Goes(d, "exit") \/ Goes(d, "gone"))
      BY <2>1 DEF Unreadable, Exit, disk, history
    <3> QED BY <1>1, <3>1, LeftFiles
  <2> QED BY <1>1, <1>2, <2>1, HoldFiles, LookFiles, SweptFiles, CountFiles, ResumedFiles, MergeFiles,
             MergeWritesFiles, SupersedeFiles, LastCountFiles DEF Drive
<1>3. ASSUME NEW d \in Drivers, KillDriver(d) PROVE SweepInv'
  <2>1. UNCHANGED <<file, dir, results, nth, sweep, patch, attempt, child>> /\ Goes(d, "gone")
    BY <1>3 DEF KillDriver, disk, history
  <2> QED BY <1>1, <2>1, LeftFiles
<1>4. ASSUME NEW d \in Drivers, KillRun(d) PROVE SweepInv'
  BY <1>1, <1>4, KillRunFiles
<1>5. ASSUME NEW d \in Drivers, Opens(d) \/ Ends(d) PROVE SweepInv'
  BY <1>1, <1>5, OpensFiles, EndsFiles
<1>6. ASSUME NEW d \in Drivers, NEW t \in Tasks, NEW reward \in BOOLEAN, TaskEnds(d, t, reward) PROVE SweepInv'
  BY <1>1, <1>6, TaskEndsFiles
<1>7. CASE Crash
  BY <1>1, <1>7, CrashFiles
<1>8. CASE UNCHANGED vars
  <2>1. UNCHANGED <<file, dir, results, at, nth, sweep, patch, attempt, child>>
    BY <1>8 DEF vars, disk, driver, history
  <2>2. DiskOK' /\ Kept'
    <3>1. DiskOK /\ Kept
      BY DEF SweepInv
    <3>2. DiskOK'
      BY <2>1, <3>1 DEF DiskOK
    <3>3. Kept'
      BY <2>1, <3>1, SameDisk DEF Kept
    <3> QED BY <3>2, <3>3
  <2>3. ASSUME NEW d \in Drivers PROVE ChildOK(d)' /\ DriverOK(d)'
    <3>1. ChildOK(d)'
      BY <2>1, Known, SameDisk DEF ChildOK, RunOf
    <3>2. DriverOK(d)'
      <4> PICK r \in Runs : RunOf(d) = r
        BY Known
      <4>1. RunOf(d)' = r /\ at'[d] = at[d] /\ child'[d] = child[d] /\ sweep'[d] = sweep[d] /\ patch'[d] = patch[d] /\ attempt'[d] = attempt[d]
        BY <2>1 DEF RunOf
      <4>2. /\ In(r)' = In(r) /\ Latest(r)' = Latest(r) /\ DOMAIN file' = DOMAIN file
            /\ Missing(sweep[d])' = Missing(sweep[d]) /\ RewardsOf(sweep[d])' = RewardsOf(sweep[d]) /\ RewardsOf(patch[d])' = RewardsOf(patch[d])
        BY <2>1, SameDisk
      <4>3. Repairs(d, patch[d])' = Repairs(d, patch[d]) /\ Repairs(d, child[d].file)' = Repairs(d, child[d].file)
            /\ Repairs(d, Latest(r))' = Repairs(d, Latest(r))
        BY <2>1, <4>2, SameDisk DEF Repairs, RunOf
      <4>4. DriverOK(d)
        BY Known
      <4> QED BY <4>1, <4>2, <4>3, <4>4 DEF DriverOK
    <3> QED BY <3>1, <3>2
  <2> QED BY <1>1, <2>2, <2>3 DEF SweepInv
<1> QED BY <1>2, <1>3, <1>4, <1>5, <1>6, <1>7, <1>8 DEF Next

\* Two drivers at work on a file would both be at work on its run.
LEMMA FilesFollow == ASSUME SweepAssumption, RunsApart, SweepInv PROVE OneWriter
<1>1. OneDriver
  BY OneDriverFollows DEF SweepInv
<1>2. ASSUME NEW d \in Drivers, NEW f \in WorksOn(d)
      PROVE  f \in In(RunOf(d)) /\ Writes(d, RunOf(d))
  <2>1. CASE f \in Writing(d)
    BY <2>1, Known DEF Writing, ChildOK, Writes
  <2>2. CASE at[d] \in {"count", "resuming", "patched", "merging", "merged", "last"} /\ f = sweep[d]
    BY <2>2, Known DEF DriverOK, Writes
  <2>3. CASE at[d] \in {"patched", "merging", "merged"} /\ f = patch[d]
    BY <2>3, Known DEF DriverOK, Repairs, Writes
  <2> QED BY <1>2, <2>1, <2>2, <2>3 DEF WorksOn
<1>3. ASSUME NEW d \in Drivers, NEW e \in Drivers, NEW f \in WorksOn(d) \cap WorksOn(e) PROVE d = e
  <2>1. RunOf(d) = RunOf(e) /\ RunOf(d) \in Runs
    BY <1>2, Known DEF In
  <2> QED BY <1>2, <2>1, OneAtATime DEF SweepInv
<1> QED BY <1>1, <1>3 DEF OneWriter

\* A file has one writer (hold_run, sweep.sh), whatever is killed, as long as no run is
\* looked up by a number another begins with: the lock is held for a run, and a driver
\* is at work on files of its own run alone, whoever began them.
THEOREM FilesHaveOneWriter == ASSUME RunsApart PROVE Spec => []OneWriter
<1>1. SweepAssumption => (Init => SweepInv)
  BY InitSweep
<1>2. SweepAssumption /\ RunsApart => (SweepInv /\ [Next]_vars => SweepInv')
  BY StepSweep
<1>3. SweepAssumption /\ RunsApart => (SweepInv => OneWriter)
  BY FilesFollow
<1> QED BY <1>1, <1>2, <1>3, SweepAssumption, PTL DEF Spec

LEMMA ResultsFollow == ASSUME SweepAssumption, SweepInv PROVE ResultsKept
<1>1. TypeOK
  <2>1. \A f \in DOMAIN file : file[f].run \in Runs /\ file[f].sims \subseteq Simulations /\ file[f].whole \in BOOLEAN
    BY FileType DEF SweepInv
  <2>2. IsInjective(dir) /\ ToSet(dir) \subseteq DOMAIN file
    BY DEF SweepInv, DiskOK, ToSet
  <2>3. at \in [Drivers -> {"lock", "look", "sweeping", "count", "resuming", "patched", "merging",
                            "merged", "last", "exit", "gone"}]
    BY DEF SweepInv, LockInv, DriverType, Places
  <2>4. ASSUME NEW d \in Drivers
        PROVE  /\ nth[d] \in DOMAIN Plan[d] /\ attempt[d] \in 0..MaxAttempts
               /\ {sweep[d], patch[d], child[d].file} \subseteq DOMAIN file \cup {0} /\ child[d].todo \subseteq Tasks
    <3>1. nth[d] \in DOMAIN Plan[d]
      BY DEF SweepInv, LockInv, DriverType, SweepAssumption
    <3>2. child[d].todo \subseteq Tasks
      BY DEF SweepInv, FieldsOK
    <3>3. child[d].file \in DOMAIN file \cup {0}
      BY DEF SweepInv, ChildOK
    <3>4. {sweep[d], patch[d]} \subseteq DOMAIN file \cup {0} /\ attempt[d] \in 0..MaxAttempts
      BY DEF SweepInv, DriverOK
    <3> QED BY <3>1, <3>2, <3>3, <3>4
  <2>5. (\A r \in Runs : IsFiniteSet(lock[r])) /\ done \subseteq Runs
    BY DEF SweepInv, FieldsOK
  <2> QED BY <2>1, <2>2, <2>3, <2>4, <2>5 DEF TypeOK
<1>2. OneSimulationPerTask
  BY FileType DEF SweepInv, OneSimulationPerTask, WellFormed
<1>3. NothingLost
  <2> SUFFICES ASSUME Readable, NEW p \in results PROVE Held(p)
    BY DEF NothingLost
  <2>1. PICK f \in In(p[1]) : p[2] \in RewardsOf(f)
    BY DEF SweepInv, Kept
  <2> QED BY <2>1 DEF Held, Readable, In, RewardsOf
<1> QED BY <1>1, <1>2, <1>3 DEF ResultsKept

\* What a sweep came to is kept (merge.py, sweep.sh), for any drivers, runs and tasks and
\* however they are killed, as long as no run is looked up by a number another begins
\* with: each task is in a file once, and a reward stays in the directory.
THEOREM SweepKeepsResults == ASSUME RunsApart PROVE Spec => []ResultsKept
<1>1. SweepAssumption => (Init => SweepInv)
  BY InitSweep
<1>2. SweepAssumption /\ RunsApart => (SweepInv /\ [Next]_vars => SweepInv')
  BY StepSweep
<1>3. SweepAssumption => (SweepInv => ResultsKept)
  BY ResultsFollow
<1> QED BY <1>1, <1>2, <1>3, SweepAssumption, PTL DEF Spec

---------------------------------------------------------------------------
(* With nothing killed *)

\* Whatever is rewarded in a file of the run, this one has.
Has(r, f) == \A g \in In(r) : RewardsOf(g) \subseteq RewardsOf(f)
But(r, f, s) == \A g \in In(r) \ {f} : RewardsOf(g) \subseteq RewardsOf(s)
\* Only this file of the run, 0 for none, may be cut short: the one a merge rewrites.
Uncut(r, f) == \A g \in In(r) \ {f} : file[g].whole

CalmAt(d) ==
  LET r == RunOf(d)
  IN  /\ child[d].on => at[d] \in {"sweeping", "resuming"}
      /\ Writes(d, r) => Uncut(r, IF at[d] = "merging" THEN sweep[d] ELSE 0)
      /\ at[d] \in {"look", "sweeping", "count", "last"} => Has(r, Latest(r))
      /\ at[d] \in {"count", "last"} => Latest(r) = sweep[d]
      /\ at[d] = "resuming" /\ child[d].on /\ child[d].file = 0 => Latest(r) = sweep[d]
      /\ at[d] = "resuming" => But(r, Latest(r), sweep[d])
      /\ at[d] \in {"patched", "merging"} => But(r, patch[d], sweep[d])
      /\ at[d] = "merged" => Has(r, sweep[d])

Calm ==
  /\ \A d \in Drivers : CalmAt(d)
  /\ \A r \in Runs : (\A d \in Drivers : ~Writes(d, r)) => Has(r, Latest(r)) /\ Uncut(r, 0)
  /\ again = {}

CalmInv == kills \in Nat /\ crashes \in Nat /\ (kills + crashes = 0 => Calm)

\* A run's files as they were.
AsItWas(r) ==
  /\ In(r)' = In(r) /\ Latest(r)' = Latest(r)
  /\ \A f \in In(r) : RewardsOf(f)' = RewardsOf(f) /\ file'[f].whole = file[f].whole

LEMMA StillSo ==
  ASSUME RunsApart, DiskOK, NEW r \in Runs, AsItWas(r)
  PROVE  /\ Has(r, Latest(r)) => Has(r, Latest(r))'
         /\ \A s \in In(r) : Has(r, s) => Has(r, s)'
         /\ \A s \in In(r) : \A f : But(r, f, s) => But(r, f, s)'
         /\ \A f : Uncut(r, f) => Uncut(r, f)'
<1>1. In(r)' = In(r) /\ Latest(r)' = Latest(r) /\ \A f \in In(r) : RewardsOf(f)' = RewardsOf(f) /\ file'[f].whole = file[f].whole
  BY DEF AsItWas
<1>2. In(r) # {} => Latest(r) \in In(r)
  BY LatestIsIn
<1>3. Has(r, Latest(r)) => Has(r, Latest(r))'
  <2>1. CASE In(r) = {}
    BY <1>1, <2>1 DEF Has
  <2>2. CASE In(r) # {}
    <3>1. RewardsOf(Latest(r))' = RewardsOf(Latest(r))
      <4>1. PICK l \in In(r) : l = Latest(r)
        BY <1>2, <2>2
      <4>2. RewardsOf(l)' = RewardsOf(l)
        BY <1>1
      <4> QED BY <1>1, <4>1, <4>2 DEF RewardsOf
    <3> QED BY <1>1, <3>1 DEF Has
  <2> QED BY <2>1, <2>2
<1>4. \A s \in In(r) : Has(r, s) => Has(r, s)'
  BY <1>1 DEF Has
<1>5. \A s \in In(r) : \A f : But(r, f, s) => But(r, f, s)'
  BY <1>1 DEF But
<1>6. \A f : Uncut(r, f) => Uncut(r, f)'
  BY <1>1 DEF Uncut
<1> QED BY <1>3, <1>4, <1>5, <1>6

\* The files of the run being as they were, what is known of its driver is known.
LEMMA StillAt ==
  ASSUME RunsApart, DiskOK, NEW e \in Drivers, NEW r \in Runs, RunOf(e) = r, RunOf(e)' = r, DriverOK(e), CalmAt(e),
         at'[e] = at[e], child'[e].on => child'[e] = child[e], sweep'[e] = sweep[e], patch'[e] = patch[e],
         Writes(e, r) => AsItWas(r)
  PROVE  CalmAt(e)'
<1>1. CASE ~Writes(e, r)
  <2>1. ~child'[e].on /\ at'[e] \in {"lock", "exit", "gone"}
    BY <1>1 DEF Writes
  <2> QED BY <2>1 DEF CalmAt, Writes
<1>2. CASE Writes(e, r)
  <2> PICK s : s = sweep[e]
    OBVIOUS
  <2> PICK p : p = patch[e]
    OBVIOUS
  <2> PICK l : l = Latest(r)
    OBVIOUS
  <2>1. Latest(r)' = l
    BY <1>2 DEF AsItWas
  <2>2. at[e] \in {"resuming", "patched", "merging", "merged"} => s \in In(r)
    BY DEF DriverOK
  <2>3. at[e] \in {"look", "sweeping", "count", "last"} => Has(r, Latest(r))'
    BY <1>2, StillSo DEF CalmAt
  <2>4. at[e] = "resuming" => But(r, l, s)'
    BY <1>2, <2>2, StillSo DEF CalmAt
  <2>5. at[e] \in {"patched", "merging"} => But(r, p, s)'
    BY <1>2, <2>2, StillSo DEF CalmAt
  <2>6. at[e] = "merged" => Has(r, s)'
    BY <1>2, <2>2, StillSo DEF CalmAt
  <2>7. /\ child[e].on => at[e] \in {"sweeping", "resuming"}
        /\ at[e] \in {"count", "last"} => l = s
        /\ at[e] = "resuming" /\ child[e].on /\ child[e].file = 0 => l = s
    BY DEF CalmAt
  <2> PICK c : c = IF at[e] = "merging" THEN s ELSE 0
    OBVIOUS
  <2>11. Uncut(r, c)'
    BY <1>2, StillSo DEF CalmAt
  <2>12. Uncut(r, IF at[e] = "merging" THEN sweep[e] ELSE 0)'
    BY <2>11 DEF Uncut
  <2>8. at[e] = "resuming" => But(r, Latest(r), sweep[e])'
    BY <2>1, <2>4 DEF But, RewardsOf
  <2>9. at[e] \in {"patched", "merging"} => But(r, patch[e], sweep[e])'
    BY <2>5 DEF But, RewardsOf
  <2>10. at[e] = "merged" => Has(r, sweep[e])'
    BY <2>6 DEF Has, RewardsOf
  <2> QED BY <2>1, <2>3, <2>7, <2>8, <2>9, <2>10, <2>12 DEF CalmAt
<1> QED BY <1>1, <1>2

\* A step of one driver, that changes no file or files of its run.
LEMMA StepCalm ==
  ASSUME SweepAssumption, RunsApart, SweepInv, Calm, NEW d \in Drivers, Elsewhere(d), NEW r \in Runs, RunOf(d) = r,
         \A q \in Runs \ {r} : AsItWas(q), AsItWas(r) \/ Writes(d, r), CalmAt(d)', again' = {},
         (\A e \in Drivers : ~Writes(e, r)') => Has(r, Latest(r))' /\ Uncut(r, 0)'
  PROVE  Calm'
<1>1. ASSUME NEW e \in Drivers PROVE CalmAt(e)'
  <2>1. CASE e = d
    BY <2>1
  <2>2. CASE e # d
    <3>1. PICK q \in Runs : RunOf(e) = q
      BY Known
    <3>2. DiskOK /\ DriverOK(e) /\ CalmAt(e)
      BY Known DEF Calm
    <3>3. /\ RunOf(e)' = q /\ at'[e] = at[e] /\ child'[e] = child[e] /\ sweep'[e] = sweep[e] /\ patch'[e] = patch[e]
      BY <2>2, <3>1 DEF Elsewhere, RunOf
    <3>4. Writes(e, q) => AsItWas(q)
      <4>1. CASE q = r
        <5>1. Writes(e, r) => ~Writes(d, r)
          BY <2>2, OneAtATime DEF SweepInv
        <5> QED BY <4>1, <5>1
      <4>2. CASE q # r
        BY <4>2
      <4> QED BY <4>1, <4>2
    <3> QED BY <3>1, <3>2, <3>3, <3>4, StillAt
  <2> QED BY <2>1, <2>2
<1>2. ASSUME NEW q \in Runs, \A e \in Drivers : ~Writes(e, q)' PROVE Has(q, Latest(q))' /\ Uncut(q, 0)'
  <2>1. CASE q = r
    BY <1>2, <2>1
  <2>2. CASE q # r
    <3>1. ~Writes(d, q)
      BY <2>2 DEF Writes
    <3>2. \A e \in Drivers \ {d} : ~Writes(e, q)
      BY <1>2 DEF Elsewhere, Writes, RunOf
    <3>3. Has(q, Latest(q)) /\ Uncut(q, 0)
      BY <3>1, <3>2 DEF Calm
    <3> QED BY <2>2, <3>3, StillSo DEF SweepInv
  <2> QED BY <2>1, <2>2
<1> QED BY <1>1, <1>2 DEF Calm

LEMMA OffDisk ==
  ASSUME UNCHANGED <<file, dir>> PROVE \A r : AsItWas(r)
  BY SameDisk DEF AsItWas

\* But in a merge, no file of a run that is driven is cut short.
LEMMA Clean ==
  ASSUME Calm, NEW d \in Drivers, NEW r \in Runs, RunOf(d) = r, Writes(d, r), at[d] # "merging"
  PROVE  Uncut(r, 0)
  BY DEF Calm, CalmAt

\* The files of the run left alone, by a driver that goes on with it or leaves it.
LEMMA StepCalmOffDisk ==
  ASSUME SweepAssumption, RunsApart, SweepInv, Calm, NEW d \in Drivers, Elsewhere(d), NEW r \in Runs, RunOf(d) = r,
         UNCHANGED <<file, dir, again>>, CalmAt(d)', at[d] # "merging",
         Writes(d, r)' \/ Has(r, Latest(r)) \/ at[d] = "exit"
  PROVE  Calm'
<1>1. AsItWas(r) /\ \A q \in Runs \ {r} : AsItWas(q)
  BY OffDisk
<1>2. ASSUME \A e \in Drivers : ~Writes(e, r)' PROVE Has(r, Latest(r))' /\ Uncut(r, 0)'
  <2>1. Has(r, Latest(r)) /\ Uncut(r, 0)
    <3>1. CASE ~Writes(d, r)
      <4>1. \A e \in Drivers : ~Writes(e, r)
        BY <1>2, <3>1 DEF Elsewhere, Writes, RunOf
      <4> QED BY <4>1 DEF Calm
    <3>2. CASE Writes(d, r)
      <4>1. at[d] = "exit" => ~child[d].on
        BY Known
      <4>2. Has(r, Latest(r))
        BY <1>2, <3>2, <4>1 DEF Writes
      <4> QED BY <3>2, <4>2, Clean
    <3> QED BY <3>1, <3>2
  <2> QED BY <1>1, <2>1, StillSo DEF SweepInv
<1> QED BY <1>1, <1>2, StepCalm DEF Calm

LEMMA SameCalm ==
  ASSUME UNCHANGED <<file, dir>>
  PROVE  \A r, f, s : (Has(r, f)' <=> Has(r, f)) /\ (But(r, f, s)' <=> But(r, f, s)) /\ Latest(r)' = Latest(r)
  BY SameDisk DEF Has, But

LEMMA SameUncut ==
  ASSUME UNCHANGED <<file, dir>>
  PROVE  \A r, f : Uncut(r, f)' <=> Uncut(r, f)
  BY SameDisk DEF Uncut

LEMMA HoldCalm ==
  ASSUME SweepAssumption, RunsApart, SweepInv, Calm, NEW d \in Drivers, Hold(d)
  PROVE  Calm'
<1> PICK r \in Runs : RunOf(d) = r
  BY Known
<1>1. /\ at[d] = "lock" /\ lock[r] = {} /\ at' = [at EXCEPT ![d] = "look"]
      /\ UNCHANGED <<file, dir, again, nth, sweep, patch, attempt, child>>
  BY DEF Hold, Goes, disk, history
<1>2. at'[d] = "look" /\ ~child'[d].on /\ Elsewhere(d) /\ RunOf(d)' = r
  BY <1>1, Known DEF Elsewhere, RunOf
<1>3. Has(r, Latest(r)) /\ Uncut(r, 0)
  <2>1. \A e \in Drivers : ~Writes(e, r)
    BY <1>1, WritersHold DEF SweepInv
  <2> QED BY <2>1 DEF Calm
<1>4. CalmAt(d)'
  <2> PICK l : l = Latest(r)
    OBVIOUS
  <2>1. Has(r, l)' /\ Latest(r)' = l
    BY <1>1, <1>3, SameCalm
  <2>0. Uncut(r, 0)'
    BY <1>1, <1>3, SameUncut
  <2> QED BY <1>2, <2>0, <2>1 DEF CalmAt, Has, RewardsOf, Uncut
<1> QED BY <1>1, <1>2, <1>3, <1>4, StepCalmOffDisk

LEMMA LookCalm ==
  ASSUME SweepAssumption, RunsApart, SweepInv, Calm, NEW d \in Drivers, Look(d)
  PROVE  Calm'
<1> PICK r \in Runs : RunOf(d) = r
  BY Known
<1> PICK l : l = Latest(r)
  OBVIOUS
<1>1. /\ at[d] = "look" /\ attempt' = [attempt EXCEPT ![d] = 0] /\ UNCHANGED <<file, dir, again, nth, patch>>
      /\ \/ /\ at' = [at EXCEPT ![d] = "sweeping"] /\ UNCHANGED sweep
            /\ child' = [child EXCEPT ![d] = [on |-> TRUE, file |-> 0, todo |-> Tasks]]
         \/ at' = [at EXCEPT ![d] = "count"] /\ sweep' = [sweep EXCEPT ![d] = l] /\ UNCHANGED child
  BY DEF Look, Found, Goes, Launch, disk, history
<1>2. /\ Elsewhere(d) /\ RunOf(d)' = r /\ at'[d] \in {"sweeping", "count"} /\ (child'[d].on => at'[d] = "sweeping")
      /\ at'[d] = "count" => sweep'[d] = l
  BY <1>1, Known DEF Elsewhere, RunOf
<1>3. Has(r, l) /\ Uncut(r, 0)
  BY <1>1, Clean DEF Calm, CalmAt, Writes
<1>4. CalmAt(d)'
  <2>1. Has(r, l)' /\ Latest(r)' = l
    BY <1>1, <1>3, SameCalm
  <2>0. Uncut(r, 0)'
    BY <1>1, <1>3, SameUncut
  <2> QED BY <1>2, <2>0, <2>1 DEF CalmAt, Has, RewardsOf, Uncut
<1> QED BY <1>1, <1>2, <1>3, <1>4, StepCalmOffDisk

\* A driver that stops with all it started ended, and the run's latest file having it all.
LEMMA StopsCalm ==
  ASSUME SweepAssumption, RunsApart, SweepInv, Calm, NEW d \in Drivers, NEW r \in Runs, RunOf(d) = r,
         ~child[d].on, UNCHANGED <<file, dir, again, child>>, Elsewhere(d), at'[d] \in {"lock", "exit", "gone"},
         at[d] # "merging", Has(r, Latest(r)) \/ at[d] = "exit"
  PROVE  Calm'
<1>1. CalmAt(d)'
  BY DEF CalmAt, Writes
<1> QED BY <1>1, StepCalmOffDisk

LEMMA SweptCalm ==
  ASSUME SweepAssumption, RunsApart, SweepInv, Calm, NEW d \in Drivers, Swept(d)
  PROVE  Calm'
<1> PICK r \in Runs : RunOf(d) = r
  BY Known
<1> PICK l : l = Latest(r)
  OBVIOUS
<1>1. /\ at[d] = "sweeping" /\ ~child[d].on /\ UNCHANGED <<file, dir, again, nth, patch, attempt, child>>
      /\ sweep' = [sweep EXCEPT ![d] = l] /\ at' = [at EXCEPT ![d] = IF sweep'[d] = 0 THEN "exit" ELSE "count"]
  BY DEF Swept, Goes, disk, history
<1>2. RunOf(d)' = r /\ Elsewhere(d) /\ at'[d] \in {"exit", "count"} /\ sweep'[d] = l
  BY <1>1, Known DEF RunOf, Elsewhere
<1>3. Has(r, l) /\ Uncut(r, 0)
  BY <1>1, Clean DEF Calm, CalmAt, Writes
<1>4. CalmAt(d)'
  <2>1. Has(r, l)' /\ Latest(r)' = l
    BY <1>1, <1>3, SameCalm
  <2>0. Uncut(r, 0)'
    BY <1>1, <1>3, SameUncut
  <2> QED BY <1>1, <1>2, <2>0, <2>1 DEF CalmAt, Has, RewardsOf, Uncut
<1> QED BY <1>1, <1>2, <1>3, <1>4, StepCalmOffDisk

LEMMA UnreadableCalm ==
  ASSUME SweepAssumption, RunsApart, SweepInv, Calm, NEW d \in Drivers, Unreadable(d)
  PROVE  Calm'
<1> PICK r \in Runs : RunOf(d) = r
  BY Known
<1>1. /\ at[d] \in {"count", "last"} /\ UNCHANGED <<file, dir, again, nth, sweep, patch, attempt, child>>
      /\ at' = [at EXCEPT ![d] = "exit"]
  BY DEF Unreadable, Goes, disk, history
<1>2. ~child[d].on /\ Elsewhere(d) /\ at'[d] = "exit"
  BY <1>1, Known DEF Elsewhere
<1>3. Has(r, Latest(r))
  BY <1>1 DEF Calm, CalmAt
<1> QED BY <1>1, <1>2, <1>3, StopsCalm

LEMMA CountCalm ==
  ASSUME SweepAssumption, RunsApart, SweepInv, Calm, NEW d \in Drivers, Count(d)
  PROVE  Calm'
<1> PICK r \in Runs : RunOf(d) = r
  BY Known
<1> PICK s : s = sweep[d]
  OBVIOUS
<1>1. /\ at[d] = "count" /\ UNCHANGED <<file, dir, again, nth, patch, sweep>>
      /\ \/ at' = [at EXCEPT ![d] = "last"] /\ UNCHANGED <<attempt, child>>
         \/ /\ at' = [at EXCEPT ![d] = "resuming"] /\ attempt' = [attempt EXCEPT ![d] = attempt[d] + 1]
            /\ child' = [child EXCEPT ![d] = [on |-> TRUE, file |-> 0, todo |-> Missing(s)]]
  BY DEF Count, Goes, Launch, disk, history
<1>2. /\ ~child[d].on /\ Elsewhere(d) /\ RunOf(d)' = r /\ sweep'[d] = s
      /\ at'[d] \in {"last", "resuming"} /\ (child'[d].on => at'[d] = "resuming")
  BY <1>1, Known DEF RunOf, Elsewhere
<1>3. Latest(r) = s /\ Has(r, s) /\ Uncut(r, 0)
  BY <1>1, Clean DEF Calm, CalmAt, Writes
<1>4. CalmAt(d)'
  <2>1. Has(r, s)' /\ Latest(r)' = s
    BY <1>1, <1>3, SameCalm
  <2>0. Uncut(r, 0)'
    BY <1>1, <1>3, SameUncut
  <2> QED BY <1>2, <2>0, <2>1 DEF CalmAt, Has, But, RewardsOf, Uncut
<1> QED BY <1>1, <1>2, <1>3, <1>4, StepCalmOffDisk

LEMMA ResumedCalm ==
  ASSUME SweepAssumption, RunsApart, SweepInv, Calm, NEW d \in Drivers, Resumed(d)
  PROVE  Calm'
<1> PICK r \in Runs : RunOf(d) = r
  BY Known
<1> PICK s : s = sweep[d]
  OBVIOUS
<1> PICK l : l = Latest(r)
  OBVIOUS
<1>1. /\ at[d] = "resuming" /\ ~child[d].on /\ UNCHANGED <<file, dir, again, nth, sweep, attempt, child>>
      /\ patch' = [patch EXCEPT ![d] = l] /\ at' = [at EXCEPT ![d] = IF patch'[d] = s THEN "last" ELSE "patched"]
  BY DEF Resumed, Goes, disk, history
<1>2. /\ RunOf(d)' = r /\ Elsewhere(d) /\ sweep'[d] = s /\ patch'[d] = l
      /\ at'[d] = IF l = s THEN "last" ELSE "patched"
  BY <1>1, Known DEF RunOf, Elsewhere
<1>3. But(r, l, s) /\ Uncut(r, 0)
  BY <1>1, Clean DEF Calm, CalmAt, Writes
<1>4. CalmAt(d)'
  <2>1. But(r, l, s)' /\ Latest(r)' = l
    BY <1>1, <1>3, SameCalm
  <2>0. Uncut(r, 0)'
    BY <1>1, <1>3, SameUncut
  <2>2. l = s => Has(r, l)'
    BY <2>1 DEF Has, But
  <2> QED BY <1>1, <1>2, <2>0, <2>1, <2>2 DEF CalmAt, Has, But, RewardsOf, Uncut
<1>5. Writes(d, r)'
  BY <1>2 DEF Writes
<1> QED BY <1>1, <1>2, <1>4, <1>5, StepCalmOffDisk

LEMMA LeavesCalm ==
  ASSUME SweepAssumption, RunsApart, SweepInv, Calm, NEW d \in Drivers, LastCount(d) \/ Exit(d)
  PROVE  Calm'
<1> PICK r \in Runs : RunOf(d) = r
  BY Known
<1>1. /\ at[d] \in {"last", "exit"} /\ UNCHANGED <<file, dir, again, sweep, patch, attempt, child>>
      /\ \/ at' = [at EXCEPT ![d] = "lock"] /\ nth' = [nth EXCEPT ![d] = nth[d] + 1]
         \/ \E p \in {"exit", "gone"} : at' = [at EXCEPT ![d] = p] /\ UNCHANGED nth
  BY DEF LastCount, Exit, Goes, disk, history
<1>2. ~child[d].on /\ Elsewhere(d) /\ at'[d] \in {"lock", "exit", "gone"}
  BY <1>1, Known DEF Elsewhere
<1>3. at[d] = "last" => Has(r, Latest(r))
  BY DEF Calm, CalmAt
<1> QED BY <1>1, <1>2, <1>3, StopsCalm

\* One file of the run is written: it is the latest, and the rewards of the others are theirs.
IsWritten(r, f, new) ==
  /\ f \in In(r) /\ new.run = r /\ file' = [file EXCEPT ![f] = new]
  /\ dir' = Touched(f) \/ (dir' = dir /\ Latest(r) = f)

NowWritten(r, f, new) ==
  /\ In(r)' = In(r) /\ Latest(r)' = f /\ \A q \in Runs \ {r} : AsItWas(q)
  /\ RewardsOf(f)' = Rewarded(new.sims) /\ file'[f].whole = new.whole
  /\ \A g \in In(r) \ {f} : RewardsOf(g)' = RewardsOf(g) /\ file'[g].whole = file[g].whole

LEMMA WrittenOver ==
  ASSUME RunsApart, DiskOK, DiskOK', NEW r \in Runs, NEW f, NEW new, IsWritten(r, f, new)
  PROVE  NowWritten(r, f, new)
<1> USE DEF IsWritten
<1>1. f \in ToSet(dir) /\ file[f].run = r /\ f \in DOMAIN file
  BY LatestIsIn DEF In
<1>2. file'[f] = new /\ \A g \in DOMAIN file \ {f} : file'[g] = file[g]
  BY <1>1
<1>3. new \in Files /\ WellFormed(new.sims)
  <2>1. file' \in Seq(Files) /\ DOMAIN file' = DOMAIN file
    BY DEF DiskOK
  <2>2. file'[f] \in Files /\ WellFormed(file'[f].sims)
    BY <1>1, <2>1 DEF DiskOK
  <2> QED BY <1>2, <2>2
<1>4. \A q \in Runs : In(q)' = In(q) /\ Latest(q)' = IF q = r THEN f ELSE Latest(q)
  BY <1>1, <1>3, Written
<1>5. /\ RewardsOf(f)' = Rewarded(new.sims) /\ file'[f].whole = new.whole
      /\ \A g \in DOMAIN file \ {f} : RewardsOf(g)' = RewardsOf(g) /\ file'[g].whole = file[g].whole
  BY <1>2 DEF RewardsOf
<1>6. \A q \in Runs : In(q) \subseteq DOMAIN file
  BY LatestIsIn
<1>7. \A q \in Runs \ {r} : f \notin In(q)
  BY <1>1 DEF In
<1> QED BY <1>4, <1>5, <1>6, <1>7 DEF AsItWas, NowWritten

LEMMA MergeCalm ==
  ASSUME SweepAssumption, RunsApart, SweepInv, SweepInv', Calm, NEW d \in Drivers, Merge(d)
  PROVE  Calm'
<1> PICK r \in Runs : RunOf(d) = r
  BY Known
<1> PICK s : s = sweep[d]
  OBVIOUS
<1> PICK p : p = patch[d]
  OBVIOUS
<1> PICK new : new = [file[s] EXCEPT !.whole = FALSE]
  OBVIOUS
<1>1. at[d] = "patched" /\ ~child[d].on /\ UNCHANGED <<nth, sweep, patch, attempt, child, again>>
  BY Known DEF Merge, history
<1>2. Writes(d, r) /\ RunOf(d)' = r
  BY <1>1 DEF RunOf, Writes
<1>3. s \in In(r) /\ p \in In(r) /\ \A f \in In(r) : file[f].whole
  <2>1. Uncut(r, 0)
    BY <1>1, <1>2, Clean
  <2> QED BY <1>1, <1>2, <2>1, Known DEF DriverOK, Repairs, Uncut
<1>4. file[p].run = r /\ file[s].run = r /\ file[p].whole /\ file[s].whole
  BY <1>3 DEF In
<1>5. at' = [at EXCEPT ![d] = "merging"] /\ file' = [file EXCEPT ![s].whole = FALSE] /\ dir' = Touched(s)
  BY <1>4 DEF Merge, Goes
<1>6. at'[d] = "merging" /\ Elsewhere(d) /\ Writes(d, r)'
  BY <1>1, <1>2, <1>5, Known DEF Elsewhere, Writes
<1>7. new.run = r /\ new.sims = file[s].sims /\ file' = [file EXCEPT ![s] = new]
  <2>1. file[s] \in Files /\ s \in DOMAIN file
    BY <1>3, Known, FileType
  <2> QED BY <1>4, <1>5, <2>1 DEF Files
<1>8. DiskOK /\ DiskOK'
  BY DEF SweepInv
<1>9. /\ In(r)' = In(r) /\ \A q \in Runs \ {r} : AsItWas(q)
      /\ RewardsOf(s)' = Rewarded(new.sims)
      /\ \A g \in In(r) \ {s} : RewardsOf(g)' = RewardsOf(g) /\ file'[g].whole = file[g].whole
  <2>1. IsWritten(r, s, new)
    BY <1>3, <1>5, <1>7 DEF IsWritten
  <2>2. NowWritten(r, s, new)
    BY <1>8, <2>1, WrittenOver
  <2> QED BY <2>2 DEF NowWritten
<1>10. \A g \in In(r) : RewardsOf(g)' = RewardsOf(g)
  BY <1>7, <1>9 DEF RewardsOf
<1>11. But(r, p, s)'
  <2>1. But(r, p, s)
    BY <1>1 DEF Calm, CalmAt
  <2> QED BY <1>3, <1>9, <1>10, <2>1 DEF But
<1>12. CalmAt(d)'
  <2>1. Uncut(r, s)'
    BY <1>3, <1>9 DEF Uncut
  <2> QED BY <1>1, <1>2, <1>6, <1>11, <2>1 DEF CalmAt, But, RewardsOf, Uncut
<1>13. again' = {}
  BY <1>1 DEF Calm
<1> QED BY <1>2, <1>6, <1>9, <1>12, <1>13, StepCalm

LEMMA MergeWritesCalm ==
  ASSUME SweepAssumption, RunsApart, SweepInv, SweepInv', Calm, NEW d \in Drivers, MergeWrites(d)
  PROVE  Calm'
<1> PICK r \in Runs : RunOf(d) = r
  BY Known
<1> PICK s : s = sweep[d]
  OBVIOUS
<1> PICK p : p = patch[d]
  OBVIOUS
<1> PICK new : new = [file[s] EXCEPT !.whole = TRUE, !.sims = Merged(file[s].sims, file[p].sims)]
  OBVIOUS
<1>1. /\ at[d] = "merging" /\ ~child[d].on /\ UNCHANGED <<nth, sweep, patch, attempt, child, again>>
      /\ at' = [at EXCEPT ![d] = "merged"] /\ file' = [file EXCEPT ![s] = new] /\ dir' = Touched(s)
  <2>1. /\ at[d] = "merging" /\ UNCHANGED <<nth, sweep, patch, attempt, child, again>>
        /\ at' = [at EXCEPT ![d] = "merged"] /\ dir' = Touched(s)
    BY DEF MergeWrites, Goes, history
  <2>2. file' = [file EXCEPT ![s] = new]
    BY DEF MergeWrites
  <2>3. ~child[d].on
    BY <2>1, Known
  <2> QED BY <2>1, <2>2, <2>3
<1>2. Writes(d, r) /\ RunOf(d)' = r /\ at'[d] = "merged" /\ Elsewhere(d) /\ Writes(d, r)' /\ sweep'[d] = s /\ patch'[d] = p
  BY <1>1, Known DEF RunOf, Writes, Elsewhere
<1>3. s \in In(r) /\ p \in In(r) /\ p # s /\ TasksOf(p) \subseteq Missing(s)
  BY <1>1, Known DEF DriverOK, Repairs
<1>4. /\ s \in DOMAIN file /\ file[s] \in Files /\ WellFormed(file[s].sims) /\ file[s].run = r
      /\ p \in DOMAIN file /\ WellFormed(file[p].sims)
  BY <1>3, Known, FileType DEF In
<1>5. new.run = r /\ new.sims = Merged(file[s].sims, file[p].sims) /\ new.whole
  BY <1>4 DEF Files
<1>6. DiskOK /\ DiskOK'
  BY DEF SweepInv
<1>7. /\ In(r)' = In(r) /\ \A q \in Runs \ {r} : AsItWas(q)
      /\ RewardsOf(s)' = Rewarded(new.sims) /\ file'[s].whole = new.whole
      /\ \A g \in In(r) \ {s} : RewardsOf(g)' = RewardsOf(g) /\ file'[g].whole = file[g].whole
  <2>1. IsWritten(r, s, new)
    BY <1>1, <1>3, <1>5 DEF IsWritten
  <2>2. NowWritten(r, s, new)
    BY <1>6, <2>1, WrittenOver
  <2> QED BY <2>2 DEF NowWritten
<1>8. RewardsOf(s) \cup RewardsOf(p) \subseteq Rewarded(new.sims)
  <2>1. Task(file[p].sims) \cap Rewarded(file[s].sims) = {}
    BY <1>3 DEF TasksOf, Task, Missing
  <2> QED BY <1>4, <1>5, <2>1, MergedIs DEF RewardsOf
<1>9. Has(r, s)'
  <2>1. \A g \in In(r) \ {p} : RewardsOf(g) \subseteq RewardsOf(s)
    BY <1>1 DEF Calm, CalmAt, But
  <2>2. \A g \in In(r) : RewardsOf(g)' \subseteq RewardsOf(s)'
    <3>1. ASSUME NEW g \in In(r) PROVE RewardsOf(g)' \subseteq RewardsOf(s)'
      <4>1. CASE g = s
        BY <4>1 DEF RewardsOf
      <4>2. CASE g # s
        BY <1>7, <1>8, <2>1, <4>2
      <4> QED BY <4>1, <4>2
    <3> QED BY <3>1
  <2> QED BY <1>7, <2>2 DEF Has
<1>10. CalmAt(d)'
  <2>1. Uncut(r, s)
    BY <1>1, <1>2 DEF Calm, CalmAt
  <2>2. Uncut(r, 0)'
    BY <1>5, <1>7, <2>1 DEF Uncut
  <2> QED BY <1>1, <1>2, <1>9, <2>2 DEF CalmAt, Has, RewardsOf, Uncut
<1>11. again' = {}
  BY <1>1 DEF Calm
<1> QED BY <1>2, <1>7, <1>10, <1>11, StepCalm

LEMMA SupersedeCalm ==
  ASSUME SweepAssumption, RunsApart, SweepInv, SweepInv', Calm, NEW d \in Drivers, Supersede(d)
  PROVE  Calm'
<1> PICK r \in Runs : RunOf(d) = r
  BY Known
<1> PICK s : s = sweep[d]
  OBVIOUS
<1> PICK p : p = patch[d]
  OBVIOUS
<1>1. /\ at[d] = "merged" /\ ~child[d].on /\ UNCHANGED <<file, nth, sweep, patch, attempt, child, again>>
      /\ at' = [at EXCEPT ![d] = "count"] /\ dir' = RemoveFirst(dir, p)
  BY Known DEF Supersede, Goes, history
<1>2. /\ Writes(d, r) /\ RunOf(d)' = r /\ at'[d] = "count" /\ Elsewhere(d) /\ Writes(d, r)'
      /\ sweep'[d] = s /\ child'[d] = child[d]
  BY <1>1, Known DEF RunOf, Writes, Elsewhere
<1>3. s \in In(r) /\ p \in In(r) \ {s} /\ Latest(r) = s
  BY <1>1, Known DEF DriverOK
<1>4. p \in ToSet(dir) /\ file[p].run = r /\ DiskOK /\ DiskOK'
  BY <1>3 DEF In, SweepInv
<1>5. /\ ToSet(dir') = ToSet(dir) \ {p} /\ dir' \in Seq(DOMAIN file)
      /\ \A M : p \notin M \/ LastOf(dir, M) # p => LastOf(dir', M) = LastOf(dir, M)
  BY <1>1, <1>4, TakenOut DEF DiskOK
<1>6. \A q : In(q)' = In(q) \ {p}
  BY <1>1, <1>5 DEF In
<1>7. Latest(r)' = s
  <2>1. Latest(r) = LastOf(dir, In(r)) /\ Latest(r)' = LastOf(dir', In(r)')
    BY <1>4, LatestIsLast, LatestIsLastNext
  <2>2. LastOf(dir', In(r)') = LastOf(dir', In(r))
    <3>1. \A i \in 1..Len(dir') : dir'[i] \in In(r)' <=> dir'[i] \in In(r)
      <4>1. \A i \in 1..Len(dir') : dir'[i] \in ToSet(dir')
        BY <1>5 DEF ToSet
      <4> QED BY <1>5, <1>6, <4>1
    <3> QED BY <3>1 DEF LastOf
  <2> QED BY <1>3, <1>5, <2>1, <2>2
<1>8. ASSUME NEW q \in Runs \ {r} PROVE AsItWas(q)
  <2>1. p \notin In(q)
    BY <1>4 DEF In
  <2>2. In(q)' = In(q)
    BY <1>6, <2>1
  <2>3. Latest(q)' = Latest(q)
    BY <1>4, <1>5, <2>1, <2>2, LatestIsLast, LatestIsLastNext
  <2>4. \A f : RewardsOf(f)' = RewardsOf(f) /\ file'[f].whole = file[f].whole
    BY <1>1 DEF RewardsOf
  <2> QED BY <2>2, <2>3, <2>4 DEF AsItWas
<1>9. Has(r, s)'
  <2>1. Has(r, s)
    BY <1>1 DEF Calm, CalmAt
  <2> QED BY <1>1, <1>6, <2>1 DEF Has, RewardsOf
<1>10. CalmAt(d)'
  <2>1. Uncut(r, 0)'
    BY <1>1, <1>2, <1>6, Clean DEF Uncut
  <2> QED BY <1>1, <1>2, <1>7, <1>9, <2>1 DEF CalmAt, Has, RewardsOf, Uncut
<1>11. again' = {}
  BY <1>1 DEF Calm
<1> QED BY <1>2, <1>8, <1>10, <1>11, StepCalm

\* A run.py of a driver that waits for it.
LEMMA Awaited ==
  ASSUME SweepAssumption, RunsApart, SweepInv, Calm, NEW d \in Drivers, NEW r \in Runs, RunOf(d) = r, child[d].on
  PROVE  /\ at[d] \in {"sweeping", "resuming"} /\ Writes(d, r)
         /\ at[d] = "sweeping" => Has(r, Latest(r))
         /\ at[d] = "resuming" => But(r, Latest(r), sweep[d]) /\ sweep[d] \in In(r)
<1>1. CalmAt(d) /\ DriverOK(d)
  BY Known DEF Calm
<1> QED BY <1>1 DEF CalmAt, DriverOK, Writes

LEMMA OpensCalm ==
  ASSUME SweepAssumption, RunsApart, SweepInv, Calm, NEW d \in Drivers, Opens(d)
  PROVE  Calm'
<1> PICK r \in Runs : RunOf(d) = r
  BY Known
<1> PICK n : n = Len(file) + 1
  OBVIOUS
<1> PICK s : s = sweep[d]
  OBVIOUS
<1>1. /\ child[d].on /\ child[d].file = 0 /\ file' = Append(file, [run |-> r, sims |-> {}, whole |-> TRUE]) /\ dir' = Append(dir, n)
      /\ child' = [child EXCEPT ![d].file = n] /\ UNCHANGED <<at, nth, sweep, patch, attempt, again>>
  BY DEF Opens, driver, history
<1>2. at[d] \in {"sweeping", "resuming"} /\ Writes(d, r)
  BY <1>1, Awaited
<1>3. /\ Elsewhere(d) /\ RunOf(d)' = r /\ child'[d].on /\ child'[d].file = n /\ at'[d] = at[d] /\ sweep'[d] = s
      /\ Writes(d, r)'
  BY <1>1, <1>2, Known DEF Elsewhere, RunOf, Writes
<1>4. IsOpened(r, n)
  BY <1>1, Opened
<1>5. \A q \in Runs \ {r} : AsItWas(q)
  BY <1>4 DEF IsOpened, AsItWas, RewardsOf
<1>6. /\ In(r)' = In(r) \cup {n} /\ Latest(r)' = n /\ n \notin In(r) /\ RewardsOf(n)' = {}
      /\ \A g \in In(r) : RewardsOf(g)' = RewardsOf(g)
  BY <1>4 DEF IsOpened, RewardsOf
<1>7. at[d] = "sweeping" => Has(r, n)'
  <2>1. at[d] = "sweeping" => In(r) = {}
    BY <1>1, Known DEF ChildOK
  <2> QED BY <1>6, <2>1 DEF Has, RewardsOf
<1>8. at[d] = "resuming" => But(r, n, s)'
  <2> SUFFICES ASSUME at[d] = "resuming" PROVE But(r, n, s)'
    OBVIOUS
  <2>1. Latest(r) = s /\ s \in In(r)
    BY <1>1, Known DEF DriverOK, Calm, CalmAt
  <2>2. \A g \in In(r) : RewardsOf(g) \subseteq RewardsOf(s)
    BY <1>1, <2>1, Awaited DEF But
  <2>3. \A g \in In(r) : RewardsOf(g)' \subseteq RewardsOf(s)'
    BY <1>6, <2>1, <2>2
  <2> QED BY <1>6, <2>3 DEF But
<1>9. CalmAt(d)'
  <2>1. Uncut(r, 0)
    BY <1>2, Clean
  <2>2. Uncut(r, 0)'
    BY <1>4, <1>6, <2>1 DEF IsOpened, Uncut
  <2>3. n # 0
    BY <1>4 DEF IsOpened
  <2> QED BY <1>2, <1>3, <1>6, <1>7, <1>8, <2>2, <2>3 DEF CalmAt, Has, But, RewardsOf, Uncut
<1>10. again' = {}
  BY <1>1 DEF Calm
<1> QED BY <1>2, <1>3, <1>5, <1>9, <1>10, StepCalm

\* What run.py writes of its file: what the others of the run have, one of them has.
LEMMA WritesCalm ==
  ASSUME SweepAssumption, RunsApart, SweepInv, SweepInv', Calm, NEW d \in Drivers, NEW r \in Runs, RunOf(d) = r,
         child[d].on, NEW f, f = child[d].file, f # 0, NEW new, IsWritten(r, f, new), RewardsOf(f) \subseteq Rewarded(new.sims),
         new.whole = file[f].whole,
         UNCHANGED <<at, nth, sweep, patch, attempt>>, Elsewhere(d), child'[d].on => child'[d].file = f, again' = {}
  PROVE  Calm'
<1> PICK s : s = sweep[d]
  OBVIOUS
<1>1. at[d] \in {"sweeping", "resuming"} /\ Writes(d, r)
  BY Awaited
<1>2. RunOf(d)' = r /\ at'[d] = at[d] /\ sweep'[d] = s /\ Writes(d, r)' /\ f \in In(r) /\ Latest(r) = f
  BY <1>1, Known DEF RunOf, Writes, ChildOK
<1>3. DiskOK /\ DiskOK'
  BY DEF SweepInv
<1>4. NowWritten(r, f, new)
  BY <1>3, WrittenOver
<1>5. /\ In(r)' = In(r) /\ Latest(r)' = f /\ RewardsOf(f)' = Rewarded(new.sims) /\ \A q \in Runs \ {r} : AsItWas(q)
      /\ \A g \in In(r) \ {f} : RewardsOf(g)' = RewardsOf(g) /\ file'[g].whole = file[g].whole
      /\ file'[f].whole = file[f].whole
  BY <1>4 DEF NowWritten
<1>6. at[d] = "sweeping" => Has(r, f)'
  <2> SUFFICES ASSUME at[d] = "sweeping" PROVE Has(r, f)'
    OBVIOUS
  <2>1. \A g \in In(r) : RewardsOf(g) \subseteq RewardsOf(f)
    BY <1>2, Awaited DEF Has
  <2>2. ASSUME NEW g \in In(r) PROVE RewardsOf(g)' \subseteq RewardsOf(f)'
    <3>1. CASE g = f
      BY <3>1 DEF RewardsOf
    <3>2. CASE g # f
      BY <1>5, <2>1, <3>2
    <3> QED BY <3>1, <3>2
  <2> QED BY <1>5, <2>2 DEF Has
<1>7. at[d] = "resuming" => But(r, f, s)'
  <2> SUFFICES ASSUME at[d] = "resuming" PROVE But(r, f, s)'
    OBVIOUS
  <2>1. s \in In(r) /\ \A g \in In(r) \ {f} : RewardsOf(g) \subseteq RewardsOf(s)
    BY <1>2, Awaited DEF But
  <2>2. s # f
    BY Known DEF DriverOK, Repairs
  <2> QED BY <1>5, <2>1, <2>2 DEF But
<1>8. CalmAt(d)'
  <2>1. Uncut(r, 0)
    BY <1>1, Clean
  <2>2. Uncut(r, 0)'
    BY <1>5, <2>1 DEF Uncut
  <2> QED BY <1>1, <1>2, <1>5, <1>6, <1>7, <2>2 DEF CalmAt, Has, But, RewardsOf, Uncut
<1> QED BY <1>1, <1>2, <1>5, <1>8, StepCalm

\* What run.py runs is rewarded in no file of the run.
LEMMA NotRunAgain ==
  ASSUME SweepAssumption, RunsApart, SweepInv, Calm, NEW d \in Drivers, NEW r \in Runs, RunOf(d) = r,
         child[d].on, child[d].file # 0, NEW t \in child[d].todo
  PROVE  t \notin OnDisk(r)
<1> PICK f : f = child[d].file
  OBVIOUS
<1> PICK s : s = sweep[d]
  OBVIOUS
<1>1. f \in In(r) /\ Latest(r) = f /\ TasksOf(f) \cap child[d].todo = {}
  BY Known DEF ChildOK
<1>2. t \notin RewardsOf(f)
  BY <1>1 DEF TasksOf, RewardsOf, Rewarded
<1>3. ASSUME NEW g \in In(r) PROVE t \notin RewardsOf(g)
  <2>1. CASE at[d] = "sweeping"
    <3>1. RewardsOf(g) \subseteq RewardsOf(f)
      BY <1>1, <2>1, Awaited DEF Has
    <3> QED BY <1>2, <3>1
  <2>2. CASE at[d] = "resuming"
    <3>1. t \notin RewardsOf(s)
      BY <2>2, Known DEF DriverOK, Missing, RewardsOf
    <3>2. g # f => RewardsOf(g) \subseteq RewardsOf(s)
      BY <1>1, <2>2, Awaited DEF But
    <3> QED BY <1>2, <3>1, <3>2
  <2> QED BY <2>1, <2>2, Awaited
<1> QED BY <1>3 DEF OnDisk, In, RewardsOf

LEMMA TaskEndsCalm ==
  ASSUME SweepAssumption, RunsApart, SweepInv, SweepInv', Calm, NEW d \in Drivers, NEW t \in Tasks,
         NEW reward \in BOOLEAN, TaskEnds(d, t, reward)
  PROVE  Calm'
<1> PICK r \in Runs : RunOf(d) = r
  BY Known
<1> PICK f : f = child[d].file
  OBVIOUS
<1> PICK x : x = [task |-> t, trial |-> "raw", reward |-> reward]
  OBVIOUS
<1> PICK new : new = [file[f] EXCEPT !.sims = file[f].sims \cup {x}]
  OBVIOUS
<1>1. /\ child[d].on /\ f # 0 /\ t \in child[d].todo /\ file' = [file EXCEPT ![f].sims = file[f].sims \cup {x}]
      /\ dir' = Touched(f) /\ child' = [child EXCEPT ![d].todo = child[d].todo \ {t}]
      /\ again' = IF t \in OnDisk(r) THEN again \cup {<<r, t>>} ELSE again
      /\ UNCHANGED <<at, nth, sweep, patch, attempt>>
  BY DEF TaskEnds, driver
<1>2. again' = {}
  BY <1>1, NotRunAgain DEF Calm
<1>3. f \in In(r)
  BY <1>1, Known DEF ChildOK
<1>4. f \in DOMAIN file /\ file[f].run = r /\ file[f] \in Files
  BY <1>3, Known, FileType DEF In
<1>5. new.run = r /\ new.whole = file[f].whole /\ new.sims = file[f].sims \cup {x} /\ file' = [file EXCEPT ![f] = new]
  BY <1>1, <1>4 DEF Files
<1>6. IsWritten(r, f, new)
  BY <1>1, <1>3, <1>5 DEF IsWritten
<1>7. RewardsOf(f) \subseteq Rewarded(new.sims)
  BY <1>5 DEF RewardsOf, Rewarded
<1>8. Elsewhere(d) /\ child'[d].file = f
  BY <1>1, Known DEF Elsewhere
<1> QED BY <1>1, <1>2, <1>5, <1>6, <1>7, <1>8, WritesCalm

LEMMA EndsCalm ==
  ASSUME SweepAssumption, RunsApart, SweepInv, SweepInv', Calm, NEW d \in Drivers, Ends(d)
  PROVE  Calm'
<1> PICK r \in Runs : RunOf(d) = r
  BY Known
<1> PICK f : f = child[d].file
  OBVIOUS
<1>1. child[d].on /\ child' = [child EXCEPT ![d] = Idle] /\ UNCHANGED <<at, nth, sweep, patch, attempt, again>>
  BY DEF Ends, Gone, driver, history
<1>2. /\ Elsewhere(d) /\ ~child'[d].on /\ RunOf(d)' = r /\ at'[d] = at[d] /\ sweep'[d] = sweep[d] /\ patch'[d] = patch[d]
      /\ again' = {} /\ at[d] \in {"sweeping", "resuming"}
  BY <1>1, Known, Awaited DEF Elsewhere, RunOf, Idle, Calm
<1>3. CASE f = 0
  <2>1. UNCHANGED <<file, dir, again>>
    BY <1>1, <1>3 DEF Ends, disk
  <2>2. CalmAt(d)'
    BY <1>1, <1>2, <2>1, Known, OffDisk, StillAt DEF Calm
  <2>3. Writes(d, r)'
    BY <1>2 DEF Writes
  <2> QED BY <1>2, <2>1, <2>2, <2>3, StepCalmOffDisk
<1>4. CASE f # 0
  <2> PICK sims : sims = Numbered(r, file[f].sims)
    OBVIOUS
  <2> PICK new : new = [file[f] EXCEPT !.sims = sims]
    OBVIOUS
  <2>1. file' = [file EXCEPT ![f].sims = sims] /\ dir' = IF r = 1 THEN dir ELSE Touched(f)
    BY <1>4 DEF Ends
  <2>2. f \in In(r) /\ Latest(r) = f
    BY <1>1, <1>4, Known DEF ChildOK
  <2>3. f \in DOMAIN file /\ file[f].run = r /\ file[f] \in Files /\ WellFormed(file[f].sims)
    BY <2>2, Known, FileType DEF In
  <2>4. new.run = r /\ new.whole = file[f].whole /\ new.sims = sims /\ file' = [file EXCEPT ![f] = new]
    BY <2>1, <2>3 DEF Files
  <2>5. IsWritten(r, f, new)
    BY <2>1, <2>2, <2>4 DEF IsWritten
  <2>6. RewardsOf(f) \subseteq Rewarded(new.sims)
    BY <2>3, <2>4, NumberedIs DEF RewardsOf
  <2> QED BY <1>1, <1>2, <1>4, <2>4, <2>5, <2>6, WritesCalm
<1> QED BY <1>3, <1>4

LEMMA InitCalm == ASSUME SweepAssumption, Init PROVE CalmInv
<1>1. \A r : In(r) = {}
  BY DEF Init, In, ToSet
<1>2. Calm
  BY <1>1 DEF Init, Calm, CalmAt, Has, Uncut, Writes, Idle
<1> QED BY <1>2 DEF Init, CalmInv

\* Every step but a kill or a crash.
LEMMA StepsCalm ==
  ASSUME SweepAssumption, RunsApart, SweepInv, SweepInv', Calm, [Next]_vars
  PROVE  Calm' \/ kills' = kills + 1 \/ crashes' = crashes + 1
<1>1. ASSUME NEW d \in Drivers, Drive(d) PROVE Calm'
  BY <1>1, HoldCalm, LookCalm, SweptCalm, UnreadableCalm, CountCalm, ResumedCalm, MergeCalm,
     MergeWritesCalm, SupersedeCalm, LeavesCalm DEF Drive
<1>2. ASSUME NEW d \in Drivers, Opens(d) \/ Ends(d) PROVE Calm'
  BY <1>2, OpensCalm, EndsCalm
<1>3. ASSUME NEW d \in Drivers, NEW t \in Tasks, NEW reward \in BOOLEAN, TaskEnds(d, t, reward) PROVE Calm'
  BY <1>3, TaskEndsCalm
<1>4. ASSUME NEW d \in Drivers, KillDriver(d) \/ KillRun(d) PROVE kills' = kills + 1
  BY <1>4 DEF KillDriver, KillRun
<1>5. CASE Crash
  BY <1>5 DEF Crash
<1>6. CASE UNCHANGED vars
  <2>1. UNCHANGED <<file, dir, at, nth, sweep, patch, attempt, child, again>>
    BY <1>6 DEF vars, disk, driver, history
  <2>2. \A q \in Runs : AsItWas(q)
    BY <2>1, OffDisk
  <2>3. ASSUME NEW d \in Drivers PROVE CalmAt(d)'
    <3> PICK r \in Runs : RunOf(d) = r
      BY Known
    <3>1. RunOf(d)' = r
      BY <2>1 DEF RunOf
    <3> QED BY <2>1, <2>2, <3>1, Known, StillAt DEF Calm
  <2>4. ASSUME NEW q \in Runs, \A d \in Drivers : ~Writes(d, q)' PROVE Has(q, Latest(q))' /\ Uncut(q, 0)'
    <3>1. Has(q, Latest(q)) /\ Uncut(q, 0)
      BY <2>1, <2>4 DEF Calm, Writes, RunOf
    <3> QED BY <2>2, <3>1, StillSo DEF SweepInv
  <2> QED BY <2>1, <2>3, <2>4 DEF Calm
<1> QED BY <1>1, <1>2, <1>3, <1>4, <1>5, <1>6 DEF Next

LEMMA StepCalmInv ==
  ASSUME SweepAssumption, RunsApart, SweepInv, SweepInv', CalmInv, [Next]_vars
  PROVE  CalmInv'
<1>1. kills \in Nat /\ crashes \in Nat
  BY DEF CalmInv
<1>2. (kills' = kills \/ kills' = kills + 1) /\ (crashes' = crashes \/ crashes' = crashes + 1)
  <2>1. ASSUME NEW d \in Drivers, Drive(d) PROVE kills' = kills /\ crashes' = crashes
    BY <2>1 DEF Drive, Hold, Look, Swept, Unreadable, Count, Resumed, Merge, MergeWrites, Supersede, LastCount, Exit
  <2>2. ASSUME NEW d \in Drivers, KillDriver(d) \/ KillRun(d) PROVE kills' = kills + 1 /\ crashes' = crashes
    BY <2>2 DEF KillDriver, KillRun
  <2>3. ASSUME NEW d \in Drivers, Opens(d) \/ Ends(d) PROVE kills' = kills /\ crashes' = crashes
    BY <2>3 DEF Opens, Ends
  <2>4. ASSUME NEW d \in Drivers, NEW t \in Tasks, NEW reward \in BOOLEAN, TaskEnds(d, t, reward)
        PROVE  kills' = kills /\ crashes' = crashes
    BY <2>4 DEF TaskEnds
  <2>5. CASE Crash
    BY <2>5 DEF Crash
  <2>6. CASE UNCHANGED vars
    BY <2>6 DEF vars
  <2> QED BY <2>1, <2>2, <2>3, <2>4, <2>5, <2>6 DEF Next
<1>3. CASE kills' + crashes' = 0
  <2>1. kills + crashes = 0 /\ kills' = kills /\ crashes' = crashes
    <3>1. \A k, c, m, n \in Nat : (m = k \/ m = k + 1) /\ (n = c \/ n = c + 1) /\ m + n = 0 => m = k /\ n = c
      OBVIOUS
    <3>2. kills' \in Nat /\ crashes' \in Nat
      BY <1>1, <1>2
    <3> QED BY <1>1, <1>2, <1>3, <3>1, <3>2
  <2>2. Calm
    BY <2>1 DEF CalmInv
  <2>3. Calm'
    BY <1>1, <2>1, <2>2, StepsCalm
  <2> QED BY <1>1, <2>1, <2>3 DEF CalmInv
<1>4. CASE kills' + crashes' # 0
  BY <1>1, <1>2, <1>4 DEF CalmInv
<1> QED BY <1>3, <1>4

\* Unless something is killed, a task is not run again (sweep.sh, missing.py), for any
\* drivers, runs and tasks: the file a re-run is made for holds every reward of its run
\* but the re-run's own, so that what it misses was never rewarded.
THEOREM RunsOnce == ASSUME RunsApart PROVE Spec => []RunOnceUnlessKilled
<1>1. SweepAssumption => (Init => SweepInv /\ CalmInv)
  BY InitSweep, InitCalm
<1>2. SweepAssumption /\ RunsApart => (SweepInv /\ CalmInv /\ [Next]_vars => (SweepInv /\ CalmInv)')
  <2> SUFFICES ASSUME SweepAssumption, RunsApart, SweepInv, CalmInv, [Next]_vars PROVE SweepInv' /\ CalmInv'
    OBVIOUS
  <2>1. SweepInv'
    BY StepSweep
  <2> QED BY <2>1, StepCalmInv
<1>3. SweepInv /\ CalmInv => RunOnceUnlessKilled
  BY DEF CalmInv, Calm, RunOnceUnlessKilled
<1> QED BY <1>1, <1>2, <1>3, SweepAssumption, PTL DEF Spec
=============================================================================
