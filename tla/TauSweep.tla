------------------------------ MODULE TauSweep ------------------------------
(***************************************************************************)
(* The tau2 sweep driver (tau2/sweep.sh) with the processes it starts:     *)
(* run.py, which runs tasks and numbers them, and merge.py, which folds a  *)
(* re-run into the sweep's file.  Several drivers may be asked for one run *)
(* and are kept apart by a lock; drivers and runs are killed.              *)
(*                                                                         *)
(* A results file is told apart by its run, its simulations and its place  *)
(* in the order of modification, which is what `latest` goes by.  Files    *)
(* hold no api key here: a sweep over one gateway has none to scrub.       *)
(***************************************************************************)
EXTENDS Naturals, Sequences, FiniteSets, SequencesExt, FiniteSetsExt

CONSTANTS
  Tasks,         \* the split
  Drivers,       \* invocations of sweep.sh
  Plan,          \* Plan[d]: the runs d goes through
  MaxAttempts,   \* MAX_ATTEMPTS
  MaxKills,      \* bound: how often a driver or a run is killed
  MaxCrashes     \* bound: how often everything stops at once

ASSUME SweepAssumption ==
  /\ \A d \in Drivers : Plan[d] \in Seq(Nat \ {0}) /\ Plan[d] # <<>>
  /\ MaxAttempts \in Nat /\ MaxKills \in Nat /\ MaxCrashes \in Nat

Runs == UNION {ToSet(Plan[d]) : d \in Drivers}

\* run.py has raised tau2's trial 0 to the run's own number, or not; that of run 1 is 0.
Trials == {"raw", "own"}
Simulations == [task: Tasks, trial: Trials, reward: BOOLEAN]

VARIABLES
  file,     \* file[f] = [run, sims, whole]: the f-th results file written
  dir,      \* the files in results/, the latest modified last
  at,       \* at[d]: where driver d is
  nth,      \* nth[d]: which run of its plan d is at
  sweep, patch, attempt,  \* of each driver, 0 for no file
  child,    \* child[d]: the run.py d started: what it has to do, and its file
  lock,     \* lock[r]: the processes holding the lock of run r
  kills, crashes,
  done,     \* history: the runs a driver reported done
  results,  \* history: <<run, task>> that came to a reward
  again     \* history: <<run, task>> run again though its reward was on disk

driver == <<at, nth, sweep, patch, attempt>>
disk == <<file, dir>>
history == <<done, results, again>>
vars == <<disk, driver, child, lock, kills, crashes, history>>

Idle == [on |-> FALSE, file |-> 0, todo |-> {}]

Init ==
  /\ file = <<>> /\ dir = <<>>
  /\ at = [d \in Drivers |-> "lock"] /\ nth = [d \in Drivers |-> 1]
  /\ sweep = [d \in Drivers |-> 0] /\ patch = [d \in Drivers |-> 0]
  /\ attempt = [d \in Drivers |-> 0]
  /\ child = [d \in Drivers |-> Idle]
  /\ lock = [r \in Runs |-> {}]
  /\ kills = 0 /\ crashes = 0
  /\ done = {} /\ results = {} /\ again = {}

RunOf(d) == Plan[d][nth[d]]
Bash(d) == <<"sweep.sh", d>>
Child(d) == <<"run.py", d>>

---------------------------------------------------------------------------
(* The files *)

\* `ls -t results/*_run1*.json`: what follows the number is not looked at (one digit here).
Matches(r, f) == file[f].run = r \/ file[f].run \div 10 = r
Latest(r) ==
  LET last == SelectLastInSeq(dir, LAMBDA f : Matches(r, f))
  IN  IF last = 0 THEN 0 ELSE dir[last]

\* A file rewritten, by a run.py or a merge, is the latest.
Touched(f) == Append(RemoveFirst(dir, f), f)

\* missing_tasks: what was written without a reward is to be run again.
Rewarded(sims) == {s.task : s \in {x \in sims : x.reward}}
Missing(f) == Tasks \ Rewarded(file[f].sims)

\* A patch of the same run takes the number of the file it is folded into.
Renumbered(base, sims) ==
  IF Cardinality({s.trial : s \in base}) = 1
  THEN {[s EXCEPT !.trial = (CHOOSE b \in base : TRUE).trial] : s \in sims} ELSE sims

\* Mutant of Merged: a simulation in both stays the base's, which had no reward.
OnlyNewTasks(base, sims) ==
  LET new == Renumbered(base, sims)
  IN  base \cup {n \in new : \A s \in base : <<n.task, n.trial>> # <<s.task, s.trial>>}

Merged(base, sims) ==
  LET new == Renumbered(base, sims)
  IN  new \cup {s \in base : \A n \in new : <<n.task, n.trial>> # <<s.task, s.trial>>}

---------------------------------------------------------------------------
(* The driver *)

Goes(d, where) == at' = [at EXCEPT ![d] = where]

\* hold_run
Hold(d) ==
  /\ at[d] = "lock"
  /\ lock[RunOf(d)] = {}
  /\ lock' = [lock EXCEPT ![RunOf(d)] = {Bash(d)}]
  /\ Goes(d, "look")
  /\ UNCHANGED <<disk, nth, sweep, patch, attempt, child, kills, crashes, history>>

\* Mutant of Inherited: the lock does not outlive the driver.
ClosedOnExec(d) == lock

\* A child inherits the descriptor the lock is held on.
Inherited(d) == [lock EXCEPT ![RunOf(d)] = @ \cup {Child(d)}]

Launch(d, todo) ==
  /\ child' = [child EXCEPT ![d] = [on |-> TRUE, file |-> 0, todo |-> todo]]
  /\ lock' = Inherited(d)

\* Mutant of Found: whatever is on disk, the run is started over.
Nothing(d) == 0

Found(d) == Latest(RunOf(d))

Look(d) ==
  /\ at[d] = "look"
  /\ attempt' = [attempt EXCEPT ![d] = 0]
  /\ IF Found(d) = 0 THEN Goes(d, "sweeping") /\ Launch(d, Tasks) /\ UNCHANGED sweep
     ELSE /\ sweep' = [sweep EXCEPT ![d] = Found(d)]
          /\ Goes(d, "count") /\ UNCHANGED <<child, lock>>
  /\ UNCHANGED <<disk, nth, patch, kills, crashes, history>>

Swept(d) ==
  /\ at[d] = "sweeping" /\ ~child[d].on
  /\ sweep' = [sweep EXCEPT ![d] = Latest(RunOf(d))]
  /\ Goes(d, IF sweep'[d] = 0 THEN "exit" ELSE "count")
  /\ UNCHANGED <<disk, nth, patch, attempt, child, lock, kills, crashes, history>>

\* missing.py fails on a file cut short, and the script with it.
Unreadable(d) ==
  /\ at[d] \in {"count", "last"}
  /\ ~file[sweep[d]].whole
  /\ Goes(d, "exit")
  /\ UNCHANGED <<disk, nth, sweep, patch, attempt, child, lock, kills, crashes, history>>

Count(d) ==
  /\ at[d] = "count" /\ file[sweep[d]].whole
  /\ IF Missing(sweep[d]) = {} \/ attempt[d] = MaxAttempts
     THEN Goes(d, "last") /\ UNCHANGED <<attempt, child, lock>>
     ELSE /\ attempt' = [attempt EXCEPT ![d] = @ + 1]
          /\ Launch(d, Missing(sweep[d])) /\ Goes(d, "resuming")
  /\ UNCHANGED <<disk, nth, sweep, patch, kills, crashes, history>>

Resumed(d) ==
  /\ at[d] = "resuming" /\ ~child[d].on
  /\ patch' = [patch EXCEPT ![d] = Latest(RunOf(d))]
  /\ Goes(d, IF patch'[d] = sweep[d] THEN "last" ELSE "patched")
  /\ UNCHANGED <<disk, nth, sweep, attempt, child, lock, kills, crashes, history>>

\* merge.py refuses a file of another run by its seed, and one cut short; else it
\* opens the sweep's file, which empties it, and writes it.
Merge(d) ==
  /\ at[d] = "patched"
  /\ IF file[patch[d]].run # file[sweep[d]].run \/ ~file[patch[d]].whole \/ ~file[sweep[d]].whole
     THEN Goes(d, "count") /\ UNCHANGED disk
     ELSE /\ Goes(d, "merging")
          /\ file' = [file EXCEPT ![sweep[d]].whole = FALSE] /\ dir' = Touched(sweep[d])
  /\ UNCHANGED <<nth, sweep, patch, attempt, child, lock, kills, crashes, history>>

MergeWrites(d) ==
  /\ at[d] = "merging"
  /\ file' = [file EXCEPT ![sweep[d]] =
                [@ EXCEPT !.whole = TRUE, !.sims = Merged(file[sweep[d]].sims, file[patch[d]].sims)]]
  /\ dir' = Touched(sweep[d])
  /\ Goes(d, "merged")
  /\ UNCHANGED <<nth, sweep, patch, attempt, child, lock, kills, crashes, history>>

\* mv "$patch" results/superseded/
Supersede(d) ==
  /\ at[d] = "merged"
  /\ dir' = RemoveFirst(dir, patch[d])
  /\ Goes(d, "count")
  /\ UNCHANGED <<file, nth, sweep, patch, attempt, child, lock, kills, crashes, history>>

\* Mutant of Released: a driver keeps what it holds, ended or not.
KeptOpen(d) == lock

\* The descriptor is closed as the script ends, or opened again for the next run.
Released(d) == [lock EXCEPT ![RunOf(d)] = @ \ {Bash(d)}]

\* What is left is counted again: the run is done, or the sweep fails.
LastCount(d) ==
  /\ at[d] = "last" /\ file[sweep[d]].whole
  /\ IF Missing(sweep[d]) = {}
     THEN /\ done' = done \cup {RunOf(d)}
          /\ IF nth[d] < Len(Plan[d])
             THEN nth' = [nth EXCEPT ![d] = @ + 1] /\ Goes(d, "lock") /\ lock' = Released(d)
             ELSE Goes(d, "exit") /\ UNCHANGED <<nth, lock>>
     ELSE Goes(d, "exit") /\ UNCHANGED <<done, nth, lock>>
  /\ UNCHANGED <<disk, sweep, patch, attempt, child, kills, crashes, results, again>>

Exit(d) ==
  /\ at[d] = "exit"
  /\ Goes(d, "gone")
  /\ lock' = Released(d)
  /\ UNCHANGED <<disk, nth, sweep, patch, attempt, child, kills, crashes, history>>

\* The driver alone is killed; a merge it started ends by itself.
KillDriver(d) ==
  /\ at[d] \notin {"lock", "merging", "gone"}
  /\ kills < MaxKills
  /\ kills' = kills + 1
  /\ Goes(d, "gone")
  /\ lock' = Released(d)
  /\ UNCHANGED <<disk, nth, sweep, patch, attempt, child, crashes, history>>

---------------------------------------------------------------------------
(* run.py, over tau2 *)

\* tau2 writes the results file as it begins.
Opens(d) ==
  /\ child[d].on /\ child[d].file = 0
  /\ file' = Append(file, [run |-> RunOf(d), sims |-> {}, whole |-> TRUE])
  /\ dir' = Append(dir, Len(file) + 1)
  /\ child' = [child EXCEPT ![d].file = Len(file) + 1]
  /\ UNCHANGED <<driver, lock, kills, crashes, history>>

OnDisk(r) == UNION {Rewarded(file[f].sims) : f \in {g \in ToSet(dir) : file[g].run = r /\ file[g].whole}}

\* A task ends, with a reward or cut short without one.
TaskEnds(d, t, reward) ==
  LET f == child[d].file
  IN  /\ child[d].on /\ f # 0 /\ t \in child[d].todo
      /\ file' = [file EXCEPT ![f].sims = @ \cup {[task |-> t, trial |-> "raw", reward |-> reward]}]
      /\ dir' = Touched(f)
      /\ child' = [child EXCEPT ![d].todo = @ \ {t}]
      /\ results' = IF reward THEN results \cup {<<RunOf(d), t>>} ELSE results
      /\ again' = IF t \in OnDisk(RunOf(d)) THEN again \cup {<<RunOf(d), t>>} ELSE again
      /\ UNCHANGED <<driver, lock, kills, crashes, done>>

\* number_simulations
Numbered(r, sims) == IF r = 1 THEN sims ELSE {[s EXCEPT !.trial = "own"] : s \in sims}

Gone(d) ==
  /\ child' = [child EXCEPT ![d] = Idle]
  /\ lock' = [lock EXCEPT ![RunOf(d)] = @ \ {Child(d)}]

\* It ends, with tasks left or none, or stopped by SIGTERM: finally numbers what it has.
Ends(d) ==
  LET f == child[d].file
  IN  /\ child[d].on
      /\ IF f = 0 THEN UNCHANGED disk
         ELSE /\ file' = [file EXCEPT ![f].sims = Numbered(RunOf(d), @)]
              /\ dir' = IF RunOf(d) = 1 THEN dir ELSE Touched(f)
      /\ Gone(d)
      /\ UNCHANGED <<driver, kills, crashes, history>>

\* What run.py has of its file: it is written in place, as a task ends and as its
\* simulations are numbered, so that a kill may leave it cut short.
Writing(d) == IF child[d].on THEN {child[d].file} \ {0} ELSE {}
CutShort(cut) ==
  /\ file' = [f \in DOMAIN file |-> [file[f] EXCEPT !.whole = @ /\ f \notin cut]]
  /\ UNCHANGED dir

KillRun(d) ==
  /\ child[d].on
  /\ kills < MaxKills
  /\ kills' = kills + 1
  /\ Gone(d)
  /\ \E cut \in SUBSET Writing(d) : CutShort(cut)
  /\ UNCHANGED <<driver, crashes, history>>

Crash ==
  /\ crashes < MaxCrashes
  /\ crashes' = crashes + 1
  /\ \E cut \in SUBSET UNION {Writing(d) : d \in Drivers} : CutShort(cut)
  /\ at' = [d \in Drivers |-> IF at[d] = "lock" THEN "lock" ELSE "gone"]
  /\ child' = [d \in Drivers |-> Idle]
  /\ lock' = [r \in Runs |-> {}]
  /\ UNCHANGED <<nth, sweep, patch, attempt, kills, history>>

Drive(d) ==
  \/ Hold(d) \/ Look(d) \/ Swept(d) \/ Unreadable(d) \/ Count(d) \/ Resumed(d)
  \/ Merge(d) \/ MergeWrites(d) \/ Supersede(d) \/ LastCount(d) \/ Exit(d)

Next ==
  \/ \E d \in Drivers :
       \/ Drive(d) \/ KillDriver(d) \/ Opens(d) \/ Ends(d) \/ KillRun(d)
       \/ \E t \in Tasks, reward \in BOOLEAN : TaskEnds(d, t, reward)
  \/ Crash

Spec == Init /\ [][Next]_vars

\* A driver and its run go on; a lock is given to a driver that waits for it.
FairSpec ==
  /\ Spec
  /\ \A d \in Drivers : SF_vars(Hold(d)) /\ WF_vars(Drive(d)) /\ WF_vars(Ends(d))

---------------------------------------------------------------------------
\* The state is well formed; the directory lists a file once.
TypeOK ==
  /\ \A f \in DOMAIN file : file[f].run \in Runs /\ file[f].sims \subseteq Simulations /\ file[f].whole \in BOOLEAN
  /\ IsInjective(dir) /\ ToSet(dir) \subseteq DOMAIN file
  /\ at \in [Drivers -> {"lock", "look", "sweeping", "count", "resuming", "patched", "merging",
                         "merged", "last", "exit", "gone"}]
  /\ \A d \in Drivers : /\ nth[d] \in DOMAIN Plan[d] /\ attempt[d] \in 0..MaxAttempts
                        /\ {sweep[d], patch[d], child[d].file} \subseteq DOMAIN file \cup {0}
                        /\ child[d].todo \subseteq Tasks
  /\ \A r \in Runs : IsFiniteSet(lock[r])
  /\ done \subseteq Runs

Writes(d, r) == RunOf(d) = r /\ (child[d].on \/ at[d] \notin {"lock", "exit", "gone"})

OneDriver == \A r \in Runs : Cardinality({d \in Drivers : Writes(d, r)}) <= 1

\* The files a driver is at work on: its run.py's, the sweep's and the re-run's.
WorksOn(d) ==
  Writing(d) \cup (IF at[d] \in {"count", "resuming", "patched", "merging", "merged", "last"} THEN {sweep[d]} ELSE {})
             \cup (IF at[d] \in {"patched", "merging", "merged"} THEN {patch[d]} ELSE {})

\* A run has one driver and a file one writer, though a driver be killed while a run.py
\* of it goes on and another waits (hold_run): two would both write and merge its file.
OneWriter == OneDriver /\ \A d, e \in Drivers : d # e => WorksOn(d) \cap WorksOn(e) = {}

\* A task is in a file once, whatever numbers a killed run.py left (merge): the re-run
\* of a task takes the place of the simulation it repairs.
OneSimulationPerTask ==
  \A f \in DOMAIN file : \A s, t \in file[f].sims : s.task = t.task => s = t

\* A task that came to a reward stays in a file of the directory, through merges, kills,
\* crashes and the moves of patches, as long as no file was cut short.
Readable == \A f \in ToSet(dir) : file[f].whole
Held(p) == \E f \in ToSet(dir) : file[f].run = p[1] /\ file[f].whole /\ p[2] \in Rewarded(file[f].sims)
NothingLost == Readable => \A p \in results : Held(p)

\* What a sweep came to is kept (merge, sweep.sh): each task once, and none lost.
ResultsKept == TypeOK /\ OneSimulationPerTask /\ NothingLost

\* Unless something is killed, a task is not run again, however many drivers are asked
\* for the run and however often its run.py is cut short (sweep.sh, missing.py).
RunOnceUnlessKilled == kills + crashes = 0 => again = {}

\* A driver that waits for a run gets to it, and ends: the lock is let go of however
\* its holder ended.
EveryDriverEnds == \A d \in Drivers : <>(at[d] = "gone")

---------------------------------------------------------------------------
\* What the script says: re-invoking it after a crash costs only the tasks still missing.
CostsOnlyMissing == again = {}

\* What the script says of a crash, of the file itself: what it held is there to continue.
ResultsSurvive == (\A d \in Drivers : at[d] # "merging") => \A p \in results : Held(p)

\* What number_simulations says: a sweep's trials are shifted by its run index, which
\* keeps the runs apart.
DoneIsNumbered ==
  \A d \in Drivers : at[d] = "exit" /\ RunOf(d) \in done /\ RunOf(d) # 1 =>
    \A s \in file[sweep[d]].sims : s.trial = "own"

\* What the script says: runs of one model can go side by side, each until its file
\* holds the whole split.
EachRunHasItsFile ==
  \A r \in done : \E f \in ToSet(dir) : file[f].run = r /\ Missing(f) = {}
=============================================================================
