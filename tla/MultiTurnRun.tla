---------------------------- MODULE MultiTurnRun ----------------------------
(***************************************************************************)
(* The runner of the stateful multi-turn benchmark (bfcl-multiturn/run.py):*)
(* tasks run concurrently under a deadline, and after each one the whole   *)
(* results file is written again in place.  A run is stopped with SIGTERM  *)
(* or killed, and resumed from its file.                                   *)
(***************************************************************************)
EXTENDS Naturals, Sequences, FiniteSets, SequencesExt

CONSTANTS
  Tasks,          \* the benchmark's tasks
  Limits,         \* sets of tasks an invocation may be limited to (--limit)
  Concurrency,    \* --concurrency
  HasDeadline,    \* whether --task-timeout is other than 0
  MaxInvocations, \* bound: how often the runner is started
  MaxSigterms,    \* bound: how often it is sent SIGTERM
  MaxKills        \* bound: how often it is killed outright

ASSUME LimitsAssumption == Limits \subseteq SUBSET Tasks
ASSUME RunnerAssumption ==
  /\ Concurrency \in Nat \ {0}
  /\ HasDeadline \in BOOLEAN
  /\ MaxInvocations \in Nat /\ MaxSigterms \in Nat /\ MaxKills \in Nat

VARIABLES
  main,       \* "down", "await", "write", "unreadable": where the runner is
  final,      \* whether it is in the finally block
  saved,      \* [whole, rows]: the results file; not whole while it is written
  collected,  \* the rows this invocation holds
  task,       \* task[t]: how far the coroutine of t is
  rows,       \* rows[t]: what guarded(t) returned
  finished,   \* tasks whose row is waiting for the main task, first to last
  invocations, sigterms, kills,
  kept,       \* history: the rows of the latest whole file
  attempted   \* history: the tasks this invocation was asked for

runner == <<main, final>>
tasks == <<task, rows, finished>>
bounds == <<invocations, sigterms, kills>>
history == <<kept, attempted>>
runnerVars == <<runner, saved, collected, tasks, bounds, history>>

\* A task's row: judged right or wrong, or lost to an error.
Scored == {"right", "wrong"}
Rows == Scored \cup {"errored", "absent"}
NoRows == [t \in Tasks |-> "absent"]
Progress == {"idle", "queued", "running", "stuck", "done", "taken"}

RunnerInit ==
  /\ main = "down" /\ final = FALSE
  /\ saved = [whole |-> TRUE, rows |-> NoRows]
  /\ collected = NoRows
  /\ task = [t \in Tasks |-> "idle"] /\ rows = NoRows /\ finished = <<>>
  /\ invocations = 0 /\ sigterms = 0 /\ kills = 0
  /\ kept = NoRows /\ attempted = {}

-----------------------------------------------------------------------------
\* Mutant of AlreadyScored: an errored task is taken for a result.
AnyRow(r) == r # "absent"

\* already_scored: an errored row is left out, and its task run again.
AlreadyScored(r) == r \in Scored

Kept(asked) == [t \in Tasks |-> IF AlreadyScored(saved.rows[t]) THEN saved.rows[t] ELSE "absent"]

\* Mutant of ToDo: every task of the limit is run.
AllAsked(asked) == asked

ToDo(asked) == {t \in asked : Kept(asked)[t] = "absent"}

Invoke(asked) ==
  /\ main = "down" /\ saved.whole
  /\ invocations < MaxInvocations
  /\ invocations' = invocations + 1
  /\ collected' = Kept(asked)
  /\ task' = [t \in Tasks |-> IF t \in ToDo(asked) THEN "queued" ELSE "idle"]
  /\ rows' = NoRows /\ finished' = <<>>
  /\ main' = "await" /\ final' = FALSE
  /\ attempted' = ToDo(asked)
  /\ UNCHANGED <<saved, sigterms, kills, kept>>

\* results.read raises on a file that was cut short.
CannotResume ==
  /\ main = "down" /\ ~saved.whole
  /\ main' = "unreadable"
  /\ UNCHANGED <<final, saved, collected, tasks, bounds, history>>

Running == {t \in Tasks : task[t] \in {"running", "stuck"}}

\* A place of the semaphore.
Acquire(t) ==
  /\ main = "await"
  /\ task[t] = "queued"
  /\ Cardinality(Running) < Concurrency
  /\ task' = [task EXCEPT ![t] = "running"]
  /\ UNCHANGED <<runner, saved, collected, rows, finished, bounds, history>>

\* litellm retries inside its own call: without a deadline nothing ends it.
Stick(t) ==
  /\ main = "await"
  /\ task[t] = "running"
  /\ task' = [task EXCEPT ![t] = "stuck"]
  /\ UNCHANGED <<runner, saved, collected, rows, finished, bounds, history>>

\* guarded(t) returns a row: of one_task, or of the exception it raised.
Return(t, row) ==
  /\ task' = [task EXCEPT ![t] = "done"]
  /\ rows' = [rows EXCEPT ![t] = row]
  /\ finished' = Append(finished, t)
  /\ UNCHANGED <<runner, saved, collected, bounds, history>>

Finish(t) ==
  /\ main = "await"
  /\ task[t] = "running"
  /\ \E row \in Scored \cup {"errored"} : Return(t, row)

\* Mutant of Deadline: a task may take for ever.
NoDeadline == FALSE

Deadline == HasDeadline

DeadlinePasses(t) ==
  /\ main = "await"
  /\ Deadline
  /\ t \in Running
  /\ Return(t, "errored")

\* save() opens the file, which empties it, and writes it.
BeginSave(last) ==
  /\ main' = "write"
  /\ final' = last
  /\ saved' = [saved EXCEPT !.whole = FALSE]

Collect ==
  /\ main = "await"
  /\ finished # <<>>
  /\ LET t == Head(finished)
     IN  /\ collected' = [collected EXCEPT ![t] = rows[t]]
         /\ task' = [task EXCEPT ![t] = "taken"]
  /\ finished' = Tail(finished)
  /\ BeginSave(FALSE)
  /\ UNCHANGED <<rows, bounds, history>>

\* as_completed is exhausted: every task has been awaited.
AllTaken ==
  /\ main = "await"
  /\ \A t \in Tasks : task[t] \in {"idle", "taken"}
  /\ BeginSave(TRUE)
  /\ UNCHANGED <<collected, tasks, bounds, history>>

EndSave ==
  /\ main = "write"
  /\ saved' = [whole |-> TRUE, rows |-> collected]
  /\ kept' = collected
  /\ main' = IF final THEN "down" ELSE "await"
  /\ UNCHANGED <<final, collected, tasks, bounds, attempted>>

\* SIGTERM raises SystemExit wherever the main thread is: the tasks are cancelled
\* and the finally block saves; raised inside that save, it is the last of it.
Sigterm ==
  /\ main \in {"await", "write"}
  /\ sigterms < MaxSigterms
  /\ sigterms' = sigterms + 1
  /\ IF final THEN main' = "down" /\ UNCHANGED <<final, saved>> ELSE BeginSave(TRUE)
  /\ UNCHANGED <<collected, tasks, invocations, kills, history>>

Kill ==
  /\ main \in {"await", "write"}
  /\ kills < MaxKills
  /\ kills' = kills + 1
  /\ main' = "down"
  /\ UNCHANGED <<final, saved, collected, tasks, invocations, sigterms, history>>

Main ==
  \/ \E asked \in Limits : Invoke(asked)
  \/ CannotResume \/ Collect \/ AllTaken \/ EndSave \/ Sigterm \/ Kill

Step(t) == Acquire(t) \/ Finish(t) \/ DeadlinePasses(t) \/ Stick(t)

RunnerNext == Main \/ \E t \in Tasks : Step(t)

RunnerSpec == RunnerInit /\ [][RunnerNext]_runnerVars

-----------------------------------------------------------------------------
\* The state is well formed; no task is in the queue of finished ones twice.
RunnerTypeOK ==
  /\ main \in {"down", "await", "write", "unreadable"}
  /\ final \in BOOLEAN
  /\ saved \in [whole: BOOLEAN, rows: [Tasks -> Rows]]
  /\ collected \in [Tasks -> Rows] /\ kept \in [Tasks -> Rows]
  /\ task \in [Tasks -> Progress] /\ rows \in [Tasks -> Rows]
  /\ ToSet(finished) \subseteq Tasks /\ IsInjective(finished)
  /\ attempted \subseteq Tasks
  /\ invocations \in 0..MaxInvocations
  /\ sigterms \in 0..MaxSigterms
  /\ kills \in 0..MaxKills

\* A step by which a judged task is not judged again, forgotten or paid for twice: what
\* one whole file says of it the next one says, in whatever order tasks finish and however
\* the runner was stopped (main, already_scored, save).
ScoredForGood ==
  \A t \in Tasks : kept[t] \in Scored => kept'[t] = kept[t] /\ task'[t] \notin {"running", "done"}

\* An invocation that was not stopped leaves a row for every task it ran, and an
\* outage met by an earlier one is not left standing without being tried again.
EveryTaskAccounted ==
  main = "write" /\ final /\ (\A t \in Tasks : task[t] \in {"idle", "taken"}) =>
    /\ \A t \in attempted : collected[t] # "absent"
    /\ \A t \in Tasks \ attempted : collected[t] # "errored"

\* An invocation ends, also when a task makes no progress (guarded, wait_for).
Ends == (main = "await") ~> (main = "down")

\* What the header of the campaign says: stopping partway and starting again loses
\* nothing. The next invocation can read the file a stopped one left.
StoppedCanResume == main = "down" => saved.whole

\* What the runner's docstring says: results stream to the file as each task
\* finishes, so an interrupted run keeps what it had. A task that had finished when
\* the runner was stopped is in its file.
FinishedIsKept ==
  main = "down" /\ saved.whole => \A t \in Tasks : task[t] = "done" => saved.rows[t] = rows[t]
=============================================================================
