------------------------------ MODULE CasePool ------------------------------
(***************************************************************************)
(* The case driver of the delivery studies (bench/scripts/run.py): one     *)
(* invocation runs each case that has no complete run in the study, with   *)
(* a pool that shrinks when the provider is unwell and grows back.         *)
(*                                                                         *)
(* The driver and the runs it starts share one event loop.  A run writes   *)
(* its transcript, its record and its verdict without awaiting, so from    *)
(* the first of them to the last nothing else moves, the process being     *)
(* killed excepted; each file is replaced atomically.                      *)
(***************************************************************************)
EXTENDS Integers, Sequences, FiniteSets

CONSTANTS
  Registry,         \* the cases of the registry, in its order
  Concurrencies,    \* --concurrency: what an invocation may ask for
  RecoverAfter,     \* successes in a row that give the pool one place back (5)
  ScoreInline,      \* --score-inline: whether a run is scored as it is stored
  MaxInvocations,   \* bound: how often the driver is started
  MaxWriteFailures, \* bound: how often a transcript or a record cannot be written
  MaxScoreFailures  \* bound: how often not even the verdict's error can be written

Cases == {Registry[k] : k \in DOMAIN Registry}

ASSUME RegistryAssumption ==
  /\ Registry \in Seq(Cases)
  /\ \A i, j \in DOMAIN Registry : Registry[i] = Registry[j] => i = j
ASSUME BoundsAssumption ==
  /\ Concurrencies \subseteq Nat \ {0}
  /\ RecoverAfter \in Nat \ {0}
  /\ ScoreInline \in BOOLEAN
  /\ MaxInvocations \in Nat
  /\ MaxWriteFailures \in Nat
  /\ MaxScoreFailures \in Nat

VARIABLES
  pc,        \* where the driver is: see PCs
  specs,     \* the cases this invocation runs
  again,     \* --no-skip: complete runs are repeated
  initial,   \* initial_concurrency
  target,    \* target_concurrency
  streak,    \* consecutive_successes
  pending,   \* deque of (case, abandoned attempts) not started
  running,   \* the tasks the driver has not handled yet
  batch,     \* the finished tasks the last wait returned and not yet handled
  totals,    \* the summary run_cases returns
  files,     \* files[c]: the artifacts of c under this invocation's run id
  kept,      \* kept[c]: an earlier invocation left c a complete run
  invocations, writeFailures, \* how often the bounded events happened
  failures,  \* history: failures[c] handled failures of c in this invocation
  unscored   \* history: cases whose verdict's error could not be written

pool == <<pending, running, batch>>
pace == <<initial, target, streak>>
disk == <<files, kept, unscored>>
args == <<specs, again, invocations>>
vars == <<pc, args, pace, pool, totals, disk, writeFailures, failures>>

PCs == {"idle", "fill", "wait", "handle", "ended", "stopped"}
Entry == [case: Cases, failed: {0, 1}]
\* Where a task is: awaiting the evaluation, between two writes, or over.
Task == [case: Cases, failed: {0, 1},
         at: {"evaluating", "transcribed", "recorded", "returned", "raised", "broken"}]

\* Each artifact by the attempt that wrote it, 0 when it does not exist.
NoFiles == [transcript |-> 0, run |-> 0, verdict |-> 0, error |-> 0]
NoTotals == [completed |-> 0, errors |-> 0, failedAfterRetry |-> 0]

Over == {t \in running : t.at \in {"returned", "raised", "broken"}}
\* A task between two of its writes holds the event loop.
Held == \E t \in running : t.at \in {"transcribed", "recorded"}
Attempt(t) == t.failed + 1

---------------------------------------------------------------------------
Init ==
  /\ pc = "idle"
  /\ specs = {} /\ again = FALSE
  /\ initial \in Concurrencies /\ target = initial /\ streak = 0
  /\ pending = <<>> /\ running = {} /\ batch = {}
  /\ totals = NoTotals
  /\ files = [c \in Cases |-> NoFiles]
  /\ kept = [c \in Cases |-> FALSE]
  /\ unscored = {}
  /\ invocations = 0 /\ writeFailures = 0
  /\ failures = [c \in Cases |-> 0]

\* A complete run of the case is on disk (latest_result_path, result_is_complete).
Complete(c) == kept[c] \/ files[c].run # 0

\* Mutant of Skipped: a case is run again unless its verdict is there too.
SkippedWhenScored(c) == Complete(c) /\ files[c].verdict # 0

Skipped(c) == Complete(c)

\* The chosen cases in the registry's order, none of them tried yet.
Place(c) == CHOOSE k \in DOMAIN Registry : Registry[k] = c
Ordered(order) == \A i, j \in DOMAIN order : i < j => Place(order[i]) < Place(order[j])
Queue(order) == [i \in DOMAIN order |-> [case |-> order[i], failed |-> 0]]

\* main: the requested cases without a complete run, or all of them under
\* --no-skip, in the registry's order, under a run id of their own.
Invoke(requested, noSkip, concurrency) ==
  LET left == {c \in requested : noSkip \/ ~Skipped(c)} IN
  /\ pc \in {"idle", "ended", "stopped"}
  /\ invocations < MaxInvocations
  /\ left # {}
  /\ invocations' = invocations + 1
  /\ specs' = left /\ again' = noSkip
  /\ initial' = concurrency /\ target' = concurrency /\ streak' = 0
  /\ \E order \in [1..Cardinality(left) -> left] : Ordered(order) /\ pending' = Queue(order)
  /\ running' = {} /\ batch' = {}
  /\ totals' = NoTotals
  /\ kept' = [c \in Cases |-> Complete(c)]
  /\ files' = [c \in Cases |-> NoFiles]
  /\ unscored' = {}
  /\ failures' = [c \in Cases |-> 0]
  /\ pc' = "fill"
  /\ UNCHANGED writeFailures

---------------------------------------------------------------------------
\* Mutant of Room: the pool is filled to the requested size whatever the target.
RoomForOneMore == Cardinality(running) <= target

Room == Cardinality(running) < target

Start ==
  /\ pc = "fill"
  /\ pending # <<>> /\ Room
  /\ pending' = Tail(pending)
  /\ running' = running \cup
       {[case |-> Head(pending).case, failed |-> Head(pending).failed, at |-> "evaluating"]}
  /\ UNCHANGED <<pc, args, pace, batch, totals, disk, writeFailures, failures>>

Wait ==
  /\ pc = "fill"
  /\ running # {}
  /\ pending = <<>> \/ ~Room
  /\ pc' = "wait"
  /\ UNCHANGED <<args, pace, pool, totals, disk, writeFailures, failures>>

Return ==
  /\ pc = "fill"
  /\ pending = <<>> /\ running = {}
  /\ pc' = "ended"
  /\ UNCHANGED <<args, pace, pool, totals, disk, writeFailures, failures>>

\* asyncio.wait returns every task that is over by the time the driver resumes.
Wake ==
  /\ pc = "wait" /\ ~Held
  /\ Over # {}
  /\ batch' = Over
  /\ pc' = "handle"
  /\ UNCHANGED <<args, pace, pending, running, totals, disk, writeFailures, failures>>

---------------------------------------------------------------------------
\* The runs.  They move only while the driver awaits.

Moved(t, at) == (running \ {t}) \cup {[t EXCEPT !.at = at]}

\* Mutant of Transcribed: the evaluation's result is kept, its transcript is not.
NothingTranscribed(t) == files

\* One transcript per conversation, written before the record that cites it.
Transcribed(t) == [files EXCEPT ![t.case].transcript = Attempt(t)]

Transcribe(t) ==
  /\ pc = "wait" /\ ~Held
  /\ t.at = "evaluating"
  /\ running' = Moved(t, "transcribed")
  /\ files' = Transcribed(t)
  /\ UNCHANGED <<pc, args, pace, pending, batch, totals, kept, unscored, writeFailures, failures>>

\* The evaluation fails: an outage, or a defect of the case.
Raise(t, at) ==
  /\ pc = "wait" /\ ~Held
  /\ t.at = "evaluating"
  /\ at \in {"raised", "broken"}
  /\ running' = Moved(t, at)
  /\ UNCHANGED <<pc, args, pace, pending, batch, totals, disk, writeFailures, failures>>

Record(t) ==
  /\ pc = "wait"
  /\ t.at = "transcribed"
  /\ running' = Moved(t, IF ScoreInline THEN "recorded" ELSE "returned")
  /\ files' = [files EXCEPT ![t.case].run = Attempt(t)]
  /\ UNCHANGED <<pc, args, pace, pending, batch, totals, kept, unscored, writeFailures, failures>>

\* The validator's verdict, or the error scoring it met: a verdict file either way.
Score(t) ==
  /\ pc = "wait"
  /\ t.at = "recorded"
  /\ running' = Moved(t, "returned")
  /\ files' = [files EXCEPT ![t.case].verdict = Attempt(t)]
  /\ UNCHANGED <<pc, args, pace, pending, batch, totals, kept, unscored, writeFailures, failures>>

\* A transcript or a record cannot be written: what was there stays.
WriteFails(t) ==
  /\ pc = "wait"
  /\ writeFailures < MaxWriteFailures
  /\ t.at = "transcribed" \/ (t.at = "evaluating" /\ ~Held)
  /\ running' = Moved(t, "raised")
  /\ writeFailures' = writeFailures + 1
  /\ UNCHANGED <<pc, args, pace, pending, batch, totals, disk, failures>>

\* Scoring fails, and so does writing down that it failed.
ScoreFails(t) ==
  /\ pc = "wait"
  /\ t.at = "recorded"
  /\ Cardinality(unscored) < MaxScoreFailures
  /\ running' = Moved(t, "raised")
  /\ unscored' = unscored \cup {t.case}
  /\ UNCHANGED <<pc, args, pace, pending, batch, totals, files, kept, writeFailures, failures>>

---------------------------------------------------------------------------
\* The driver handles what finished, one task at a time in no given order.

Handled(t) == batch' = batch \ {t} /\ running' = running \ {t}

\* Mutant of RecoveryDue: the pool grows back one success late.
RecoveryDueLate == target < initial /\ streak + 1 > RecoverAfter

RecoveryDue == target < initial /\ streak + 1 >= RecoverAfter

Succeed(t) ==
  /\ pc = "handle"
  /\ t \in batch /\ t.at = "returned"
  /\ Handled(t)
  /\ totals' = [totals EXCEPT !.completed = @ + 1]
  /\ target' = IF RecoveryDue THEN target + 1 ELSE target
  /\ streak' = IF RecoveryDue THEN 0 ELSE streak + 1
  /\ UNCHANGED <<pc, args, initial, pending, disk, writeFailures, failures>>

FailedOnce(t) ==
  /\ pc = "handle"
  /\ t \in batch /\ t.at = "raised"
  /\ Handled(t)
  /\ streak' = 0
  /\ failures' = [failures EXCEPT ![t.case] = @ + 1]

\* Mutant of Half: half of one is none.
HalfOrNone(n) == n \div 2

Half(n) == IF n \div 2 >= 1 THEN n \div 2 ELSE 1

\* Mutant of Requeued: the case goes back and stays in the pool as well.
RequeuedTwice(t) == <<[case |-> t.case, failed |-> 1], [case |-> t.case, failed |-> 1]>> \o pending

\* Mutant of Requeued: the retry has forgotten the attempt it follows.
RequeuedAfresh(t) == <<[case |-> t.case, failed |-> 0]>> \o pending

Requeued(t) == <<[case |-> t.case, failed |-> 1]>> \o pending

\* A case's first failure says the provider is unwell: the pool halves, and the
\* case is retried before the ones that wait.
Retry(t) ==
  /\ FailedOnce(t)
  /\ t.failed = 0
  /\ totals' = [totals EXCEPT !.errors = @ + 1]
  /\ target' = Half(target)
  /\ pending' = Requeued(t)
  /\ UNCHANGED <<pc, args, initial, disk, writeFailures>>

\* Mutant of AfterSecondFailure: a retry that fails halves the pool again.
HalvedAgain == Half(target)

AfterSecondFailure == target

\* Mutant of ErrorFile: a case abandoned after its retry leaves no trace.
NoErrorFile(t) == files

ErrorFile(t) == [files EXCEPT ![t.case].error = Attempt(t)]

Abandon(t) ==
  /\ FailedOnce(t)
  /\ t.failed = 1
  /\ totals' = [totals EXCEPT !.errors = @ + 1, !.completed = @ + 1, !.failedAfterRetry = @ + 1]
  /\ target' = AfterSecondFailure
  /\ files' = ErrorFile(t)
  /\ UNCHANGED <<pc, args, initial, pending, kept, unscored, writeFailures>>

\* A defect of the case: everything in flight is cancelled and the run stops.
Stop(t) ==
  /\ pc = "handle"
  /\ t \in batch /\ t.at = "broken"
  /\ pc' = "stopped"
  /\ running' = {} /\ batch' = {}
  /\ UNCHANGED <<args, pace, pending, totals, disk, writeFailures, failures>>

BatchDone ==
  /\ pc = "handle"
  /\ batch = {}
  /\ pc' = "fill"
  /\ UNCHANGED <<args, pace, pool, totals, disk, writeFailures, failures>>

\* The process dies, between two writes as well as anywhere else.
Kill ==
  /\ pc \in {"fill", "wait", "handle"}
  /\ pc' = "idle"
  /\ pending' = <<>> /\ running' = {} /\ batch' = {}
  /\ UNCHANGED <<args, pace, totals, disk, writeFailures, failures>>

---------------------------------------------------------------------------
Driver ==
  \/ Start \/ Wait \/ Return \/ Wake \/ BatchDone
  \/ \E t \in batch : Succeed(t) \/ Retry(t) \/ Abandon(t) \/ Stop(t)

Step(t) ==
  \/ Transcribe(t) \/ Record(t) \/ Score(t)
  \/ \E at \in {"raised", "broken"} : Raise(t, at)
  \/ WriteFails(t) \/ ScoreFails(t)

Runs == \E t \in running : Step(t)

Next ==
  \/ \E requested \in SUBSET Cases, noSkip \in BOOLEAN, n \in Concurrencies :
       Invoke(requested, noSkip, n)
  \/ Driver \/ Runs \/ Kill

Spec == Init /\ [][Next]_vars
\* The event loop runs whatever is ready, and an evaluation ends: its steps are
\* budgeted and its requests time out.
FairSpec == Spec /\ WF_vars(Driver) /\ \A c \in Cases : WF_vars(\E t \in running : t.case = c /\ Step(t))

---------------------------------------------------------------------------
\* The state is well formed: the target stays between one and the requested
\* concurrency, and an artifact is written by a first or a second attempt.
TypeOK ==
  /\ pc \in PCs
  /\ specs \subseteq Cases /\ again \in BOOLEAN
  /\ initial \in Concurrencies /\ target \in 1..initial /\ streak \in Nat
  /\ pending \in Seq(Entry)
  /\ running \subseteq Task
  /\ batch \subseteq running
  /\ totals \in [completed: Nat, errors: Nat, failedAfterRetry: Nat]
  /\ files \in [Cases -> [transcript: 0..2, run: 0..2, verdict: 0..2, error: {0, 2}]]
  /\ kept \in [Cases -> BOOLEAN]
  /\ unscored \subseteq Cases
  /\ invocations \in 0..MaxInvocations /\ writeFailures \in 0..MaxWriteFailures
  /\ failures \in [Cases -> 0..2]

Active == pc \in {"fill", "wait", "handle"}
Waiting == {pending[i].case : i \in DOMAIN pending}
InFlight == {t.case : t \in running}

\* Every case of the invocation is waiting, in flight or counted as completed, and
\* in one of those places only: no retry, batch or abandonment drops a case or runs
\* it twice at once (run_cases' pending, running and completed).
EveryCaseOnce ==
  Active =>
    /\ \A i, j \in DOMAIN pending : pending[i].case = pending[j].case => i = j
    /\ \A t, u \in running : t.case = u.case => t = u
    /\ Waiting \cap InFlight = {}
    /\ Len(pending) + Cardinality(running) + totals.completed = Cardinality(specs)

\* HalvedBy[k][n]: n after k halvings, never below one.
HalvedBy[k \in Nat] == [n \in Nat |-> IF k = 0 THEN n ELSE Half(HalvedBy[k - 1][n])]

\* The provider never sees more runs at once than the invocation asked for, and a
\* case costs the pool at most one halving: the retry of a case that already failed
\* says something about that case and not about the pool.
PoolPaced ==
  /\ Cardinality(running) <= initial
  /\ target >= HalvedBy[Cardinality({c \in Cases : failures[c] > 0})][initial]

\* A pool below its size is always short of the successes that give a place back:
\* none is owed and forgotten, whatever failed in between.
RecoveryNotForgotten == target < initial => streak < RecoverAfter

\* A case with a complete run in the study is not paid for again, across kills and
\* restarts, unless the invocation asked for it; nor is one whose record this very
\* invocation has stored, unless even the note that its scoring failed was lost.
PaidOnce ==
  /\ ~again => \A c \in Cases :
       kept[c] => c \notin Waiting \cup InFlight /\ files[c] = NoFiles
  /\ \A t \in running :
       t.at = "evaluating" /\ files[t.case].run # 0 => t.case \in unscored

\* A record on disk has the transcript it cites, wherever the process died; and when
\* run_cases returns, the disk says what the summary says: each case has a record or
\* an error, not both, and the errors are those counted as failed.
DiskAgrees ==
  /\ \A c \in Cases : files[c].run # 0 => files[c].transcript >= files[c].run
  /\ pc = "ended" /\ unscored = {} =>
       /\ \A c \in specs : (files[c].run # 0) # (files[c].error # 0)
       /\ totals.completed = Cardinality(specs)
       /\ totals.failedAfterRetry = Cardinality({c \in Cases : files[c].error # 0})

\* A record lists every attempt abandoned before the one it holds, an error all of
\* them, so that a study can count every attempt it paid for.
AttemptsOnRecord ==
  \A c \in Cases \ unscored :
    /\ files[c].run # 0 => files[c].run = failures[c] + 1
    /\ files[c].error # 0 => files[c].error = failures[c]

\* Post-hoc scoring that fails costs no model call: a case whose record is on disk
\* is not being evaluated again by the same invocation.
ScoringCostsNoCall ==
  \A t \in running : t.at = "evaluating" => files[t.case].run = 0

\* An invocation ends: a retried case ends with its second attempt, and the pool
\* never waits for a place that nobody gives back.
Terminates == Active ~> ~Active
=============================================================================
