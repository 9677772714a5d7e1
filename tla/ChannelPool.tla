----------------------------- MODULE ChannelPool -----------------------------
(***************************************************************************)
(* The worker pool of the pipeline driver (bench/scripts/run_pipeline.py): *)
(* run_channel brings every case of a study up to Repeats stored runs, one *)
(* pass at a time, with at most Concurrency runs in flight, retrying a     *)
(* case whose run was lost to the infrastructure and pausing the whole     *)
(* pool while the model's endpoint refuses connections.                    *)
(*                                                                         *)
(* The driver is one asyncio task: the runs it started make progress only  *)
(* while it awaits, so every step between two awaits is a state of `pc` in *)
(* which no run may finish.  The process may be killed at any step and     *)
(* started again; only the stored runs survive.                            *)
(***************************************************************************)
EXTENDS Naturals, Sequences, FiniteSets

CONSTANTS
  CaseList,      \* the cases of the study, in the order the driver was given them
  Repeats,       \* --repeats: stored runs each case should end with
  Concurrency,   \* --concurrency: runs in flight
  MaxAttempts,   \* MAX_ATTEMPTS: infrastructure failures a case may have in a pass
  OwnTexts,      \* what an InfrastructureError of a case's own says
  OutageTexts,   \* what one says when the endpoint was down
  RefusalTexts,  \* the texts the driver reads as a refused connection
  MaxStored,     \* bound: most runs of a case already stored when the study starts
  MaxCrashes,    \* bound: how often the driver is killed and started again
  None           \* an empty slot of the pool

Cases == {CaseList[i] : i \in DOMAIN CaseList}
Slots == 1..Concurrency
Texts == OwnTexts \cup OutageTexts

Entry == [case: Cases, attempts: Nat]
Task == [case: Cases, attempts: Nat,
         out: {"active", "passed", "failed", "infra", "raised"},
         cause: {"none", "own", "outage"}, text: Texts \cup {"none"}]

ASSUME CaseListAssumption == CaseList \in Seq(Cases)
ASSUME CountsAssumption ==
  /\ Repeats \in Nat \ {0}
  /\ Concurrency \in Nat \ {0}
  /\ MaxAttempts \in Nat \ {0}
  /\ MaxStored \in Nat
  /\ MaxCrashes \in Nat
ASSUME NoneAssumption == None \notin Task

VARIABLES
  pc,        \* where the driver is: see PCs
  wanted,    \* the pass: the count every case is being brought to
  looked,    \* how many cases the pass has looked at
  stored,    \* stored[c]: runs of c on disk under this configuration
  pending,   \* deque of (case, failed attempts) not started
  running,   \* running[s]: the run occupying slot s, or None
  batch,     \* finished runs the last wait returned and not yet handled
  totals,    \* the summary the driver prints
  up,        \* whether the endpoint serves completions
  answers,   \* whether it satisfies a probe, or there is nothing to probe
  crashes,   \* how often the driver was killed
  failures,  \* history: failures[c] infrastructure failures of c counted in this pass
  passStart, \* history: what was stored when this pass began
  atStart    \* history: what was stored when this invocation began

pass == <<wanted, looked>>
pool == <<pending, running, batch>>
world == <<up, answers, crashes>>
history == <<failures, passStart, atStart>>
vars == <<pc, wanted, looked, stored, pending, running, batch, totals, up,
          answers, crashes, failures, passStart, atStart>>

PCs == {"pass", "survey", "fill", "await", "drain", "requeue", "probe",
        "finished", "aborted", "gaveup", "killed"}

\* The states in which the invocation is over.
Stopped == {"finished", "aborted", "gaveup", "killed"}

Busy == {s \in Slots : running[s] # None}
Idle == Slots \ Busy
Active == {s \in Busy : running[s].out = "active"}
Finished == Busy \ Active

ConnectionRefused(t) == t.text \in RefusalTexts

-----------------------------------------------------------------------------
(* One invocation of the driver: main, then the passes of run_channel. *)

NoTotals == [run |-> 0, passed |-> 0, abandoned |-> 0]
Empty == [s \in Slots |-> None]

Init ==
  /\ pc = "pass"
  /\ wanted = 1
  /\ looked = 0
  /\ stored \in [Cases -> 0..MaxStored]
  /\ pending = <<>>
  /\ running = Empty
  /\ batch = {}
  /\ totals = NoTotals
  /\ up \in BOOLEAN
  /\ answers \in BOOLEAN
  /\ crashes = 0
  /\ failures = [c \in Cases |-> 0]
  /\ passStart = stored
  /\ atStart = stored

\* Mutant of LastPass: a pass beyond the repeats asked for.
OnePassTooMany == Repeats + 1
\* for wanted in range(1, repeats + 1).
LastPass == Repeats

BeginPass ==
  /\ pc = "pass"
  /\ wanted <= LastPass
  /\ looked' = 0
  /\ failures' = [c \in Cases |-> 0]
  /\ passStart' = stored
  /\ pc' = "survey"
  /\ UNCHANGED <<wanted, stored, pool, totals, world, atStart>>

\* Mutant of IsShort: a case that has its count is asked for again.
IsNotPast(c) == stored[c] <= wanted
IsShort(c) == stored[c] < wanted

\* cases_short_of: look at one case after the other; one short of the pass's
\* count is queued, with no attempts.
Survey ==
  /\ pc = "survey"
  /\ looked < Len(CaseList)
  /\ looked' = looked + 1
  /\ LET c == CaseList[looked + 1]
     IN  pending' = IF IsShort(c) THEN Append(pending, [case |-> c, attempts |-> 0])
                    ELSE pending
  /\ UNCHANGED <<pc, wanted, stored, running, batch, totals, world, history>>

SurveyEnds ==
  /\ pc = "survey"
  /\ looked = Len(CaseList)
  /\ pc' = "fill"
  /\ UNCHANGED <<pass, stored, pool, totals, world, history>>

FinishStudy ==
  /\ pc = "pass"
  /\ wanted > LastPass
  /\ pc' = "finished"
  /\ UNCHANGED <<pass, stored, pool, totals, world, history>>

\* A started run that has a place in the pool; its order among them is not kept.
Started(entry) ==
  [case |-> entry.case, attempts |-> entry.attempts,
   out |-> "active", cause |-> "none", text |-> "none"]

Start(s) ==
  /\ pc = "fill"
  /\ pending # <<>>
  /\ s \in Idle
  /\ running' = [running EXCEPT ![s] = Started(Head(pending))]
  /\ pending' = Tail(pending)
  /\ UNCHANGED <<pc, pass, stored, batch, totals, world, history>>

\* No room, or nothing left to start: wait for the first run to finish.
Filled == pending = <<>> \/ Idle = {}

Wait ==
  /\ pc = "fill"
  /\ Filled
  /\ Busy # {}
  /\ pc' = "await"
  /\ UNCHANGED <<pass, stored, pool, totals, world, history>>

EndPass ==
  /\ pc = "fill"
  /\ pending = <<>> /\ Busy = {}
  /\ wanted' = wanted + 1
  /\ pc' = "pass"
  /\ UNCHANGED <<looked, stored, pool, totals, world, history>>

\* asyncio.wait(FIRST_COMPLETED) returns every run that has finished by then.
Wake ==
  /\ pc = "await"
  /\ Finished # {}
  /\ batch' = Finished
  /\ pc' = "drain"
  /\ UNCHANGED <<pass, stored, pending, running, totals, world, history>>

DrainEnds ==
  /\ pc = "drain"
  /\ batch = {}
  /\ pc' = "fill"
  /\ UNCHANGED <<pass, stored, pool, totals, world, history>>

-----------------------------------------------------------------------------
(* What a run does while the driver awaits: _run_and_write. *)

\* The record is on disk before the driver hears of it. A run past the guard is
\* stored too, as failed.
Store(s, verdict) ==
  /\ pc = "await"
  /\ s \in Active
  /\ stored' = [stored EXCEPT ![running[s].case] = @ + 1]
  /\ running' = [running EXCEPT ![s].out = verdict]
  /\ UNCHANGED <<pc, wanted, looked, pending, batch, totals, world, history>>

Complete(s) == \E verdict \in {"passed", "failed"} : Store(s, verdict)

\* An InfrastructureError leaves nothing on disk. While completions are refused,
\* whatever a probe would say, it is the endpoint's, though a run may still fail
\* for a reason of its own.
Fail(s, cause, text) ==
  /\ pc = "await"
  /\ s \in Active
  /\ \/ cause = "own" /\ text \in OwnTexts
     \/ cause = "outage" /\ ~up /\ text \in OutageTexts
  /\ running' = [running EXCEPT ![s] =
                   [@ EXCEPT !.out = "infra", !.cause = cause, !.text = text]]
  /\ failures' = IF text \in RefusalTexts THEN failures
                 ELSE [failures EXCEPT ![running[s].case] = @ + 1]
  /\ UNCHANGED <<pc, pass, stored, pending, batch, totals, world, passStart, atStart>>

\* BenchmarkSpecificationError, or any exception that is not an outage.
RaiseError(s) ==
  /\ pc = "await"
  /\ s \in Active
  /\ running' = [running EXCEPT ![s].out = "raised"]
  /\ UNCHANGED <<pc, pass, stored, pending, batch, totals, world, history>>

-----------------------------------------------------------------------------
(* Handling one finished run of the batch; the batch is a set, so in any order. *)

EntryOf(t) == [case |-> t.case, attempts |-> t.attempts]

Retried(t) == [EntryOf(t) EXCEPT !.attempts = @ + 1]

\* pending.append: a case that failed goes behind the others, an attempt poorer.
PutBehind(t) == Append(pending, Retried(t))

\* Mutants of PutBack: at the price of an attempt; cancelled and forgotten.
PutBackAtACost(t) == <<Retried(t)>> \o pending
PutBackNothing(t) == pending
\* pending.appendleft: a case the endpoint refused goes first, as it was.
PutBack(t) == <<EntryOf(t)>> \o pending

\* Mutant of PoppedFrom: a handled run keeps its place.
KeptInPool(s) == running
\* running.pop(task).
PoppedFrom(s) == [running EXCEPT ![s] = None]

Pop(s) ==
  /\ pc = "drain"
  /\ s \in batch
  /\ batch' = batch \ {s}
  /\ running' = PoppedFrom(s)

\* Mutant of CountedRun: only the runs that passed count.
CountedIfPassed(t) ==
  IF t.out = "passed" THEN [totals EXCEPT !.run = @ + 1, !.passed = @ + 1] ELSE totals
CountedRun(t) ==
  [run |-> totals.run + 1,
   passed |-> IF t.out = "passed" THEN totals.passed + 1 ELSE totals.passed,
   abandoned |-> totals.abandoned]

Count(s) ==
  /\ Pop(s)
  /\ running[s].out \in {"passed", "failed"}
  /\ totals' = CountedRun(running[s])
  /\ UNCHANGED <<pc, pass, stored, pending, world, history>>

FailedItself(t) == t.out = "infra" /\ ~ConnectionRefused(t)
HasAttemptsLeft(t) == t.attempts + 1 < MaxAttempts

Retry(s) ==
  /\ Pop(s)
  /\ FailedItself(running[s]) /\ HasAttemptsLeft(running[s])
  /\ pending' = PutBehind(running[s])
  /\ UNCHANGED <<pc, pass, stored, totals, world, history>>

\* Mutant of ReportedAbandoned: the summary does not tell of it.
NotReported == totals
ReportedAbandoned == [totals EXCEPT !.abandoned = @ + 1]

Abandon(s) ==
  /\ Pop(s)
  /\ FailedItself(running[s]) /\ ~HasAttemptsLeft(running[s])
  /\ totals' = ReportedAbandoned
  /\ UNCHANGED <<pc, pass, stored, pending, world, history>>

\* The endpoint refused: this run goes back unchanged and the rest of the batch
\* is left for the next wait.
Refused(s) ==
  /\ pc = "drain"
  /\ s \in batch
  /\ running[s].out = "infra" /\ ConnectionRefused(running[s])
  /\ pending' = PutBack(running[s])
  /\ running' = PoppedFrom(s)
  /\ batch' = {}
  /\ pc' = "requeue"
  /\ UNCHANGED <<pass, stored, totals, world, history>>

\* Mutant of Unfinished: finished runs are put back too.
EvenTheDone == Busy
\* ... and so does every run still in flight, cancelled, one after the other.
Unfinished == Active

Requeue(s) ==
  /\ pc = "requeue"
  /\ s \in Unfinished
  /\ pending' = PutBack(running[s])
  /\ running' = PoppedFrom(s)
  /\ UNCHANGED <<pc, pass, stored, batch, totals, world, history>>

Requeued ==
  /\ pc = "requeue"
  /\ Unfinished = {}
  /\ pc' = "probe"
  /\ UNCHANGED <<pass, stored, pool, totals, world, history>>

\* _wait_for_endpoint: a probe of /models every 30 s for at most an hour, ended by
\* any status below 500, which says nothing of completions; a model without a
\* base_url is not probed at all.
Answered ==
  /\ pc = "probe"
  /\ answers
  /\ pc' = "fill"
  /\ UNCHANGED <<pass, stored, pool, totals, world, history>>

\* Mutant of GiveUp: the probing goes on for ever.
ProbeForever == pc = "probe" /\ ~answers /\ UNCHANGED vars

GiveUp ==
  /\ pc = "probe"
  /\ ~answers
  /\ pc' = "gaveup"
  /\ UNCHANGED <<pass, stored, pool, totals, world, history>>

\* The error names a defect of the case: everything in flight is cancelled.
Abort(s) ==
  /\ pc = "drain"
  /\ s \in batch
  /\ running[s].out = "raised"
  /\ running' = Empty
  /\ batch' = {}
  /\ pc' = "aborted"
  /\ UNCHANGED <<pass, stored, pending, totals, world, history>>

-----------------------------------------------------------------------------
(* The surroundings: the endpoint, and whoever kills and restarts the driver. *)

\* It goes down and comes back as often as it likes, and what it says to a probe
\* need not be what it does with a completion.
EndpointChanges ==
  /\ up' \in BOOLEAN
  /\ answers' \in BOOLEAN
  /\ UNCHANGED <<pc, pass, pool, totals, stored, crashes, history>>

Kill ==
  /\ pc \notin Stopped
  /\ crashes < MaxCrashes
  /\ crashes' = crashes + 1
  /\ pc' = "killed"
  /\ pending' = <<>>
  /\ running' = Empty
  /\ batch' = {}
  /\ UNCHANGED <<pass, stored, totals, up, answers, history>>

\* The same command again: it asks only for what is missing.
Restart ==
  /\ pc \in Stopped
  /\ pc' = "pass"
  /\ wanted' = 1
  /\ looked' = 0
  /\ pending' = <<>>
  /\ running' = Empty
  /\ batch' = {}
  /\ totals' = NoTotals
  /\ failures' = [c \in Cases |-> 0]
  /\ passStart' = stored
  /\ atStart' = stored
  /\ UNCHANGED <<stored, world>>

-----------------------------------------------------------------------------
Driver ==
  \/ BeginPass \/ Survey \/ SurveyEnds \/ FinishStudy \/ Wait \/ EndPass \/ Wake \/ DrainEnds
  \/ Requeued \/ Answered \/ GiveUp
  \/ \E s \in Slots : Start(s) \/ Count(s) \/ Retry(s) \/ Abandon(s)
                      \/ Refused(s) \/ Requeue(s) \/ Abort(s)

Run(s) ==
  \/ Complete(s)
  \/ \E cause \in {"own", "outage"}, text \in Texts : Fail(s, cause, text)
  \/ RaiseError(s)

Next ==
  \/ Driver
  \/ \E s \in Slots : Run(s)
  \/ EndpointChanges \/ Kill \/ Restart

Spec == Init /\ [][Next]_vars

\* The event loop runs whatever is ready, and no run outlasts PIPELINE_TIMEOUT_S;
\* nothing obliges the endpoint to come back, or to be down when it refuses.
FairSpec == Spec /\ WF_vars(Driver) /\ \A s \in Slots : WF_vars(Run(s))

-----------------------------------------------------------------------------
(* What is claimed of the pool. *)

\* What TLC and the proofs mean by a well-formed state.
TypeOK ==
  /\ pc \in PCs
  /\ wanted \in 1..(Repeats + 1)
  /\ looked \in 0..Len(CaseList)
  /\ stored \in [Cases -> Nat]
  /\ pending \in Seq(Entry)
  /\ running \in [Slots -> Task \cup {None}]
  /\ batch \subseteq Slots
  /\ totals \in [run: Nat, passed: Nat, abandoned: Nat]
  /\ up \in BOOLEAN
  /\ answers \in BOOLEAN
  /\ crashes \in Nat
  /\ failures \in [Cases -> Nat]
  /\ passStart \in [Cases -> Nat]
  /\ atStart \in [Cases -> Nat]

\* The driver was not given the same case twice.
DistinctCases ==
  \A i, j \in DOMAIN CaseList : CaseList[i] = CaseList[j] => i = j

\* A case has one place in the pool: it is never queued twice, in flight twice,
\* or queued while in flight (two runs of one case would both be stored). The
\* outage branch moves runs from flight to queue while others have finished.
QueueUnique ==
  \A i, j \in DOMAIN pending : pending[i].case = pending[j].case => i = j
FlightUnique ==
  \A s, t \in Busy : running[s].case = running[t].case => s = t
QueueFlightDisjoint ==
  \A i \in DOMAIN pending, s \in Busy : pending[i].case # running[s].case
NoCaseTwice == QueueUnique /\ FlightUnique /\ QueueFlightDisjoint

\* Re-running the command "can never push a case past its repeats", however the
\* invocations were killed: a case above Repeats was there when this one began.
NeverPastRepeats ==
  \A c \in Cases : stored[c] > Repeats => stored[c] = atStart[c]

\* A run that has stored nothing is still owed to its pass: its case was short
\* when the pass began and has gained nothing since.
Unstored(s) == running[s].out \notin {"passed", "failed"}
StillShort(c) == stored[c] = passStart[c] /\ stored[c] < wanted
OwedWork ==
  /\ \A i \in DOMAIN pending : StillShort(pending[i].case)
  /\ \A s \in Busy : Unstored(s) => StillShort(running[s].case)

\* The attempts a queued or running case carries are the failures it had in
\* this pass that were not the endpoint refusing, through every requeue.
Counted(s) == IF FailedItself(running[s]) THEN 1 ELSE 0
AttemptsCounted ==
  /\ \A i \in DOMAIN pending :
        /\ pending[i].attempts = failures[pending[i].case]
        /\ pending[i].attempts < MaxAttempts
  /\ \A s \in Busy :
        /\ failures[running[s].case] = running[s].attempts + Counted(s)
        /\ running[s].attempts < MaxAttempts

\* No case falls out of a pass: one that began it short is queued, in flight, has
\* stored its run, or was abandoned after MaxAttempts failures -- also across the
\* outage branch, which leaves the loop over the batch half way.
Queued(c) == \E i \in DOMAIN pending : pending[i].case = c
InFlight(c) == \E s \in Busy : running[s].case = c
InPass == pc \notin Stopped \cup {"pass", "survey"}
Owed == {c \in Cases : StillShort(c) /\ failures[c] < MaxAttempts}
NothingLost == InPass => \A c \in Owed : Queued(c) \/ InFlight(c)

\* The pool's account of its cases stays exact through retries, the outage branch
\* and every order the runs finish in: a case has one place, is worked on only
\* while its pass owes it a run, carries its own failures, and is never dropped.
CasesAccounted == NoCaseTwice /\ OwedWork /\ AttemptsCounted /\ NothingLost

\* The runs this invocation has stored, and those the study is short of; the n-th
\* run of a case is <<c, n>>.
StoredHere == UNION {{c} \X ((atStart[c] + 1)..stored[c]) : c \in Cases}
ShortBy == UNION {{c} \X ((stored[c] + 1)..Repeats) : c \in Cases}

\* The summary tells the truth: the runs it counts are those this invocation
\* stored, less the ones finished and not yet handled.
CountsWhatItStored ==
  pc \notin {"killed", "aborted"} =>
    totals.run + Cardinality({s \in Finished : ~Unstored(s)}) = Cardinality(StoredHere)

\* ... and the runs it reports abandoned are exactly those the study ends short.
ShortByWhatItAbandoned ==
  pc = "finished" => totals.abandoned = Cardinality(ShortBy)

\* The summary an invocation prints agrees with the disk (run_channel's totals).
SummaryIsTrue == CountsWhatItStored /\ ShortByWhatItAbandoned

\* An endpoint that is down "should cost none of them anything": handling a run
\* the outage failed puts its case back with the attempts it had.
OutageCostsNothing ==
  [][\A s \in Busy :
       /\ pc = "drain" /\ pc' # "aborted" /\ pc' # "killed"
       /\ running[s].cause = "outage"
       /\ running'[s] = None
       => \E i \in DOMAIN pending' : pending'[i] = EntryOf(running[s])]_vars

\* An invocation ends, however its runs fail and however often the endpoint goes
\* and comes back before: the driver prints its summary, or gives up, if in the end
\* completions are served, or a probe says that they are not. (A refused run keeps
\* its attempts, so where completions are refused and the probe is satisfied, or
\* there is none, nothing ends it.)
ServedInTheEnd == <>[]up
ProbedDownInTheEnd == <>[]~answers
Terminates ==
  ServedInTheEnd \/ ProbedDownInTheEnd => ((pc = "pass") ~> (pc \in Stopped))

\* A case abandoned in one pass "is picked up by the next pass", and run_channel
\* is to "bring every case up to repeats": unless the last pass gave up on it, a
\* case ends the study with its repeats.
EveryCaseBroughtUp ==
  pc = "finished" =>
    \A c \in Cases : stored[c] >= Repeats \/ failures[c] = MaxAttempts

PassesBegun == IF pc \in {"pass", "survey", "finished"} THEN wanted - 1
               ELSE IF InPass THEN wanted ELSE 0
StillOwed == IF InPass THEN Owed ELSE {}
Promise == INSTANCE StudyPromise WITH level <- PassesBegun, owed <- StillOwed

\* The driver does what the study promises (StudyPromise): a run is owed until
\* it is on disk or its last attempt has failed.
KeepsPromise == Promise!Spec
=============================================================================
