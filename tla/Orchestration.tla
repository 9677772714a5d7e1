---------------------------- MODULE Orchestration ----------------------------
(***************************************************************************)
(* An orchestrated case of the rounds study (bench/core/rounds_evaluator.py*)
(* over the Worker of orchestration_evaluator.py and the ObjectWorker of   *)
(* fidelity_evaluator.py).  The orchestrator is an agent: the code it      *)
(* writes runs the workers of a chain when, as often and as concurrently   *)
(* as it likes, and may cancel a run.  The host only keeps what each run   *)
(* left, and judges the chain when the orchestrator stops.                 *)
(*                                                                         *)
(* A worker's object is told by the call that last wrote it, 0 before any. *)
(* The objects are handed on by reference, so a later worker may write     *)
(* into the one it was handed.  A call is stamped as it begins, on a clock *)
(* all workers share, so its stamp is its place among the calls.           *)
(***************************************************************************)
EXTENDS Naturals, Sequences, FiniteSets, SequencesExt

CONSTANTS
  Depth,        \* workers in the chain: the producer, the revisers, the consumer
  Limit,        \* TOKEN_BUDGET, in model calls
  MaxCalls,     \* bound: runs of workers in a case
  MaxSpent      \* bound: model calls of a case

ASSUME BoundsAssumption ==
  /\ Depth \in Nat \ {0}
  /\ Limit \in Nat
  /\ MaxCalls \in Nat
  /\ MaxSpent \in Nat

Workers == 1..Depth
Versions == 0..MaxCalls
\* What there may be none of: an empty sequence, or one of one value.
Maybe(S) == {<<>>} \cup {<<v>> : v \in S}

\* A call of a worker's run.  told, stamp and delivered are its entry in attempts;
\* size is what the call remembers of the worker's list; the rest is history.
Call == [worker: Workers, at: {"running", "completed", "failed", "refused"},
         size: Nat, told: BOOLEAN, stamp: Nat, delivered: Maybe(Versions),
         left: Maybe(Versions), before: Maybe(Versions), amid: BOOLEAN, down: BOOLEAN]

VARIABLES
  pc,        \* "directing" | "judged" | "outage" | "crashed"
  calls,     \* every call of a worker, in the order they began
  object,    \* object[w]: what the runtime of w holds under its output's name
  started,   \* started[w]: the stamps of its calls
  delivered, \* delivered[w]: what its runs left, copied as they returned
  responses, \* responses[w]: how many of its runs have returned
  outage,    \* outage[w]: whether one of them was lost to the infrastructure
  spent,     \* model calls of all agents of the case
  overlapped \* history: the calls another call of their worker overlapped

vars ==
  <<pc, calls, object, started, delivered, responses, outage, spent, overlapped>>

Init ==
  /\ pc = "directing"
  /\ calls = <<>>
  /\ object = [w \in Workers |-> 0]
  /\ started = [w \in Workers |-> <<>>]
  /\ delivered = [w \in Workers |-> <<>>]
  /\ responses = [w \in Workers |-> 0]
  /\ outage = [w \in Workers |-> FALSE]
  /\ spent = 0
  /\ overlapped = {}

CallsOf(w) == {i \in DOMAIN calls : calls[i].worker = w}
Running(w) == \E i \in CallsOf(w) : calls[i].at = "running"
LastOf(seq) == IF seq = <<>> THEN <<>> ELSE <<Last(seq)>>

---------------------------------------------------------------------------
\* Mutant of OverBudget: a run is refused as soon as the budget is used up.
BudgetUsedUp == spent >= Limit

OverBudget == spent > Limit

BudgetExceeded == spent > Limit

Begun(w) ==
  [worker |-> w, at |-> "running", size |-> Len(delivered[w]),
   told |-> FALSE, stamp |-> 0, delivered |-> <<>>, left |-> <<>>,
   before |-> IF w = 1 THEN <<>> ELSE LastOf(delivered[w - 1]),
   amid |-> w > 1 /\ Running(w - 1), down |-> FALSE]

\* Stamped and told like any other, but the run never begins.
Refused(w) ==
  [Begun(w) EXCEPT !.at = "refused", !.told = TRUE, !.stamp = Len(calls) + 1]

\* The worker may be running: nothing keeps the orchestrator's code from gathering
\* two runs of one worker, and they share its lists.
Overlaps(w) ==
  IF Running(w) THEN {i \in CallsOf(w) : calls[i].at = "running"} \cup {Len(calls) + 1} ELSE {}

RunWorker(w) ==
  /\ pc = "directing"
  /\ Len(calls) < MaxCalls
  /\ overlapped' = overlapped \cup Overlaps(w)
  /\ started' = [started EXCEPT ![w] = Append(@, Len(calls) + 1)]
  /\ calls' = Append(calls, IF OverBudget THEN Refused(w) ELSE Begun(w))
  /\ UNCHANGED <<pc, object, delivered, responses, outage, spent>>

\* An agent of the case, the orchestrator too, calls its model.
ModelCall ==
  /\ pc = "directing"
  /\ spent < MaxSpent
  /\ spent' = spent + 1
  /\ UNCHANGED <<pc, calls, object, started, delivered, responses, outage, overlapped>>

\* A run writes its own object, or into the one it was handed.
Write(i, w) ==
  /\ pc = "directing"
  /\ calls[i].at = "running"
  /\ w = calls[i].worker \/ (w + 1 = calls[i].worker /\ object[w] # 0)
  /\ object' = [object EXCEPT ![w] = i]
  /\ UNCHANGED <<pc, calls, started, delivered, responses, outage, spent, overlapped>>

---------------------------------------------------------------------------
(* How a call ends. *)

\* started[-1]: the stamp of the latest call of the worker.
LatestStamp(w) == Last(started[w])

\* Mutant of New: what the worker left last, whichever run it was.
LatestDelivered(list, size) == LastOf(list)

\* What has joined the list since the call began.
New(list, size) == IF Len(list) > size THEN <<list[size + 1]>> ELSE <<>>

\* finally: the entry of a call is filled in however it ended.
Ended(i, at, list) ==
  [calls[i] EXCEPT !.at = at, !.told = TRUE, !.stamp = LatestStamp(calls[i].worker),
                   !.delivered = New(list, calls[i].size)]

\* Mutant of OutageOf: the worker's last run says whether there was an outage.
LatestOutage(w, down) == down

OutageOf(w, down) == outage[w] \/ down

Responded(w) == [responses EXCEPT ![w] = @ + 1]

Responds(w, down) ==
  /\ responses' = Responded(w)
  /\ outage' = [outage EXCEPT ![w] = OutageOf(w, down)]

\* The agent has answered, or stopped on an error, and what its runtime holds is
\* copied as the run returns.
Return(i, down) ==
  LET w == calls[i].worker
      list == Append(delivered[w], object[w])
  IN  /\ pc = "directing"
      /\ calls[i].at = "running"
      /\ Responds(w, down)
      /\ delivered' = [delivered EXCEPT ![w] = list]
      /\ calls' = [calls EXCEPT ![i] =
                     [Ended(i, "completed", list) EXCEPT !.left = <<object[w]>>, !.down = down]]
      /\ UNCHANGED <<pc, object, started, spent, overlapped>>

\* The file the run wrote cannot be read back.
SnapshotFails(i, down) ==
  LET w == calls[i].worker
  IN  /\ pc = "directing"
      /\ calls[i].at = "running"
      /\ Responds(w, down)
      /\ calls' = [calls EXCEPT ![i] = [Ended(i, "failed", delivered[w]) EXCEPT !.down = down]]
      /\ UNCHANGED <<pc, object, started, delivered, spent, overlapped>>

\* The orchestrator's code cancels the run, or the agent raises.
Cancelled(i) ==
  /\ pc = "directing"
  /\ calls[i].at = "running"
  /\ calls' = [calls EXCEPT ![i] = Ended(i, "failed", delivered[calls[i].worker])]
  /\ UNCHANGED <<pc, object, started, delivered, responses, outage, spent, overlapped>>

---------------------------------------------------------------------------
(* The host's judgement, once the orchestrator has stopped. *)

\* _Judge.invocations reads the entry of every call.
EveryCallTold == \A i \in DOMAIN calls : calls[i].told

OrchestratorStops(down) ==
  /\ pc = "directing"
  /\ pc' = IF down \/ \E w \in Workers : outage[w] THEN "outage"
           ELSE IF EveryCallTold THEN "judged" ELSE "crashed"
  /\ UNCHANGED <<calls, object, started, delivered, responses, outage, spent, overlapped>>

Ran == [i \in DOMAIN calls |-> calls[i].worker]
RanAsDesigned == Ran = [w \in Workers |-> w]
Skipped == {w \in Workers : responses[w] = 0}

\* Mutant of JudgedOutput: what the runtime holds now.
HeldNow(w) == IF responses[w] = 0 THEN <<>> ELSE <<object[w]>>

\* _Judge.hop: what the worker's last run to leave anything left.
JudgedOutput(w) == LastOf(delivered[w])

Told(i) == calls[i].delivered # <<>>

\* Mutant of PreviousCalls: the run before counts whenever it was.
PreviousCallsEver(i) == {j \in CallsOf(calls[i].worker - 1) : Told(j)}

PreviousCalls(i) ==
  {j \in CallsOf(calls[i].worker - 1) : Told(j) /\ calls[j].stamp < calls[i].stamp}

\* What _Judge.invocations holds a run against: left by the worker before it.
PreviousOutput(i) ==
  LET left == PreviousCalls(i)
  IN  IF left = {} THEN <<>> ELSE calls[CHOOSE j \in left : \A k \in left : k <= j].delivered

---------------------------------------------------------------------------
Runs(i) ==
  \/ \E w \in Workers : Write(i, w)
  \/ \E down \in BOOLEAN : Return(i, down) \/ SnapshotFails(i, down)
  \/ Cancelled(i)

Next ==
  \/ \E w \in Workers : RunWorker(w)
  \/ ModelCall
  \/ \E i \in DOMAIN calls : Runs(i)
  \/ \E down \in BOOLEAN : OrchestratorStops(down)

Spec == Init /\ [][Next]_vars

---------------------------------------------------------------------------
WellFormed ==
  /\ pc \in {"directing", "judged", "outage", "crashed"}
  /\ calls \in Seq(Call) /\ Len(calls) <= MaxCalls
  /\ object \in [Workers -> Versions]
  /\ started \in [Workers -> Seq(1..MaxCalls)]
  /\ delivered \in [Workers -> Seq(Versions)]
  /\ responses \in [Workers -> Nat]
  /\ outage \in [Workers -> BOOLEAN]
  /\ spent \in 0..MaxSpent
  /\ overlapped \subseteq DOMAIN calls

\* The state is well formed: no call is counted twice in a worker's responses, and
\* what it delivered is no more than it responded.
TypeOK ==
  /\ WellFormed
  /\ \A w \in Workers : Len(delivered[w]) <= responses[w] /\ responses[w] <= Cardinality(CallsOf(w))

\* An outage inside the orchestrator's cell is only output to it; however often the
\* worker is run again afterwards, the case is never judged and stored as an answer.
OutageSurfaces == pc = "judged" => \A i \in DOMAIN calls : ~calls[i].down

\* No other call of its worker began or was under way while it was.
Alone(i) == i \notin overlapped

\* A worker run twice "can be judged on its first run as well as its last": the entry
\* of a call tells its own stamp and what that very run left, and of a run that was
\* cancelled, refused or could not be read back, nothing. Calls of one worker that
\* overlap mix up each other's entries, and nobody else's.
AttemptIsItsOwn ==
  \A i \in DOMAIN calls :
    calls[i].told /\ (Alone(i) \/ calls[i].at = "refused")
    => calls[i].stamp = i /\ calls[i].delivered = calls[i].left

\* Each run is judged "against the output the worker before it had last left when
\* that run began", unless a run of that worker was then under way, or calls whose
\* entries the judgement reads overlapped.
Unmixed(i) == Alone(i) /\ \A j \in CallsOf(calls[i].worker - 1) : j < i => Alone(j)
ReadAgainstWhatWasLeft ==
  pc = "judged" =>
    \A i \in DOMAIN calls :
      calls[i].worker > 1 /\ Told(i) /\ ~calls[i].amid /\ Unmixed(i)
      => PreviousOutput(i) = calls[i].before

\* A worker is judged on what one of its runs held as it returned, and on its last
\* run's if no other overlapped that: a worker after it may write into that object,
\* and a rerun may fail, without rewriting the verdict.
Returned(w) == {i \in CallsOf(w) : calls[i].left # <<>>}
LastReturned(w) == CHOOSE i \in Returned(w) : \A j \in Returned(w) : j <= i
JudgedAsItReturned ==
  pc = "judged" =>
    \A w \in Workers :
      IF Returned(w) = {} THEN JudgedOutput(w) = <<>>
      ELSE /\ \E i \in Returned(w) : JudgedOutput(w) = calls[i].left
           /\ Alone(LastReturned(w)) => JudgedOutput(w) = calls[LastReturned(w)].left

\* Enforcing the budget "only stops paying for a run already lost": a case in which a
\* worker was refused is one the budget fails when it is judged.
RefusedRunsAreLost ==
  pc = "judged" /\ (\E i \in DOMAIN calls : calls[i].at = "refused") => BudgetExceeded

\* What the infrastructure or the budget took from a case is never stored as an answer.
LossesSurface == OutageSurfaces /\ RefusedRunsAreLost

\* A run is judged on what it left itself, against what it was to start from.
JudgedOnItsRun == JudgedAsItReturned /\ ReadAgainstWhatWasLeft

\* A case that went as designed ran each worker once, in order.
DesignedMeansEachRan == pc = "judged" /\ RanAsDesigned => Skipped = {}

\* Every call has its entry, "finished or not", so that the host can judge it.
FinishedOrNot == pc # "crashed"
=============================================================================
