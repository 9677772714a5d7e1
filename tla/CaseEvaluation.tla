--------------------------- MODULE CaseEvaluation ---------------------------
(***************************************************************************)
(* One evaluation of a case (bench/core/evaluator.py): its conversations   *)
(* are asked turn by turn, a turn that ran no code may be nudged within    *)
(* what is left of its step budget, and every model call is counted, also  *)
(* when the attempt is lost to the infrastructure.                         *)
(***************************************************************************)
EXTENDS Integers, Sequences, FiniteSets

CONSTANTS
  Conversations, \* the case: a sequence of turns each, a turn being the outputs it stores
  Budget,        \* total_step_budget
  MaxNudges,     \* max_protocol_nudges
  MaxResumed     \* bound: calls of a run beyond one a step (replies resumed)

Turns(c) == DOMAIN Conversations[c]
Outputs == UNION {UNION {Conversations[c][t] : t \in Turns(c)} : c \in DOMAIN Conversations}

ASSUME CaseAssumption ==
  /\ Conversations \in Seq(Seq(SUBSET Outputs) \ {<<>>})
  /\ Conversations # <<>>
ASSUME BudgetAssumption ==
  /\ Budget \in Nat \ {0}
  /\ MaxNudges \in 0..2
  /\ MaxResumed \in Nat

VARIABLES
  pc,         \* where the evaluation is: see PCs
  conv, turn, \* the conversation and the turn being asked
  registered, \* outputs the runtime of this conversation names
  maxSteps,   \* agent.max_steps
  agentSpent, \* agent.spent: calls of this conversation's agent
  before,     \* spent_before: agent.spent when its latest run began
  result,     \* the latest run of the agent
  turnSteps,  \* totals["steps"]
  turnSpent,  \* all_spent: what the turn's record will say it cost
  nudges,     \* protocol_nudges
  recorded,   \* calls in the turn records of this conversation
  finished,   \* calls of the conversations that are finished
  errorSpent, \* error.spent
  paid,       \* history: every model call
  ranCode     \* history: whether a run of this turn executed code

place == <<conv, turn, registered>>
agent == <<maxSteps, agentSpent, before, result>>
record == <<turnSteps, turnSpent, nudges>>
counts == <<recorded, finished, errorSpent>>
history == <<paid, ranCode>>
vars == <<pc, place, agent, record, counts, history>>

PCs == {"open", "turn", "run", "judge", "lost", "over", "raised", "stopped"}

Stops == {"completed", "max_steps", "caused", "infra"}

\* What one run of the agent comes back with: an "infra" stop is an error the
\* conversation did not cause, a "caused" one is scored.
Result(limit) ==
  {r \in [steps: 1..limit, resumed: 0..MaxResumed, code: BOOLEAN, stop: Stops] :
     r.stop = "max_steps" => r.steps = limit}

\* What the validator says of the outputs, and whether one is really unset.
Verdict == [notSet: BOOLEAN, missing: BOOLEAN]

Init ==
  /\ pc = "open"
  /\ conv = 1 /\ turn = 1 /\ registered = {}
  /\ maxSteps = Budget /\ agentSpent = 0 /\ before = 0
  /\ result = [steps |-> 1, resumed |-> 0, code |-> FALSE, stop |-> "completed"]
  /\ turnSteps = 0 /\ turnSpent = 0 /\ nudges = 0
  /\ recorded = 0 /\ finished = 0 /\ errorSpent = 0
  /\ paid = 0 /\ ranCode = FALSE

---------------------------------------------------------------------------
\* Mutant of FirstOutputs: the runtime names every output from the start.
AllOutputs == Outputs

FirstOutputs == Conversations[conv][1]

\* Each conversation has a runtime and an agent of its own.
OpenConversation ==
  /\ pc = "open"
  /\ pc' = "turn"
  /\ registered' = FirstOutputs
  /\ agentSpent' = 0
  /\ recorded' = 0
  /\ UNCHANGED <<conv, turn, maxSteps, before, result, record, finished, errorSpent, history>>

BeginTurn ==
  /\ pc = "turn"
  /\ pc' = "run"
  /\ registered' = registered \cup Conversations[conv][turn]
  /\ maxSteps' = Budget
  /\ before' = agentSpent
  /\ turnSteps' = 0 /\ turnSpent' = 0 /\ nudges' = 0
  /\ ranCode' = FALSE
  /\ UNCHANGED <<conv, turn, agentSpent, result, counts, paid>>

Calls(r) == r.steps + r.resumed

\* The agent runs the query, or a nudge, and the turn counts what it cost.
RunAgent(r) ==
  /\ pc = "run"
  /\ r \in Result(maxSteps)
  /\ result' = r
  /\ agentSpent' = agentSpent + Calls(r)
  /\ paid' = paid + Calls(r)
  /\ ranCode' = (ranCode \/ r.code)
  /\ IF r.stop = "infra"
     THEN pc' = "lost" /\ UNCHANGED <<turnSteps, turnSpent>>
     ELSE /\ pc' = "judge"
          /\ turnSteps' = turnSteps + r.steps
          /\ turnSpent' = turnSpent + agentSpent' - before
  /\ UNCHANGED <<place, maxSteps, before, nudges, counts>>

\* Mutant of MissedTurn: a turn that ran code and set nothing is nudged too.
UnsetTurn == result.stop = "completed" /\ turnSteps < Budget

\* _needs_protocol_repair, as far as the run decides it.
MissedTurn == ~result.code /\ result.stop = "completed" /\ turnSteps < Budget

NeedsRepair(v) == v.notSet /\ v.missing /\ MissedTurn /\ nudges < MaxNudges

\* Mutant of RemainingSteps: the nudge is given the whole budget again.
WholeBudget == Budget

RemainingSteps == Budget - turnSteps

\* Mutant of SpentBefore: the nudge is counted from where the turn began.
SpentBeforeTurn == before

SpentBefore == agentSpent

Nudge(v) ==
  /\ pc = "judge"
  /\ NeedsRepair(v)
  /\ pc' = "run"
  /\ nudges' = nudges + 1
  /\ maxSteps' = RemainingSteps
  /\ before' = SpentBefore
  /\ UNCHANGED <<place, agentSpent, result, turnSteps, turnSpent, counts, history>>

\* The turn is recorded; after the last one the conversation is finished.
RecordTurn(v) ==
  /\ pc = "judge"
  /\ ~NeedsRepair(v)
  /\ recorded' = recorded + turnSpent
  /\ IF turn < Len(Conversations[conv])
     THEN pc' = "turn" /\ turn' = turn + 1 /\ UNCHANGED <<conv, finished>>
     ELSE /\ finished' = finished + agentSpent
          /\ turn' = 1
          /\ IF conv < Len(Conversations)
             THEN pc' = "open" /\ conv' = conv + 1
             ELSE pc' = "over" /\ conv' = conv
  /\ UNCHANGED <<registered, agent, record, errorSpent, history>>

\* The validator raises: a defect of the case, which is not retried.
Defect ==
  /\ pc = "judge"
  /\ pc' = "stopped"
  /\ UNCHANGED <<place, agent, record, counts, history>>

\* Mutant of SpentSoFar: the conversations already finished are forgotten.
SpentInThisOne == agentSpent

SpentSoFar == agentSpent + finished

\* The attempt is abandoned with what it had spent.
RaiseInfrastructureError ==
  /\ pc = "lost"
  /\ pc' = "raised"
  /\ errorSpent' = SpentSoFar
  /\ UNCHANGED <<place, agent, record, recorded, finished, history>>

Next ==
  \/ OpenConversation \/ BeginTurn \/ Defect \/ RaiseInfrastructureError
  \/ \E r \in Result(maxSteps) : RunAgent(r)
  \/ \E v \in Verdict : Nudge(v) \/ RecordTurn(v)

Spec == Init /\ [][Next]_vars

---------------------------------------------------------------------------
\* The state is well formed; the agent is never run with no steps to take.
TypeOK ==
  /\ pc \in PCs
  /\ conv \in DOMAIN Conversations /\ turn \in Turns(conv)
  /\ registered \subseteq Outputs
  /\ maxSteps \in 1..Budget
  /\ agentSpent \in Nat /\ before \in Nat /\ turnSteps \in Nat /\ turnSpent \in Nat
  /\ recorded \in Nat /\ finished \in Nat /\ errorSpent \in Nat
  /\ paid \in Nat
  /\ result \in [steps: 1..Budget, resumed: 0..MaxResumed, code: BOOLEAN, stop: Stops]
  /\ nudges \in 0..MaxNudges
  /\ ranCode \in BOOLEAN

\* What a study pays is what it counts: the calls of a case that ends are those of
\* its conversations, the calls of an attempt lost to an outage those its error
\* carries, in whatever turn or nudge it was lost.
EveryCallCounted ==
  /\ pc = "over" => finished = paid
  /\ pc = "raised" => errorSpent = paid

\* Within a conversation the turns' records, repairs included, add up to what its
\* agent spent: no call is counted in two turns or in none.
RecordsAddUp == pc \in {"turn", "over"} => recorded = agentSpent

\* No model call is lost on the way to the study's accounts, and none counted twice.
CallsCounted == EveryCallCounted /\ RecordsAddUp

\* A turn and its nudges share one step budget.
TurnWithinBudget == turnSteps <= Budget

\* Only a turn none of whose runs executed code is nudged again: a nudge never gives
\* a second try to an answer.
OnlyMissedTurnsNudged == pc = "run" /\ nudges > 0 => ~ranCode

\* When a turn is asked, the runtime names its outputs and those of the turns before
\* it, and no output that only a later turn asks for.
NamedWhenAsked ==
  pc = "run" => registered = UNION {Conversations[conv][t] : t \in 1..turn}

\* A turn is asked, and asked again, on equal terms: its nudges neither stretch the
\* budget nor retry an answer, and it is told of no later turn.
AskedFairly == TurnWithinBudget /\ OnlyMissedTurnsNudged /\ NamedWhenAsked
=============================================================================
