---------------------------- MODULE MultiTurnTask ----------------------------
(***************************************************************************)
(* One task of the multi-turn benchmark: one_task in bfcl-multiturn/run.py *)
(* over an arm (arms.py).  The agent changes the task's own API instances; *)
(* what is judged is a replay of the calls the recorder took down, so a    *)
(* change the record misses must not be judged as if it had not happened.  *)
(***************************************************************************)
EXTENDS Naturals, Sequences, SequencesExt

CONSTANTS
  Methods,    \* the tools of the task
  Refusing,   \* those that raise and change nothing
  Turns,      \* the user's messages
  MaxSteps,   \* --max-steps: model calls in a turn of the fc arm
  MaxCalls,   \* bound: calls in one answer, and calls and changes of a cave turn
  Direct      \* a change that goes through no recorded method

\* A tool call of the fc arm: of a tool there is, of none, or with bad arguments.
ToolCalls == Methods \cup {"unknown", "malformed"}
\* How a run of the cave agent ends; at a model error the provider failed it.
Stops == {"completed", "max_steps", "model_error"}

VARIABLES
  arm,       \* "cave" or "fc"
  pc,
  turn,      \* the turn under way
  requests,  \* model calls of this turn (fc)
  code,      \* whether the run under way executed code (cave)
  repaired,  \* whether the turn was asked again (cave)
  toAnswer,  \* calls of the latest answer not yet dispatched (fc)
  step, recorded,  \* Recorder._step and _steps
  calls,     \* calls_per_turn
  reached,   \* the changes made to the instances, in order
  left,      \* left[g]: changes of the instances upstream cached under tag g
  missed,    \* whether replaying the record falls short of what was reached
  judged,    \* the changes of the instances the verdict was given on
  valid,     \* the verdict
  made,      \* history: every method called, in order
  failed,    \* history: whether the provider failed the task
  codeBefore \* history: whether the turn had executed code when asked again

place == <<arm, turn>>
conversation == <<requests, code, repaired, toAnswer>>
recorder == <<step, recorded>>
verdict == <<left, missed, judged, valid>>
history == <<made, failed, codeBefore>>
vars == <<place, pc, conversation, recorder, calls, reached, verdict, history>>

PCs == {"turn", "cave", "ask", "dispatch", "take", "fidelity", "score", "scored", "errored"}
Tags == {"fidelity", "eval"}

Init ==
  /\ arm \in {"cave", "fc"} /\ turn = 1 /\ pc = "turn"
  /\ requests = 0 /\ code = FALSE /\ repaired = FALSE /\ toAnswer = <<>>
  /\ step = <<>> /\ recorded = <<>>
  /\ calls = <<>> /\ reached = <<>>
  /\ left = [g \in Tags |-> <<>>]
  /\ missed = FALSE /\ judged = <<>> /\ valid = FALSE
  /\ made = <<>> /\ failed = FALSE /\ codeBefore = FALSE

\* A method that refuses leaves the instance as it was.
Effect(m) == IF m \in Refusing THEN <<>> ELSE <<m>>
Replay(record) == FlattenSeq([i \in DOMAIN record |-> Effect(record[i])])

BeginTurn ==
  /\ pc = "turn"
  /\ pc' = IF arm = "cave" THEN "cave" ELSE "ask"
  /\ requests' = 0 /\ code' = FALSE /\ repaired' = FALSE /\ codeBefore' = FALSE
  /\ UNCHANGED <<place, toAnswer, recorder, calls, reached, verdict, made, failed>>

---------------------------------------------------------------------------
(* A recorded method: taken down, then called. *)

TakenDown(m) == Append(step, m)

Called(m) ==
  /\ step' = TakenDown(m)
  /\ reached' = reached \o Effect(m)
  /\ made' = Append(made, m)

(* CaveArm.turn: the agent's code calls the methods, or reaches round them. *)

CellCalls(m) ==
  /\ pc = "cave"
  /\ Len(step) < MaxCalls
  /\ Called(m)
  /\ code' = TRUE
  /\ UNCHANGED <<pc, place, requests, repaired, toAnswer, recorded, calls, verdict, failed, codeBefore>>

CellChanges ==
  /\ pc = "cave"
  /\ Direct \notin ToSet(reached)
  /\ reached' = Append(reached, Direct)
  /\ code' = TRUE
  /\ UNCHANGED <<pc, place, requests, repaired, toAnswer, recorder, calls, verdict, history>>

\* Mutant of UnexecutedCall: a turn that executed code is asked again too.
CallInReply(mark) == mark

\* unexecuted_call: the reply is marked as a call and no code was executed.
UnexecutedCall(mark) == mark /\ ~code

RunEnds(stop, mark) ==
  /\ pc = "cave"
  /\ failed' = (failed \/ stop = "model_error")
  /\ IF UnexecutedCall(mark) /\ ~repaired
     THEN repaired' = TRUE /\ code' = FALSE /\ codeBefore' = code /\ UNCHANGED pc
     ELSE pc' = "take" /\ UNCHANGED <<repaired, code, codeBefore>>
  /\ UNCHANGED <<place, requests, toAnswer, recorder, calls, reached, verdict, made>>

(* FunctionCallingArm.turn: an answer's calls are dispatched one by one. *)

Ask(answer) ==
  /\ pc = "ask"
  /\ requests < MaxSteps
  /\ requests' = requests + 1
  /\ toAnswer' = answer
  /\ pc' = IF answer = <<>> THEN "take" ELSE "dispatch"
  /\ UNCHANGED <<place, code, repaired, recorder, calls, reached, verdict, history>>

AskFails ==
  /\ pc = "ask"
  /\ requests < MaxSteps
  /\ pc' = "errored"
  /\ failed' = TRUE
  /\ UNCHANGED <<place, conversation, recorder, calls, reached, verdict, made, codeBefore>>

OutOfSteps ==
  /\ pc = "ask"
  /\ requests = MaxSteps
  /\ pc' = "take"
  /\ UNCHANGED <<place, conversation, recorder, calls, reached, verdict, history>>

\* Mutant of Answered: a call that cannot be run raises.
AnsweredWhenRun(c) == c \in Methods

\* _dispatch answers every call, and returns what kept one from being run.
Answered(c) == c \in ToolCalls

Dispatch ==
  /\ pc = "dispatch"
  /\ toAnswer # <<>>
  /\ LET c == Head(toAnswer)
     IN  /\ IF c \in Methods THEN Called(c) ELSE UNCHANGED <<step, reached, made>>
         /\ pc' = IF Answered(c) THEN pc ELSE "errored"
  /\ toAnswer' = Tail(toAnswer)
  /\ UNCHANGED <<place, requests, code, repaired, recorded, calls, verdict, failed, codeBefore>>

EndStep ==
  /\ pc = "dispatch"
  /\ toAnswer = <<>>
  /\ recorded' = Append(recorded, step)
  /\ step' = <<>>
  /\ pc' = "ask"
  /\ UNCHANGED <<place, conversation, calls, reached, verdict, history>>

---------------------------------------------------------------------------
\* Mutant of TakenSteps: the step still open is not closed.
ClosedSteps == recorded

\* take_turn: what is recorded, with the step still open when it made a call.
TakenSteps == IF step # <<>> THEN Append(recorded, step) ELSE recorded

\* Mutant of TurnCalls: a turn that made no call is an entry with no step.
NoStep == TakenSteps

TurnCalls == IF TakenSteps = <<>> THEN <<<<>>>> ELSE TakenSteps

TakeTurn ==
  /\ pc = "take"
  /\ calls' = Append(calls, TurnCalls)
  /\ step' = <<>> /\ recorded' = <<>>
  /\ IF turn < Turns THEN turn' = turn + 1 /\ pc' = "turn"
     ELSE turn' = turn /\ pc' = "fidelity"
  /\ UNCHANGED <<arm, conversation, reached, verdict, history>>

Flat(record) == FlattenSeq(FlattenSeq(record))

\* Upstream keeps the instances of a tag: calls are replayed onto what is there.
ReplayUnder(g) == left[g] \o Replay(Flat(calls))

\* Mutant of FidelityTag: one tag for the fidelity check and the scoring.
ScoringTag == "eval"

FidelityTag == "fidelity"

CheckFidelity ==
  /\ pc = "fidelity"
  /\ missed' = (reached # ReplayUnder(FidelityTag))
  /\ left' = [left EXCEPT ![FidelityTag] = ReplayUnder(FidelityTag)]
  /\ pc' = "score"
  /\ UNCHANGED <<place, conversation, recorder, calls, reached, judged, valid, history>>

Score(v) ==
  /\ pc = "score"
  /\ judged' = ReplayUnder("eval")
  /\ left' = [left EXCEPT !["eval"] = judged']
  /\ valid' = v
  /\ pc' = "scored"
  /\ UNCHANGED <<place, conversation, recorder, calls, reached, missed, history>>

Next ==
  \/ BeginTurn \/ CellChanges \/ AskFails \/ OutOfSteps \/ Dispatch \/ EndStep
  \/ TakeTurn \/ CheckFidelity
  \/ \E m \in Methods : CellCalls(m)
  \/ \E stop \in Stops, mark \in BOOLEAN : RunEnds(stop, mark)
  \/ \E n \in 0..MaxCalls : \E answer \in [1..n -> ToolCalls] : Ask(answer)
  \/ \E v \in BOOLEAN : Score(v)

Spec == Init /\ [][Next]_vars

---------------------------------------------------------------------------
\* counts_as_solved
CountsAsSolved == valid /\ ~missed

\* The state is well formed; the checker upstream is given a step for every turn.
TypeOK ==
  /\ arm \in {"cave", "fc"} /\ pc \in PCs
  /\ turn \in 1..Turns /\ requests \in 0..MaxSteps
  /\ code \in BOOLEAN /\ repaired \in BOOLEAN /\ missed \in BOOLEAN /\ valid \in BOOLEAN
  /\ failed \in BOOLEAN /\ codeBefore \in BOOLEAN
  /\ toAnswer \in Seq(ToolCalls)
  /\ step \in Seq(Methods) /\ recorded \in Seq(Seq(Methods))
  /\ calls \in Seq(Seq(Seq(Methods)) \ {<<>>}) /\ Len(calls) <= Turns
  /\ reached \in Seq(Methods \cup {Direct}) /\ judged \in Seq(Methods)
  /\ left \in [Tags -> Seq(Methods)]
  /\ made \in Seq(Methods)

\* The record of a conversation is every call the agent made, in order, and one
\* entry for each turn (recorder.py).
RecordIsWhatWasCalled ==
  pc \in {"fidelity", "score", "scored"} => Flat(calls) = made /\ Len(calls) = Turns

\* A call that cannot be run costs its step and not the conversation: a task is lost
\* to an error only when the provider failed it (_dispatch).
ErroredOnlyByTheProvider == pc = "errored" => failed

\* A turn is asked for its format again only when it executed nothing, so nothing is
\* done twice (unexecuted_call).
AskedAgainOnlyIfMissed == repaired => ~codeBefore
=============================================================================
