--------------------------- MODULE HostedPipeline ---------------------------
(***************************************************************************)
(* The hosted study (run_hosted, bench/core/pipeline_evaluator.py): agents *)
(* work one after another, and after each the host takes the table the     *)
(* agent left, over one of five channels, and starts the next agent from   *)
(* it.  Every agent runs as one turn (evaluate_turn), nudged once if it    *)
(* ran no code.  An outage starts the case again in a new directory.       *)
(*                                                                         *)
(* Output n is the variable, or file, that agent n is asked for; the last  *)
(* agent's answers are one value among the tables.                         *)
(***************************************************************************)
EXTENDS Naturals, Sequences, FiniteSets, SequencesExt

CONSTANTS
  Channels,     \* the channels of the study
  Agents,       \* agents of the case
  Table,        \* what an agent may produce
  Junk,         \* a value that is no table
  Missing,      \* None
  Undefined,    \* a rule that cannot be applied to a table raises
  Unreadable,   \* a file under the output's name that is no Parquet file
  Rule,         \* Rule[n]: what agent n is asked to make of what it is handed
  Expected,     \* expected_tables: what each agent ought to leave
  Accepted,     \* Accepted[n][t]: what agent n's check takes for t; an identifier
                \* written as a number, or a number within the tolerance, passes
  Budget,       \* step_budget
  MaxNudges,    \* max_protocol_nudges
  Naming,       \* whether a cell's code may name a source table
  MaxAttempts   \* bound: runs of the case, an outage ending all but the last

ASSUME PipelineAssumption ==
  /\ Channels \subseteq {"object", "shared", "file", "text", "text_bound"}
  /\ Agents \in Nat /\ Agents >= 2
  /\ Budget \in Nat \ {0} /\ MaxNudges \in 0..1 /\ MaxAttempts \in Nat \ {0}
  /\ Cardinality({Junk, Missing, Undefined, Unreadable, "prose", "blank"}) = 6
  /\ Table \cap {Junk, Missing, Undefined, Unreadable, "prose", "blank"} = {}
  /\ Naming \subseteq BOOLEAN
  /\ Rule \in [2..Agents -> [Table -> Table \cup {Undefined}]]
  /\ Expected \in [1..Agents -> Table]
  /\ Accepted \in [1..Agents -> [Table -> SUBSET Table]]
  \* expected_tables applies each rule to the table before it.
  /\ \A n \in 2..Agents : Rule[n][Expected[n - 1]] = Expected[n]

Stage == 1..Agents
Value == Table \cup {Junk, Missing}
\* A reply ends on a block holding a value, holds none, or is empty.
Text == Table \cup {Junk, "prose", "blank"}
Verdict == {"yes", "no", "unknown"}
\* A value and the agent that bound it, one agent of one attempt
Entry == [value: Value, by: Nat]
File == [value: Table \cup {Missing, Unreadable}, by: Nat]
Nothing == [value |-> Missing, by |-> 0]
\* One run of the agent, as evaluate_turn reads it
Outcome == [produced: Value, reply: Text, by: Nat, named: BOOLEAN]
NoOutcome == [produced |-> Missing, reply |-> "blank", by |-> 0, named |-> FALSE]

VARIABLES
  channel, attempt,
  pc,          \* an agent at work, at the seam after it, judged, timed out, aborted
  stage,       \* the agent at work
  runtime,     \* the values bound in this agent's runtime, by output
  file,        \* what is in this stage's directory
  handed,      \* what crossed to this agent: the object, the file or the reply's table
  steps,       \* taken in this turn
  ranCode,     \* in this run of the agent
  named,       \* the code of this run named a source table
  nudged,
  first,       \* the turn's first pass, once it was nudged
  ended,       \* the run the turn ended on
  stages,      \* the stages recorded
  contract,    \* first_contract_failure
  unfaithful   \* first_unfaithful

run == <<steps, ranCode, named, nudged, first, ended>>
blame == <<contract, unfaithful>>
vars == <<channel, attempt, pc, stage, runtime, file, handed, run, stages, blame>>

Fresh == [n \in Stage |-> Nothing]

Init ==
  /\ channel \in Channels /\ attempt = 1
  /\ pc = "agent" /\ stage = 1
  /\ runtime = Fresh /\ file = Nothing /\ handed = Nothing
  /\ steps = 0 /\ ranCode = FALSE /\ named = FALSE /\ nudged = FALSE
  /\ first = NoOutcome /\ ended = NoOutcome
  /\ stages = <<>> /\ contract = 0 /\ unfaithful = 0

Me(n) == (attempt - 1) * Agents + n

\* The last agent assigns its answers on every channel (_run_last).
Delivery ==
  IF stage = Agents \/ channel \in {"object", "shared"} THEN "variables"
  ELSE IF channel = "file" THEN "files" ELSE "reply"

---------------------------------------------------------------------------
(* An agent's cells: of what they bind, what someone reads afterwards.  In *)
(* a shared runtime that is also the output of the agent to come.          *)

Bindable ==
  {n \in Stage : \/ n = stage /\ Delivery = "variables"
                 \/ n = stage - 1 /\ channel \in {"object", "shared"}
                 \/ n = stage + 1 /\ channel = "shared"}

Cell(source) ==
  /\ pc = "agent" /\ steps < Budget
  /\ steps' = steps + 1 /\ ranCode' = TRUE /\ named' = (named \/ source)
  /\ UNCHANGED <<channel, attempt, pc, stage, handed, nudged, first, ended, stages, blame>>

Looks(source) == Cell(source) /\ UNCHANGED <<runtime, file>>

Assigns(source, n, v) ==
  /\ Cell(source)
  /\ runtime' = [runtime EXCEPT ![n] = [value |-> v, by |-> Me(stage)]]
  /\ UNCHANGED file

\* The object bound to n is changed in place.
Changes(source, n, v) ==
  /\ runtime[n].value \in Table
  /\ Cell(source)
  /\ runtime' = [runtime EXCEPT ![n].value = v]
  /\ UNCHANGED file

Writes(source, v) ==
  /\ Delivery = "files"
  /\ Cell(source)
  /\ file' = [value |-> v, by |-> Me(stage)]
  /\ UNCHANGED runtime

---------------------------------------------------------------------------
(* The turn around them (evaluate_turn) *)

Block(text) == IF text \in Table \cup {Junk} THEN text ELSE Missing
Replied(text) == IF Block(text) = Missing THEN Nothing ELSE [value |-> text, by |-> Me(stage)]

\* Where nothing reads the reply, what it says is left out.
Replies == IF Delivery = "variables" THEN {"prose"} ELSE Text

\* collect_outputs; pd.read_parquet raises on a file it cannot read.
Readable == Delivery = "files" => file.value # Unreadable

Collected(text) ==
  CASE Delivery = "variables" -> runtime[stage]
    [] Delivery = "files" /\ file # Nothing -> file
    [] OTHER -> Replied(text)

OutcomeOf(text) ==
  [produced |-> Collected(text).value, reply |-> text, by |-> Collected(text).by, named |-> named]

\* A run that ran no code and left the output unset is nudged within the budget.
NeedsRepair(text) ==
  /\ Collected(text).value = Missing
  /\ ~ranCode /\ steps + 1 < Budget /\ ~nudged /\ MaxNudges = 1

Nudge(text) ==
  /\ pc = "agent" /\ steps < Budget /\ Readable /\ NeedsRepair(text)
  /\ first' = OutcomeOf(text) /\ nudged' = TRUE
  /\ steps' = steps + 1
  /\ UNCHANGED <<channel, attempt, pc, stage, runtime, file, handed, ranCode, named, ended, stages, blame>>

EndTurn(text) ==
  /\ pc = "agent" /\ steps < Budget /\ Readable /\ ~NeedsRepair(text)
  /\ ended' = OutcomeOf(text)
  /\ steps' = steps + 1 /\ pc' = "seam"
  /\ UNCHANGED <<channel, attempt, stage, runtime, file, handed, ranCode, named, nudged, first, stages, blame>>

\* The step limit ends the run, or an error that the conversation caused.
StopsShort(text) ==
  /\ pc = "agent" /\ Readable
  /\ ended' = OutcomeOf(text)
  /\ pc' = "seam"
  /\ UNCHANGED <<channel, attempt, stage, runtime, file, handed, steps, ranCode, named, nudged, first, stages, blame>>

\* The error is caught nowhere: the case is not stored, and run_channel ends.
CollectRaises ==
  /\ pc = "agent" /\ ~Readable
  /\ pc' = "aborted" /\ stages' = <<>>
  /\ UNCHANGED <<channel, attempt, stage, runtime, file, handed, run, blame>>

---------------------------------------------------------------------------
(* The seam *)

\* as_it_ended: the repair where there was one.
AsItEnded == ended

\* The code_snippets of a turn are its first pass's.
ReadSource == IF nudged THEN first.named ELSE ended.named

\* What agent n's check (task.check, and follow_up.check for the last) says of a
\* value against the table it should be
Checks(n, value, reference) == value \in Accepted[n][reference]

\* _faithful_middle, _faithful_last: the rule is applied to the rows received as
\* they are, and the check is then as tolerant as it is of the reference.
Faithful(received, produced) ==
  CASE stage = 1 \/ received \notin Table -> "unknown"
    [] produced = Missing /\ stage < Agents -> "unknown"
    [] Rule[stage][received] = Undefined -> "unknown"
    [] OTHER -> IF Checks(stage, produced, Rule[stage][received]) THEN "yes" ELSE "no"

\* Mutant: received is moved on before the stage is recorded.
ReceivedTooEarly == AsItEnded.produced

Received == IF stage = 1 THEN Missing ELSE stages[stage - 1].produced

\* _confirm_crossing: the next runtime is asked for the object under the table's name.
Confirm(records) ==
  IF channel = "object" /\ stage > 1
  THEN [records EXCEPT ![stage - 1].sameObject = runtime[stage - 1].by = handed.by]
  ELSE records

\* Mutant: the reply that crosses is the first pass's.
TakenFirstReply ==
  CASE channel \in {"object", "shared"} -> runtime[stage]
    [] channel = "file" -> file
    [] OTHER -> [value |-> Block(IF nudged THEN first.reply ELSE ended.reply), by |-> Me(stage)]

\* What the host takes of what the agent left (_cross)
Taken ==
  CASE channel \in {"object", "shared"} -> runtime[stage]
    [] channel = "file" -> file
    [] OTHER -> [value |-> Block(AsItEnded.reply), by |-> Me(stage)]

Delivered ==
  IF channel \in {"text", "text_bound"} THEN AsItEnded.reply # "blank" ELSE Taken.value # Missing

StageRecord ==
  [produced |-> AsItEnded.produced, by |-> AsItEnded.by,
   success |-> Checks(stage, AsItEnded.produced, Expected[stage]),
   faithful |-> Faithful(Received, AsItEnded.produced),
   readSource |-> stage > 1 /\ ReadSource,
   handsOn |-> stage < Agents, nudged |-> nudged, sameObject |-> FALSE,
   everNamed |-> first.named \/ ended.named]

\* Mutant: the next output is not registered in the runtime that is shared.
RuntimeAsItStood ==
  IF channel = "shared" THEN runtime
  ELSE IF channel = "object" THEN [Fresh EXCEPT ![stage] = Taken] ELSE Fresh

\* _next_runtime: the runtime itself on the shared channel, with the next output
\* registered in it; else a fresh one, which holds what crossed as a variable.
NextRuntime ==
  IF channel = "shared" THEN [runtime EXCEPT ![stage + 1] = Nothing]
  ELSE IF channel = "object" THEN [Fresh EXCEPT ![stage] = Taken]
  ELSE Fresh

\* A directory for each stage (_stage_dir)
NextFile == Nothing

HandOn ==
  /\ pc = "seam" /\ stage < Agents /\ Delivered
  /\ stages' = Append(Confirm(stages), StageRecord)
  /\ handed' = Taken /\ runtime' = NextRuntime /\ file' = NextFile
  /\ stage' = stage + 1 /\ pc' = "agent"
  /\ steps' = 0 /\ ranCode' = FALSE /\ named' = FALSE /\ nudged' = FALSE
  /\ first' = NoOutcome /\ ended' = NoOutcome
  /\ UNCHANGED <<channel, attempt, blame>>

\* The case ends with the agent that handed nothing on.
HandedNothingOn ==
  /\ pc = "seam" /\ stage < Agents /\ ~Delivered
  /\ stages' = Append(Confirm(stages), StageRecord)
  /\ contract' = stage /\ unfaithful' = stage
  /\ pc' = "judged"
  /\ UNCHANGED <<channel, attempt, stage, runtime, file, handed, run>>

Success(records) == Len(records) = Agents /\ records[Len(records)].success

\* The least number, or zero
Earliest(numbers) ==
  IF numbers = {} THEN {0} ELSE {i \in numbers : \A j \in numbers : i <= j}

FirstWrong(records) == Earliest({i \in DOMAIN records : ~records[i].success})

\* The first stage that was unfaithful; with none, a first agent that was wrong.
Culprit(records) ==
  LET culprits == {i \in 2 .. Len(records) : records[i].faithful = "no"} IN
  IF culprits # {} THEN Earliest(culprits) ELSE IF ~records[1].success THEN {1} ELSE {0}

Judge ==
  /\ pc = "seam" /\ stage = Agents
  /\ LET records == Append(Confirm(stages), StageRecord) IN
     /\ stages' = records
     /\ contract' \in IF Success(records) THEN {0} ELSE FirstWrong(records)
     /\ unfaithful' \in IF Success(records) THEN {0} ELSE Culprit(records)
  /\ pc' = "judged"
  /\ UNCHANGED <<channel, attempt, stage, runtime, file, handed, run>>

---------------------------------------------------------------------------
(* The driver around the case (_run_and_write, run_channel) *)

\* The directory of the case is gone with the attempt.
NewWorkdir == Nothing

\* evaluate_turn raises; the case is run again.
Outage ==
  /\ pc = "agent" /\ attempt < MaxAttempts
  /\ attempt' = attempt + 1 /\ stage' = 1
  /\ runtime' = Fresh /\ file' = NewWorkdir /\ handed' = Nothing
  /\ steps' = 0 /\ ranCode' = FALSE /\ named' = FALSE /\ nudged' = FALSE
  /\ first' = NoOutcome /\ ended' = NoOutcome
  /\ stages' = <<>>
  /\ UNCHANGED <<channel, pc, blame>>

\* PIPELINE_TIMEOUT_S: stored as failed, with no stages.
TimeOut ==
  /\ pc = "agent"
  /\ pc' = "timed out" /\ stages' = <<>>
  /\ UNCHANGED <<channel, attempt, stage, runtime, file, handed, run, blame>>

Next ==
  \/ \E source \in Naming :
       \/ Looks(source)
       \/ \E n \in Bindable, v \in Value : Assigns(source, n, v)
       \/ \E n \in Bindable, v \in Table : Changes(source, n, v)
       \/ \E v \in Table \cup {Unreadable} : Writes(source, v)
  \/ \E text \in Replies : Nudge(text) \/ EndTurn(text) \/ StopsShort(text)
  \/ CollectRaises
  \/ HandOn \/ HandedNothingOn \/ Judge \/ Outage \/ TimeOut

Spec == Init /\ [][Next]_vars

---------------------------------------------------------------------------
(* Properties *)

Record ==
  [produced: Value, by: Nat, success: BOOLEAN, faithful: Verdict,
   readSource: BOOLEAN, handsOn: BOOLEAN, nudged: BOOLEAN, sameObject: BOOLEAN, everNamed: BOOLEAN]

\* The types, how many stages are recorded at each point of the case, and how far
\* a turn may go.
TypeOK ==
  /\ channel \in Channels /\ attempt \in 1..MaxAttempts
  /\ pc \in {"agent", "seam", "judged", "timed out", "aborted"} /\ stage \in Stage
  /\ runtime \in [Stage -> Entry] /\ file \in File /\ handed \in Entry
  /\ steps \in 0..Budget /\ ranCode \in BOOLEAN /\ named \in BOOLEAN /\ nudged \in BOOLEAN
  /\ first \in Outcome /\ ended \in Outcome
  /\ stages \in Seq(Record)
  /\ pc \in {"agent", "seam"} => Len(stages) = stage - 1
  /\ pc = "judged" => Len(stages) = stage
  /\ contract \in 0..Agents /\ unfaithful \in 0..Agents

\* What an agent is given is the very table the agent before it was judged on, on
\* every channel: "a reply that crosses as text must be the reply the agent ended
\* on, not the one that ran no code and was nudged" (as_it_ended).
CrossedIsWhatWasJudged ==
  pc = "agent" /\ stage > 1 => handed.value = stages[stage - 1].produced

\* A stage is judged on what it made in its own turn: not on what an earlier agent
\* left under its output's name in a shared runtime, nor on a file of an earlier
\* stage or of an attempt that was abandoned.
CreditedForItsOwn ==
  \A i \in DOMAIN stages : stages[i].produced # Missing => stages[i].by = Me(i)

\* An agent's table was judged right though it was not the reference's, and the
\* agent after it did as it was told with that table and was judged wrong.
TurnedWrong(records) ==
  \E i \in 1 .. Len(records) - 1 :
    /\ records[i].success /\ records[i].produced # Expected[i]
    /\ records[i + 1].faithful = "yes" /\ ~records[i + 1].success

\* A case that fails is blamed on one of its agents, unless what some agent did
\* with its table could not be told, or the records show the seam where a table
\* that passed its check only by the check's tolerance was worked on faithfully
\* to a wrong one.  Reference tables faithfully worked on never add up to a
\* wrong answer, however many of the agents were wrong on the way.
FailureIsExplained ==
  pc = "judged" /\ ~Success(stages) =>
    \/ unfaithful # 0
    \/ \E i \in 2 .. Len(stages) : stages[i].faithful = "unknown"
    \/ TurnedWrong(stages)

\* "The first agent is the cause only when every later stage was faithful and the
\* answer is still wrong -- then the wrong table is the only thing left to blame"
\* (run_hosted): every failure whose stages could be told has a cause.
CauseIsNamed ==
  pc = "judged" /\ ~Success(stages) =>
    unfaithful # 0 \/ \E i \in 2 .. Len(stages) : stages[i].faithful = "unknown"

\* "The first agent is the cause only when every later stage was faithful and the
\* answer is still wrong" (run_hosted).
FirstOnlyIfTheRestFaithful ==
  pc = "judged" /\ Len(stages) = Agents /\ unfaithful = 1 =>
    \A i \in 2..Agents : stages[i].faithful = "yes"

\* first_contract_failure is "the first stage whose output was not right against
\* the reference" (PipelineResult).
ContractIsTheFirstWrong ==
  pc = "judged" /\ contract # 0 => \A i \in 1 .. contract - 1 : stages[i].success

\* read_source tells "whether this stage's code named a source table" (StageRecord).
SourceReadsSeen ==
  \A i \in DOMAIN stages : i > 1 /\ stages[i].everNamed => stages[i].readSource

\* The table that is stored with a stage (StageRecord.as_dict): the outputs of an
\* agent that hands nothing on, the repair's, or the wrong table.
KeepsATable(r) ==
  r.produced # Missing /\ (~r.handsOn \/ r.nudged \/ ~r.success)

\* "A stage that handed a table on keeps everything but that table" (as_dict), but
\* for a wrong one.
RightTablesNotKept ==
  \A i \in DOMAIN stages : stages[i].handsOn /\ stages[i].success => ~KeepsATable(stages[i])

\* "The record shows an injection, not a copy" (_cross): the next agent was given
\* the object, and its record says so.
InjectionConfirmed ==
  channel = "object" =>
    \A i \in DOMAIN stages : i < Len(stages) => stages[i].sameObject

=============================================================================
