--------------------------- MODULE Judging_proofs ---------------------------
(***************************************************************************)
(* The two harnesses that judge work by what was recorded of it.           *)
(*                                                                         *)
(* HostedPipeline: what an agent is given is what the agent before it was  *)
(* judged on, a stage is judged on its own work, and reference tables and  *)
(* faithful agents do not add up to a wrong answer: for any number of      *)
(* agents, tables and rules, and checks as tolerant as they may be.        *)
(*                                                                         *)
(* MultiTurnBench: a task called solved was judged on what one             *)
(* conversation did, and once, for any tasks, turns and tools and however  *)
(* often the runner is cut off.                                            *)
(***************************************************************************)
EXTENDS HostedPipeline, MultiTurnBench, SequenceTheorems, WellFoundedInduction, TLAPS

(* What the output of the agent at work holds is its own. *)
OwnOutput ==
  pc \in {"agent", "seam"} =>
    /\ runtime[stage].value # Missing => runtime[stage].by = Me(stage)
    /\ file # Nothing => file.value \in Table \cup {Unreadable} /\ file.by = Me(stage)

(* Between the turn and the seam nothing has changed what was collected. *)
EndedAsCollected == pc = "seam" => ended = OutcomeOf(ended.reply)

(* The verdicts of the stages, and what they were worked out from *)
VerdictsMean ==
  \A i \in DOMAIN stages :
    /\ stages[i].success <=> Checks(i, stages[i].produced, Expected[i])
    /\ i > 1 /\ stages[i].faithful = "yes" =>
         /\ stages[i - 1].produced \in Table
         /\ Checks(i, stages[i].produced, Rule[i][stages[i - 1].produced])

(* A right table faithfully worked on stays right, but at a seam where it was right *)
(* only by the check's tolerance.                                                   *)
RightAllAlong ==
  stages # <<>> /\ stages[1].success /\ (\A i \in 2 .. Len(stages) : stages[i].faithful = "yes")
    => (\A i \in DOMAIN stages : stages[i].success) \/ TurnedWrong(stages)

IInv ==
  /\ TypeOK /\ OwnOutput /\ EndedAsCollected /\ CrossedIsWhatWasJudged
  /\ CreditedForItsOwn /\ VerdictsMean /\ RightAllAlong /\ FailureIsExplained

---------------------------------------------------------------------------
(* Types *)

(* An agent's number within the attempts is a number. *)
LEMMA MeIsNatural ==
  ASSUME TypeOK, NEW n \in Stage
  PROVE  Me(n) \in Nat
<1>0. Agents \in Nat /\ MaxAttempts \in Nat
  BY PipelineAssumption
<1>a. attempt \in 1..MaxAttempts
  BY Zenon DEF TypeOK
<1>b. n \in 1..Agents
  BY Zenon DEF Stage
<1>1. attempt - 1 \in Nat /\ n \in Nat
  BY <1>0, <1>a, <1>b
<1>2. (attempt - 1) * Agents \in Nat
  BY <1>0, <1>1
<1> QED BY <1>0, <1>1, <1>2 DEF Me

(* What a reply holds is a value. *)
LEMMA RepliesAreValues ==
  ASSUME TypeOK, NEW text \in Text
  PROVE  /\ Block(text) \in Value
         /\ Replied(text) \in Entry
         /\ Replied(text).value = Block(text)
<1>1. stage \in Stage /\ Me(stage) \in Nat
  BY MeIsNatural DEF TypeOK
<1> QED BY <1>1 DEF Block, Replied, Nothing, Entry, Value

(* What a run of the agent came to is typed. *)
LEMMA OutcomesTyped ==
  ASSUME TypeOK, NEW text \in Text, Readable
  PROVE  Collected(text) \in Entry /\ OutcomeOf(text) \in Outcome
<1>1. Collected(text) \in Entry
  <2>1. CASE Delivery = "variables"
    <3>1. Collected(text) = runtime[stage]
      BY <2>1 DEF Collected
    <3> QED BY <3>1 DEF TypeOK
  <2>2. CASE Delivery = "files" /\ file # Nothing
    <3>1. Collected(text) = file /\ file \in File /\ file.value # Unreadable
      BY <2>2 DEF Collected, TypeOK, Readable
    <3> QED BY <3>1 DEF File, Entry, Value
  <2>3. CASE Delivery # "variables" /\ ~(Delivery = "files" /\ file # Nothing)
    BY <2>3, RepliesAreValues DEF Collected
  <2> QED BY <2>1, <2>2, <2>3
<1>2. Collected(text).value \in Value /\ Collected(text).by \in Nat
  BY <1>1 DEF Entry
<1>3. named \in BOOLEAN
  BY DEF TypeOK
<1> QED BY <1>1, <1>2, <1>3 DEF OutcomeOf, Outcome

(* What may be replied is a reply. *)
LEMMA RepliesAreTexts == Replies \subseteq Text
BY DEF Replies, Text

(* What is recorded of a stage is a record. *)
LEMMA RecordsTyped ==
  ASSUME TypeOK, pc = "seam"
  PROVE  StageRecord \in Record
<1>1. ended \in Outcome /\ first \in Outcome /\ nudged \in BOOLEAN /\ stage \in Nat /\ Agents \in Nat
  BY PipelineAssumption DEF TypeOK, Stage
<1>2. ended.produced \in Value /\ ended.by \in Nat /\ ended.named \in BOOLEAN /\ first.named \in BOOLEAN
  BY <1>1 DEF Outcome
<1>3. Faithful(Received, ended.produced) \in Verdict
  BY DEF Faithful, Verdict
<1>4. ReadSource \in BOOLEAN
  BY <1>2 DEF ReadSource
<1>5. Checks(stage, ended.produced, Expected[stage]) \in BOOLEAN
  BY SMT DEF Checks
<1> QED BY <1>1, <1>2, <1>3, <1>4, <1>5 DEF StageRecord, Record, AsItEnded

(* What is confirmed of a crossing changes nothing else that was recorded. *)
LEMMA ConfirmKeeps ==
  ASSUME TypeOK, pc = "seam"
  PROVE  /\ Confirm(stages) \in Seq(Record) /\ Len(Confirm(stages)) = Len(stages)
         /\ \A i \in DOMAIN stages :
              /\ Confirm(stages)[i].produced = stages[i].produced
              /\ Confirm(stages)[i].by = stages[i].by
              /\ Confirm(stages)[i].success = stages[i].success
              /\ Confirm(stages)[i].faithful = stages[i].faithful
<1>1. stages \in Seq(Record) /\ Len(stages) = stage - 1 /\ stage \in Nat
  BY DEF TypeOK, Stage
<1>2. CASE channel = "object" /\ stage > 1
  <2> DEFINE same == runtime[stage - 1].by = handed.by
             confirmed == [stages[stage - 1] EXCEPT !.sameObject = same]
  <2>1. stage - 1 \in DOMAIN stages /\ same \in BOOLEAN
    BY <1>1, <1>2
  <2>2. Confirm(stages) = [stages EXCEPT ![stage - 1] = confirmed]
    BY <1>2 DEF Confirm
  <2>3. stages[stage - 1] \in Record
    BY <1>1, <2>1
  <2>4. /\ confirmed \in Record
        /\ confirmed.produced = stages[stage - 1].produced
        /\ confirmed.by = stages[stage - 1].by
        /\ confirmed.success = stages[stage - 1].success
        /\ confirmed.faithful = stages[stage - 1].faithful
    BY <2>1, <2>3 DEF Record
  <2> HIDE DEF confirmed
  <2>5. Confirm(stages) \in Seq(Record) /\ Len(Confirm(stages)) = Len(stages)
    BY <1>1, <2>1, <2>2, <2>4
  <2>6. \A i \in DOMAIN stages : Confirm(stages)[i] = IF i = stage - 1 THEN confirmed ELSE stages[i]
    BY <1>1, <2>1, <2>2
  <2> QED BY <2>4, <2>5, <2>6
<1>3. CASE ~(channel = "object" /\ stage > 1)
  BY <1>1, <1>3 DEF Confirm
<1> QED BY <1>2, <1>3

---------------------------------------------------------------------------
(* The seam *)

(* A seam adds the record of the stage to what is recorded, and changes nothing *)
(* else there but a confirmation.                                               *)
LEMMA SeamAppends ==
  ASSUME TypeOK, pc = "seam", NEW records, records = Append(Confirm(stages), StageRecord)
  PROVE  /\ records \in Seq(Record) /\ Len(records) = stage
         /\ records[stage] = StageRecord
         /\ DOMAIN records = 1..stage
         /\ \A i \in 1 .. stage - 1 :
              /\ i \in DOMAIN stages
              /\ records[i].produced = stages[i].produced
              /\ records[i].by = stages[i].by
              /\ records[i].success = stages[i].success
              /\ records[i].faithful = stages[i].faithful
<1>1. stages \in Seq(Record) /\ Len(stages) = stage - 1 /\ stage \in Nat
  BY DEF TypeOK, Stage
<1>2. /\ Confirm(stages) \in Seq(Record) /\ Len(Confirm(stages)) = stage - 1
      /\ \A i \in DOMAIN stages :
              /\ Confirm(stages)[i].produced = stages[i].produced
              /\ Confirm(stages)[i].by = stages[i].by
              /\ Confirm(stages)[i].success = stages[i].success
              /\ Confirm(stages)[i].faithful = stages[i].faithful
  BY <1>1, ConfirmKeeps
<1>3. StageRecord \in Record
  BY RecordsTyped
<1>4. /\ records \in Seq(Record) /\ Len(records) = stage /\ records[stage] = StageRecord
      /\ \A i \in 1 .. stage - 1 : records[i] = Confirm(stages)[i]
  BY <1>1, <1>2, <1>3
<1>5. DOMAIN stages = 1 .. stage - 1 /\ DOMAIN records = 1..stage
  BY <1>1, <1>4
<1> QED BY <1>2, <1>4, <1>5

(* What an agent is judged on at the seam is its own. *)
LEMMA JudgedOnItsOwn ==
  ASSUME TypeOK, OwnOutput, EndedAsCollected, pc = "seam"
  PROVE  ended.produced # Missing => ended.by = Me(stage)
<1>1. ended = OutcomeOf(ended.reply)
  BY DEF EndedAsCollected
<1>2. ended.produced = Collected(ended.reply).value /\ ended.by = Collected(ended.reply).by
  BY <1>1 DEF OutcomeOf
<1>3. CASE Collected(ended.reply) = runtime[stage]
  BY <1>2, <1>3 DEF OwnOutput
<1>4. CASE file # Nothing /\ Collected(ended.reply) = file
  BY <1>2, <1>4 DEF OwnOutput
<1>5. CASE Collected(ended.reply) = Replied(ended.reply)
  BY <1>2, <1>5 DEF Replied, Nothing
<1> QED BY <1>3, <1>4, <1>5 DEF Collected

(* What the host takes is what the agent was judged on. *)
LEMMA TakesWhatWasJudged ==
  ASSUME TypeOK, OwnOutput, EndedAsCollected, pc = "seam", stage < Agents, Delivered
  PROVE  Taken \in Entry /\ Taken.value = ended.produced
<1>0. stage # Agents /\ stage \in Stage
  BY PipelineAssumption DEF TypeOK, Stage
<1>1. ended = OutcomeOf(ended.reply) /\ ended.reply \in Text
  BY DEF EndedAsCollected, TypeOK, Outcome
<1>2. ended.produced = Collected(ended.reply).value
  BY <1>1 DEF OutcomeOf
<1>3. CASE channel \in {"object", "shared"}
  <2>1. Taken = runtime[stage] /\ Collected(ended.reply) = runtime[stage]
    BY <1>3 DEF Taken, Collected, Delivery
  <2> QED BY <1>0, <1>2, <2>1 DEF TypeOK
<1>4. CASE channel = "file"
  <2>1. Taken = file /\ file.value # Missing
    BY <1>4 DEF Taken, Delivered
  <2>2. file # Nothing
    BY <2>1 DEF Nothing
  <2>3. Collected(ended.reply) = file
    BY <1>0, <1>4, <2>2 DEF Collected, Delivery
  <2>4. file \in File /\ ended.produced \in Value
    BY DEF TypeOK, Outcome
  <2> QED BY <1>2, <2>1, <2>3, <2>4 DEF File, Entry
<1>5. CASE channel \notin {"object", "shared", "file"}
  <2>1. Collected(ended.reply) = Replied(ended.reply)
    BY <1>0, <1>5 DEF Collected, Delivery
  <2>2. Taken = [value |-> Block(ended.reply), by |-> Me(stage)]
    BY <1>5 DEF Taken, AsItEnded
  <2>3. Block(ended.reply) \in Value /\ Replied(ended.reply).value = Block(ended.reply)
    BY <1>1, RepliesAreValues
  <2>4. Me(stage) \in Nat
    BY <1>0, MeIsNatural
  <2> QED BY <1>2, <2>1, <2>2, <2>3, <2>4 DEF Entry
<1> QED BY <1>3, <1>4, <1>5

---------------------------------------------------------------------------
(* The records a seam leaves *)

(* Each record is of its own agent, its verdicts mean what they say, and a right
   table faithfully worked on stays right but where it turned wrong. *)
RecordsAreRight(records) ==
  /\ \A i \in DOMAIN records : records[i].produced # Missing => records[i].by = Me(i)
  /\ \A i \in DOMAIN records :
       /\ records[i].success <=> Checks(i, records[i].produced, Expected[i])
       /\ i > 1 /\ records[i].faithful = "yes" =>
            /\ records[i - 1].produced \in Table
            /\ Checks(i, records[i].produced, Rule[i][records[i - 1].produced])
  /\ records # <<>>
  /\ records[1].success /\ (\A i \in 2 .. Len(records) : records[i].faithful = "yes")
       => (\A i \in DOMAIN records : records[i].success) \/ TurnedWrong(records)

(* What is said of the records holds of them with one more. *)
LEMMA RecordsStayRight ==
  ASSUME TypeOK, OwnOutput, EndedAsCollected, pc = "seam",
         CreditedForItsOwn, VerdictsMean, RightAllAlong
  PROVE  RecordsAreRight(Append(Confirm(stages), StageRecord))
<1> DEFINE records == Append(Confirm(stages), StageRecord)
<1>0. records = Append(Confirm(stages), StageRecord)
  OBVIOUS
<1> HIDE DEF records
<1> DEFINE Standing(i) == /\ i \in DOMAIN stages
                          /\ records[i].produced = stages[i].produced
                      /\ records[i].by = stages[i].by
                      /\ records[i].success = stages[i].success
                      /\ records[i].faithful = stages[i].faithful
<1>1. /\ records \in Seq(Record) /\ Len(records) = stage /\ records[stage] = StageRecord
      /\ DOMAIN records = 1..stage
      /\ \A i \in 1 .. stage - 1 : Standing(i)
  BY <1>0, SeamAppends
<1>2. stage \in Nat /\ stage >= 1 /\ stage <= Agents /\ Agents \in Nat
  BY PipelineAssumption DEF TypeOK, Stage
<1>3. /\ StageRecord.produced = ended.produced /\ StageRecord.by = ended.by
      /\ StageRecord.success = Checks(stage, ended.produced, Expected[stage])
      /\ StageRecord.faithful = Faithful(Received, ended.produced)
  BY DEF StageRecord, AsItEnded
<1>4. stages \in Seq(Record) /\ Len(stages) = stage - 1 /\ DOMAIN stages = 1 .. stage - 1
  BY <1>2 DEF TypeOK
<1> HIDE DEF Standing
<1>5. ASSUME NEW i \in DOMAIN records, records[i].produced # Missing
      PROVE  records[i].by = Me(i)
  <2>1. CASE i = stage
    BY <1>1, <1>3, <1>5, <2>1, JudgedOnItsOwn
  <2>2. CASE i # stage
    <3>1. i \in 1 .. stage - 1
      BY <1>1, <1>2, <2>2
    <3> QED BY <1>1, <1>5, <3>1 DEF Standing, CreditedForItsOwn
  <2> QED BY <2>1, <2>2
<1>6. ASSUME stage > 1, StageRecord.faithful = "yes"
      PROVE  /\ stages[stage - 1].produced \in Table
             /\ Checks(stage, ended.produced, Rule[stage][stages[stage - 1].produced])
  <2>1. Received = stages[stage - 1].produced
    BY <1>2, <1>6 DEF Received
  <2>2. Faithful(Received, ended.produced) = "yes"
    BY <1>3, <1>6
  <2>3. Received \in Table /\ Checks(stage, ended.produced, Rule[stage][Received])
    BY <2>2 DEF Faithful
  <2> QED BY <2>1, <2>3
<1>7. ASSUME NEW i \in DOMAIN records
      PROVE  /\ records[i].success <=> Checks(i, records[i].produced, Expected[i])
             /\ i > 1 /\ records[i].faithful = "yes" =>
                  /\ records[i - 1].produced \in Table
                  /\ Checks(i, records[i].produced, Rule[i][records[i - 1].produced])
  <2>1. CASE i = stage
    <3>1. records[i].success <=> Checks(i, records[i].produced, Expected[i])
      BY <1>1, <1>3, <2>1
    <3>2. ASSUME i > 1, records[i].faithful = "yes"
          PROVE  /\ records[i - 1].produced \in Table
                 /\ Checks(i, records[i].produced, Rule[i][records[i - 1].produced])
      <4>1. stage - 1 \in 1 .. stage - 1
        BY <1>2, <2>1, <3>2
      <4>2. records[stage - 1].produced = stages[stage - 1].produced
        BY <1>1, <4>1 DEF Standing
      <4> QED BY <1>1, <1>3, <1>6, <2>1, <3>2, <4>2
    <3> QED BY <3>1, <3>2
  <2>2. CASE i # stage
    <3>1. i \in 1 .. stage - 1
      BY <1>1, <1>2, <2>2
    <3>2. Standing(i) /\ (i > 1 => Standing(i - 1))
      BY <1>1, <1>2, <3>1
    <3> QED BY <3>1, <3>2 DEF Standing, VerdictsMean
  <2> QED BY <2>1, <2>2
<1>8. records # <<>>
  BY <1>1, <1>2
<1>9. ASSUME records[1].success, \A i \in 2 .. Len(records) : records[i].faithful = "yes",
             ~TurnedWrong(records), NEW i \in DOMAIN records
      PROVE  records[i].success
  <2>1. CASE stage = 1
    BY <1>1, <1>9, <2>1
  <2>2. CASE stage > 1
    <3>1. stages[1].success
      <4>1. Standing(1)
        BY <1>1, <1>2, <2>2
      <4> QED BY <1>9, <4>1 DEF Standing
    <3>2. ASSUME NEW j \in 2 .. Len(stages)
          PROVE  stages[j].faithful = "yes"
      <4>1. Standing(j) /\ records[j].faithful = "yes"
        BY <1>1, <1>2, <1>4, <1>9
      <4> QED BY <4>1 DEF Standing
    <3>3. stages # <<>>
      BY <1>2, <1>4, <2>2
    <3>a. ~TurnedWrong(stages)
      <4> SUFFICES ASSUME NEW j \in 1 .. Len(stages) - 1,
                          stages[j].success /\ stages[j].produced # Expected[j],
                          stages[j + 1].faithful = "yes" /\ ~stages[j + 1].success
                   PROVE  FALSE
        BY DEF TurnedWrong
      <4>1. j \in 1 .. Len(records) - 1 /\ j \in 1 .. stage - 1 /\ j + 1 \in 1 .. stage - 1
        BY <1>1, <1>2, <1>4
      <4>2. Standing(j) /\ Standing(j + 1)
        BY <1>1, <4>1
      <4> QED BY <1>9, <4>1, <4>2 DEF Standing, TurnedWrong
    <3>4. \A j \in DOMAIN stages : stages[j].success
      BY <3>1, <3>2, <3>3, <3>a DEF RightAllAlong
    <3>5. CASE i # stage
      <4>1. Standing(i)
        BY <1>1, <1>2, <3>5
      <4> QED BY <3>4, <4>1 DEF Standing
    <3>6. CASE i = stage
      <4> SUFFICES ASSUME ~records[i].success
                   PROVE  FALSE
        OBVIOUS
      <4>1. stage - 1 \in DOMAIN stages /\ stage - 1 \in 1 .. Len(records) - 1 /\ (stage - 1) + 1 = stage
        BY <1>1, <1>2, <1>4, <2>2
      <4>2. StageRecord.faithful = "yes"
        BY <1>1, <1>2, <1>9, <2>2
      <4>3. Standing(stage - 1) /\ stages[stage - 1].success
        BY <1>1, <1>4, <3>4, <4>1
      <4>4. stages[stage - 1].produced = Expected[stage - 1]
        BY <1>1, <1>9, <3>6, <4>1, <4>2, <4>3 DEF Standing, TurnedWrong
      <4>5. Checks(stage, ended.produced, Rule[stage][Expected[stage - 1]])
        BY <1>6, <2>2, <4>2, <4>4
      <4>6. Rule[stage][Expected[stage - 1]] = Expected[stage]
        BY <1>2, <2>2, PipelineAssumption
      <4> QED BY <1>1, <1>3, <3>6, <4>5, <4>6
    <3> QED BY <3>5, <3>6
  <2> QED BY <1>2, <2>1, <2>2
<1>10. RecordsAreRight(records)
  BY <1>5, <1>7, <1>8, <1>9 DEF RecordsAreRight
<1> QED BY <1>0, <1>10

---------------------------------------------------------------------------
(* The invariant *)

LEMMA InitIInv == Init => IInv
<1> SUFFICES ASSUME Init
             PROVE  IInv
  OBVIOUS
<1>1. /\ 1 \in Stage /\ Agents \in Nat /\ Budget \in Nat /\ MaxAttempts \in Nat \ {0} /\ Missing \notin Table
  BY PipelineAssumption DEF Stage
<1>2. Nothing \in Entry /\ Nothing \in File /\ Fresh \in [Stage -> Entry] /\ NoOutcome \in Outcome
  BY DEF Nothing, Entry, File, Value, Fresh, NoOutcome, Outcome, Text
<1>3. TypeOK
  <2>1. channel \in Channels /\ attempt \in 1..MaxAttempts /\ pc = "agent" /\ stage = 1 /\ stage \in Stage
    BY <1>1 DEF Init
  <2>2. runtime \in [Stage -> Entry] /\ file \in File /\ handed \in Entry
    BY <1>2 DEF Init
  <2>a. 0 \in 0..Budget /\ 0 \in 0..Agents
    BY <1>1
  <2>3. steps \in 0..Budget /\ ranCode \in BOOLEAN /\ named \in BOOLEAN /\ nudged \in BOOLEAN
    BY <2>a, Zenon DEF Init
  <2>4. first \in Outcome /\ ended \in Outcome
    BY <1>2 DEF Init
  <2>5. stages \in Seq(Record) /\ Len(stages) = stage - 1
    BY DEF Init
  <2>6. contract \in 0..Agents /\ unfaithful \in 0..Agents
    BY <1>1 DEF Init
  <2> QED BY <2>1, <2>2, <2>3, <2>4, <2>5, <2>6 DEF TypeOK
<1>4. OwnOutput
  BY <1>1 DEF Init, OwnOutput, Fresh, Nothing
<1> QED BY <1>3, <1>4 DEF Init, IInv, EndedAsCollected, CrossedIsWhatWasJudged, CreditedForItsOwn,
           VerdictsMean, RightAllAlong, FailureIsExplained

(* What a cell does to what was bound and written *)
LEMMA CellsKeep ==
  ASSUME IInv, NEW source \in Naming, Cell(source),
         /\ runtime' \in [Stage -> Entry]
         /\ file' \in File
         /\ runtime'[stage].value # Missing => runtime'[stage].by = Me(stage)
         /\ file' # Nothing => file'.value \in Table \cup {Unreadable} /\ file'.by = Me(stage)
  PROVE  IInv'
<1>1. pc = "agent" /\ pc' = "agent" /\ attempt' = attempt /\ stage' = stage
  BY DEF Cell
<1>2. TypeOK'
  <2>0. TypeOK /\ Budget \in Nat /\ source \in BOOLEAN
    BY PipelineAssumption DEF IInv
  <2>1. steps' \in 0..Budget
    BY <2>0 DEF Cell, TypeOK
  <2>2. named' \in BOOLEAN /\ ranCode' \in BOOLEAN
    BY <2>0 DEF Cell, TypeOK
  <2>3. UNCHANGED <<channel, attempt, pc, stage, handed, nudged, first, ended, stages, contract, unfaithful>>
    BY DEF Cell, blame
  <2> QED BY <1>1, <2>0, <2>1, <2>2, <2>3 DEF TypeOK
<1>3. OwnOutput'
  BY <1>1 DEF OwnOutput, Me
<1> QED BY <1>1, <1>2, <1>3 DEF Cell, IInv, EndedAsCollected, CrossedIsWhatWasJudged, CreditedForItsOwn,
           VerdictsMean, RightAllAlong, FailureIsExplained, TurnedWrong, Checks, Me, Success

(* The agent's own run: its cells, the nudge, and the end of its turn *)
LEMMA TurnStep ==
  ASSUME IInv,
         \/ \E source \in Naming :
              \/ Looks(source)
              \/ \E n \in Bindable, v \in Value : Assigns(source, n, v)
              \/ \E n \in Bindable, v \in Table : Changes(source, n, v)
              \/ \E v \in Table \cup {Unreadable} : Writes(source, v)
         \/ \E text \in Replies : Nudge(text) \/ EndTurn(text) \/ StopsShort(text)
  PROVE  IInv'
<1>1. TypeOK /\ stage \in Stage /\ Me(stage) \in Nat
  BY MeIsNatural DEF IInv, TypeOK
<1>2. ASSUME NEW source \in Naming, Looks(source)
      PROVE  IInv'
  BY <1>2, CellsKeep DEF Looks, Cell, IInv, TypeOK, OwnOutput
<1>3. ASSUME NEW source \in Naming, NEW n \in Bindable, NEW v \in Value, Assigns(source, n, v)
      PROVE  IInv'
  <2>1. n \in Stage /\ [value |-> v, by |-> Me(stage)] \in Entry
    BY <1>1 DEF Bindable, Entry
  <2>2. runtime \in [Stage -> Entry] /\ pc = "agent"
    BY <1>1, <1>3 DEF TypeOK, Assigns, Cell
  <2>3. runtime' \in [Stage -> Entry]
    BY <1>3, <2>1, <2>2 DEF Assigns
  <2>4. runtime'[stage].value # Missing => runtime'[stage].by = Me(stage)
    BY <1>1, <1>3, <2>1, <2>2 DEF Assigns, IInv, OwnOutput
  <2> QED BY <1>1, <1>3, <2>2, <2>3, <2>4, CellsKeep DEF Assigns, IInv, TypeOK, OwnOutput
<1>4. ASSUME NEW source \in Naming, NEW n \in Bindable, NEW v \in Table, Changes(source, n, v)
      PROVE  IInv'
  <2>1. n \in Stage /\ v \in Value
    BY DEF Bindable, Value
  <2>2. runtime \in [Stage -> Entry] /\ pc = "agent" /\ runtime[n].value \in Table
    BY <1>1, <1>4 DEF TypeOK, Changes, Cell
  <2>3. runtime[n] \in Entry
    BY <2>1, <2>2
  <2>4. [runtime[n] EXCEPT !.value = v] \in Entry /\ [runtime[n] EXCEPT !.value = v].by = runtime[n].by
    BY <2>1, <2>3 DEF Entry
  <2>5. runtime' = [runtime EXCEPT ![n] = [runtime[n] EXCEPT !.value = v]]
    BY <1>4 DEF Changes
  <2>6. runtime' \in [Stage -> Entry]
    BY <2>1, <2>2, <2>4, <2>5
  <2>7. Missing \notin Table
    BY PipelineAssumption
  <2>8. runtime'[stage].value # Missing => runtime'[stage].by = Me(stage)
    BY <1>1, <2>1, <2>2, <2>4, <2>5, <2>7 DEF IInv, OwnOutput
  <2> QED BY <1>1, <1>4, <2>2, <2>6, <2>8, CellsKeep DEF Changes, IInv, TypeOK, OwnOutput
<1>5. ASSUME NEW source \in Naming, NEW v \in Table \cup {Unreadable}, Writes(source, v)
      PROVE  IInv'
  <2>1. [value |-> v, by |-> Me(stage)] \in File
    BY <1>1 DEF File
  <2> QED BY <1>1, <1>5, <2>1, CellsKeep DEF Writes, Cell, IInv, TypeOK, OwnOutput
<1>6. ASSUME NEW text \in Replies, Nudge(text)
      PROVE  IInv'
  <2>1. OutcomeOf(text) \in Outcome
    BY <1>1, <1>6, OutcomesTyped, RepliesAreTexts DEF Nudge
  <2>2. TypeOK'
    <3>0. Budget \in Nat
      BY PipelineAssumption
    <3>1. steps' \in 0..Budget
      BY <1>1, <1>6, <3>0 DEF Nudge, TypeOK
    <3>2. /\ first' \in Outcome /\ nudged' \in BOOLEAN
          /\ UNCHANGED <<channel, attempt, pc, stage, runtime, file, handed, ranCode, named, ended, stages, contract, unfaithful>>
      BY <1>6, <2>1 DEF Nudge, blame
    <3> QED BY <1>1, <3>1, <3>2 DEF TypeOK
  <2> QED BY <1>6, <2>2 DEF Nudge, IInv, OwnOutput, EndedAsCollected, CrossedIsWhatWasJudged, CreditedForItsOwn,
           VerdictsMean, RightAllAlong, FailureIsExplained, TurnedWrong, Checks, Me, Success
<1>7. ASSUME NEW text \in Replies, EndTurn(text) \/ StopsShort(text)
      PROVE  IInv'
  <2>1. OutcomeOf(text) \in Outcome
    BY <1>1, <1>7, OutcomesTyped, RepliesAreTexts DEF EndTurn, StopsShort
  <2>2. pc = "agent" /\ pc' = "seam" /\ ended' = OutcomeOf(text)
    BY <1>7 DEF EndTurn, StopsShort
  <2>3. UNCHANGED <<channel, attempt, stage, runtime, file, handed, ranCode, named, nudged, first, stages, blame>>
    BY <1>7 DEF EndTurn, StopsShort
  <2>0. Budget \in Nat
    BY PipelineAssumption
  <2>a. steps \in 0..Budget
    BY <1>1 DEF TypeOK
  <2>4. steps' \in 0..Budget
    <3>1. CASE EndTurn(text)
      BY <2>0, <2>a, <3>1 DEF EndTurn
    <3>2. CASE StopsShort(text)
      BY <2>a, <3>2 DEF StopsShort
    <3> QED BY <1>7, <3>1, <3>2
  <2>5. TypeOK'
    BY <1>1, <2>1, <2>2, <2>3, <2>4 DEF TypeOK, blame
  <2>6. OutcomeOf(text).reply = text
    BY DEF OutcomeOf
  <2>7. OutcomeOf(text)' = OutcomeOf(text)
    BY <2>3 DEF OutcomeOf, Collected, Delivery, Replied, Block, Me
  <2>8. EndedAsCollected'
    BY <2>2, <2>3, <2>6, <2>7 DEF EndedAsCollected, OutcomeOf, Collected, Delivery, Replied, Block, Me
  <2> QED BY <2>2, <2>3, <2>5, <2>8 DEF IInv, OwnOutput, CrossedIsWhatWasJudged, CreditedForItsOwn,
           VerdictsMean, RightAllAlong, FailureIsExplained, TurnedWrong, Checks, Me, Success, blame
<1> QED BY <1>2, <1>3, <1>4, <1>5, <1>6, <1>7

(* The next agent is handed what this one was judged on. *)
LEMMA HandOnStep ==
  ASSUME IInv, HandOn
  PROVE  IInv'
<1>1. TypeOK /\ pc = "seam" /\ stage < Agents /\ Delivered
  BY DEF IInv, HandOn
<1>2. Agents \in Nat /\ stage \in 1..Agents /\ Budget \in Nat
  BY <1>1, PipelineAssumption DEF TypeOK, Stage
<1>3. /\ stages' \in Seq(Record) /\ Len(stages') = stage /\ stages'[stage] = StageRecord
      /\ DOMAIN stages' = 1..stage
  BY <1>1, SeamAppends DEF HandOn
<1>4. /\ stage' = stage + 1 /\ pc' = "agent" /\ attempt' = attempt
      /\ handed' = Taken /\ runtime' = NextRuntime /\ file' = Nothing
  BY DEF HandOn, NextFile
<1>5. Taken \in Entry /\ Taken.value = ended.produced
  BY <1>1, TakesWhatWasJudged DEF IInv
<1>6. Nothing \in Entry /\ Nothing \in File /\ Fresh \in [Stage -> Entry] /\ NoOutcome \in Outcome
  BY DEF Nothing, Entry, File, Value, Fresh, NoOutcome, Outcome, Text
<1>7. stage \in Stage /\ stage + 1 \in Stage /\ stage + 1 # stage
  BY <1>1, <1>2 DEF Stage
<1>8. NextRuntime \in [Stage -> Entry] /\ NextRuntime[stage + 1] = Nothing
  <2>1. runtime \in [Stage -> Entry]
    BY <1>1 DEF TypeOK
  <2>2. CASE channel = "shared"
    BY <1>6, <1>7, <2>1, <2>2 DEF NextRuntime
  <2>3. CASE channel = "object"
    BY <1>5, <1>6, <1>7, <2>3 DEF NextRuntime, Fresh
  <2>4. CASE channel \notin {"object", "shared"}
    BY <1>6, <1>7, <2>4 DEF NextRuntime, Fresh
  <2> QED BY <2>2, <2>3, <2>4
<1>9. TypeOK'
  <2>1. channel' = channel /\ contract' = contract /\ unfaithful' = unfaithful
    BY DEF HandOn, blame
  <2>2. /\ steps' = 0 /\ ranCode' = FALSE /\ named' = FALSE /\ nudged' = FALSE
        /\ first' = NoOutcome /\ ended' = NoOutcome
    BY DEF HandOn
  <2>3. 0 \in 0..Budget
    BY <1>2
  <2>4. Len(stages') = stage' - 1
    BY <1>2, <1>3, <1>4
  <2>5. /\ channel' \in Channels /\ attempt' \in 1..MaxAttempts /\ contract' \in 0..Agents /\ unfaithful' \in 0..Agents
    BY <1>1, <1>4, <2>1 DEF TypeOK
  <2>6. runtime' \in [Stage -> Entry] /\ file' \in File /\ handed' \in Entry
    BY <1>4, <1>5, <1>6, <1>8
  <2>7. /\ steps' \in 0..Budget /\ ranCode' \in BOOLEAN /\ named' \in BOOLEAN /\ nudged' \in BOOLEAN
        /\ first' \in Outcome /\ ended' \in Outcome
    BY <1>6, <2>2, <2>3
  <2>8. /\ stage' \in Stage
        /\ pc' \in {"agent", "seam", "judged", "timed out", "aborted"}
        /\ pc' \in {"agent", "seam"} => Len(stages') = stage' - 1
        /\ pc' = "judged" => Len(stages') = stage'
    BY <1>4, <1>7, <2>4
  <2> QED BY <1>3, <2>5, <2>6, <2>7, <2>8 DEF TypeOK
<1>10. OwnOutput'
  BY <1>4, <1>8 DEF OwnOutput, Nothing
<1>11. EndedAsCollected' /\ FailureIsExplained'
  BY <1>4 DEF EndedAsCollected, FailureIsExplained
<1>12. CrossedIsWhatWasJudged'
  <2>1. stage' - 1 = stage
    BY <1>2, <1>4
  <2>2. stages'[stage].produced = ended.produced
    BY <1>3 DEF StageRecord, AsItEnded
  <2> QED BY <1>4, <1>5, <2>1, <2>2 DEF CrossedIsWhatWasJudged
<1>13. CreditedForItsOwn' /\ VerdictsMean' /\ RightAllAlong'
  <2>1. stages' = Append(Confirm(stages), StageRecord)
    BY DEF HandOn
  <2>2. /\ OwnOutput /\ EndedAsCollected /\ CreditedForItsOwn /\ VerdictsMean /\ RightAllAlong
    BY DEF IInv
  <2>0. RecordsAreRight(stages')
    BY <1>1, <2>1, <2>2, RecordsStayRight
  <2>3. /\ \A i \in DOMAIN stages' : stages'[i].produced # Missing => stages'[i].by = Me(i)
        /\ \A i \in DOMAIN stages' :
             /\ stages'[i].success <=> Checks(i, stages'[i].produced, Expected[i])
             /\ i > 1 /\ stages'[i].faithful = "yes" =>
                  /\ stages'[i - 1].produced \in Table
                  /\ Checks(i, stages'[i].produced, Rule[i][stages'[i - 1].produced])
        /\ stages' # <<>>
        /\ stages'[1].success /\ (\A i \in 2 .. Len(stages') : stages'[i].faithful = "yes")
             => (\A i \in DOMAIN stages' : stages'[i].success) \/ TurnedWrong(stages')
    BY <2>0 DEF RecordsAreRight
  <2>4. CreditedForItsOwn'
    BY <1>4, <2>3 DEF CreditedForItsOwn, Me
  <2>5. VerdictsMean'
    BY <2>3 DEF VerdictsMean, Checks
  <2>6. RightAllAlong'
    BY <2>3 DEF RightAllAlong, TurnedWrong
  <2> QED BY <2>4, <2>5, <2>6
<1> QED BY <1>9, <1>10, <1>11, <1>12, <1>13 DEF IInv

(* The case ends, with the last agent or with one that handed nothing on. *)
LEMMA JudgeStep ==
  ASSUME IInv, HandedNothingOn \/ Judge
  PROVE  IInv'
<1>1. TypeOK /\ pc = "seam" /\ pc' = "judged" /\ stages' = Append(Confirm(stages), StageRecord)
  BY DEF IInv, HandedNothingOn, Judge
<1>2. Agents \in Nat /\ stage \in 1..Agents
  BY <1>1, PipelineAssumption DEF TypeOK, Stage
<1>3. /\ stages' \in Seq(Record) /\ Len(stages') = stage /\ DOMAIN stages' = 1..stage
  BY <1>1, SeamAppends
<1>4. UNCHANGED <<channel, attempt, stage, runtime, file, handed, steps, ranCode, named, nudged, first, ended>>
  BY DEF HandedNothingOn, Judge, run
<1>5. contract' \in 0..Agents /\ unfaithful' \in 0..Agents
  <2>1. CASE HandedNothingOn
    BY <1>2, <2>1 DEF HandedNothingOn
  <2>2. CASE Judge
    <3>1. /\ contract' \in IF Success(stages') THEN {0} ELSE FirstWrong(stages')
          /\ unfaithful' \in IF Success(stages') THEN {0} ELSE Culprit(stages')
      BY <1>1, <2>2 DEF Judge
    <3>2. FirstWrong(stages') \subseteq 0..Agents
      BY <1>2, <1>3 DEF FirstWrong, Earliest
    <3>3. Culprit(stages') \subseteq 0..Agents
      BY <1>2, <1>3 DEF Culprit, Earliest
    <3>4. 0 \in 0..Agents
      BY <1>2
    <3> QED BY <3>1, <3>2, <3>3, <3>4
  <2> QED BY <2>1, <2>2
<1>6. TypeOK'
  <2>1. /\ pc' \in {"agent", "seam", "judged", "timed out", "aborted"}
        /\ pc' \in {"agent", "seam"} => Len(stages') = stage' - 1
        /\ pc' = "judged" => Len(stages') = stage'
    BY <1>1, <1>3, <1>4
  <2>2. stage' \in Stage /\ channel' \in Channels /\ attempt' \in 1..MaxAttempts
    BY <1>1, <1>4 DEF TypeOK
  <2>3. runtime' \in [Stage -> Entry] /\ file' \in File /\ handed' \in Entry
    BY <1>1, <1>4 DEF TypeOK
  <2>4. /\ steps' \in 0..Budget /\ ranCode' \in BOOLEAN /\ named' \in BOOLEAN /\ nudged' \in BOOLEAN
        /\ first' \in Outcome /\ ended' \in Outcome
    BY <1>1, <1>4 DEF TypeOK
  <2> QED BY <1>3, <1>5, <2>1, <2>2, <2>3, <2>4 DEF TypeOK
<1>7. OwnOutput' /\ EndedAsCollected' /\ CrossedIsWhatWasJudged'
  BY <1>1 DEF OwnOutput, EndedAsCollected, CrossedIsWhatWasJudged
<1>8. CreditedForItsOwn' /\ VerdictsMean' /\ RightAllAlong'
  <2>2. /\ OwnOutput /\ EndedAsCollected /\ CreditedForItsOwn /\ VerdictsMean /\ RightAllAlong
    BY DEF IInv
  <2>0. RecordsAreRight(stages')
    BY <1>1, <2>2, RecordsStayRight
  <2>3. /\ \A i \in DOMAIN stages' : stages'[i].produced # Missing => stages'[i].by = Me(i)
        /\ \A i \in DOMAIN stages' :
             /\ stages'[i].success <=> Checks(i, stages'[i].produced, Expected[i])
             /\ i > 1 /\ stages'[i].faithful = "yes" =>
                  /\ stages'[i - 1].produced \in Table
                  /\ Checks(i, stages'[i].produced, Rule[i][stages'[i - 1].produced])
        /\ stages' # <<>>
        /\ stages'[1].success /\ (\A i \in 2 .. Len(stages') : stages'[i].faithful = "yes")
             => (\A i \in DOMAIN stages' : stages'[i].success) \/ TurnedWrong(stages')
    BY <2>0 DEF RecordsAreRight
  <2>4. CreditedForItsOwn'
    BY <1>4, <2>3 DEF CreditedForItsOwn, Me
  <2>5. VerdictsMean'
    BY <2>3 DEF VerdictsMean, Checks
  <2>6. RightAllAlong'
    BY <2>3 DEF RightAllAlong, TurnedWrong
  <2> QED BY <2>4, <2>5, <2>6
<1>9. FailureIsExplained'
  <2>1. CASE HandedNothingOn
    <3>1. unfaithful' = stage /\ stage # 0
      BY <1>2, <2>1 DEF HandedNothingOn
    <3> QED BY <3>1 DEF FailureIsExplained
  <2>2. CASE Judge
    <3> SUFFICES ASSUME ~Success(stages'), unfaithful' = 0,
                        \A i \in 2 .. Len(stages') : stages'[i].faithful # "unknown",
                        ~TurnedWrong(stages)'
                 PROVE  FALSE
      BY DEF FailureIsExplained
    <3>1. unfaithful' \in Culprit(stages')
      BY <1>1, <2>2 DEF Judge
    <3>2. stage = Agents
      BY <2>2 DEF Judge
    <3>3. {i \in 2 .. Len(stages') : stages'[i].faithful = "no"} = {} /\ stages'[1].success
      BY <3>1 DEF Culprit, Earliest
    <3>4. \A i \in 2 .. Len(stages') : stages'[i].faithful \in Verdict
      <4>1. ASSUME NEW i \in 2 .. Len(stages')
            PROVE  stages'[i] \in Record
        BY <1>2, <1>3
      <4> QED BY <4>1 DEF Record
    <3>5. \A i \in 2 .. Len(stages') : stages'[i].faithful = "yes"
      BY <3>3, <3>4 DEF Verdict
    <3>6. stages' # <<>>
      BY <1>2, <1>3
    <3>7. stages'[Len(stages')].success
      BY <1>2, <1>3, <1>8, <3>3, <3>5, <3>6 DEF RightAllAlong
    <3> QED BY <1>3, <3>2, <3>7 DEF Success
  <2> QED BY <2>1, <2>2
<1> QED BY <1>6, <1>7, <1>8, <1>9 DEF IInv

(* An outage begins the case again; the hour ends it, or a file that cannot be read. *)
LEMMA DriverStep ==
  ASSUME IInv, Outage \/ TimeOut \/ CollectRaises
  PROVE  IInv'
<1>0. MaxAttempts \in Nat /\ Budget \in Nat /\ Agents \in Nat /\ 1 \in Stage
  BY PipelineAssumption DEF Stage
<1>1. TypeOK /\ pc = "agent" /\ MaxAttempts \in Nat /\ Budget \in Nat /\ Agents \in Nat /\ 1 \in Stage
  <2>1. pc = "agent"
    BY DEF Outage, TimeOut, CollectRaises
  <2> QED BY <1>0, <2>1 DEF IInv
<1>2. Nothing \in Entry /\ Nothing \in File /\ Fresh \in [Stage -> Entry] /\ NoOutcome \in Outcome
  BY DEF Nothing, Entry, File, Value, Fresh, NoOutcome, Outcome, Text
<1>3. stages' = <<>> /\ stages' \in Seq(Record) /\ Len(stages') = 0
  <2>1. stages' = <<>>
    BY DEF Outage, TimeOut, CollectRaises
  <2> QED BY <2>1
<1>4. CASE Outage
  <2>1. /\ attempt' = attempt + 1 /\ attempt < MaxAttempts /\ stage' = 1 /\ pc' = pc
        /\ runtime' = Fresh /\ file' = Nothing /\ handed' = Nothing
        /\ steps' = 0 /\ ranCode' = FALSE /\ named' = FALSE /\ nudged' = FALSE
        /\ first' = NoOutcome /\ ended' = NoOutcome
        /\ channel' = channel /\ contract' = contract /\ unfaithful' = unfaithful
    BY <1>4 DEF Outage, NewWorkdir, blame
  <2>2. attempt \in 1..MaxAttempts /\ channel \in Channels /\ contract \in 0..Agents /\ unfaithful \in 0..Agents
    BY <1>1 DEF TypeOK
  <2>3. attempt' \in 1..MaxAttempts
    BY <1>1, <2>1, <2>2
  <2>4. steps' \in 0..Budget
    BY <1>1, <2>1
  <2>5. /\ pc' \in {"agent", "seam", "judged", "timed out", "aborted"}
        /\ pc' \in {"agent", "seam"} => Len(stages') = stage' - 1
        /\ pc' = "judged" => Len(stages') = stage'
    BY <1>1, <1>3, <2>1
  <2>6. /\ stage' \in Stage /\ runtime' \in [Stage -> Entry] /\ file' \in File /\ handed' \in Entry
        /\ ranCode' \in BOOLEAN /\ named' \in BOOLEAN /\ nudged' \in BOOLEAN
        /\ first' \in Outcome /\ ended' \in Outcome
    BY <1>1, <1>2, <2>1
  <2>7. TypeOK'
    BY <1>3, <2>1, <2>2, <2>3, <2>4, <2>5, <2>6 DEF TypeOK
  <2>8. OwnOutput'
    BY <1>1, <2>1 DEF OwnOutput, Fresh, Nothing
  <2>9. CrossedIsWhatWasJudged' /\ EndedAsCollected' /\ FailureIsExplained'
    BY <1>1, <2>1 DEF CrossedIsWhatWasJudged, EndedAsCollected, FailureIsExplained
  <2> QED BY <1>3, <2>7, <2>8, <2>9 DEF IInv, CreditedForItsOwn, VerdictsMean, RightAllAlong
<1>5. CASE TimeOut \/ CollectRaises
  <2>1. /\ pc' \in {"timed out", "aborted"}
        /\ UNCHANGED <<channel, attempt, stage, runtime, file, handed, steps, ranCode, named, nudged, first, ended, contract, unfaithful>>
    BY <1>5 DEF TimeOut, CollectRaises, run, blame
  <2>2. TypeOK'
    BY <1>1, <1>3, <2>1 DEF TypeOK
  <2>3. OwnOutput' /\ EndedAsCollected' /\ CrossedIsWhatWasJudged' /\ FailureIsExplained'
    BY <2>1 DEF OwnOutput, EndedAsCollected, CrossedIsWhatWasJudged, FailureIsExplained
  <2> QED BY <1>3, <2>2, <2>3 DEF IInv, CreditedForItsOwn, VerdictsMean, RightAllAlong
<1> QED BY <1>4, <1>5

(* Every step keeps the invariant. *)
LEMMA NextIInv == IInv /\ [Next]_vars => IInv'
<1> SUFFICES ASSUME IInv, [Next]_vars
             PROVE  IInv'
  OBVIOUS
<1>1. ASSUME UNCHANGED vars
      PROVE  IInv'
  <2>1. UNCHANGED <<channel, attempt, pc, stage, runtime, file, handed, steps, ranCode, named, nudged, first, ended, stages, contract, unfaithful>>
    BY <1>1 DEF vars, run, blame
  <2>2. TypeOK'
    BY <2>1 DEF IInv, TypeOK
  <2>3. OwnOutput' /\ CreditedForItsOwn' /\ CrossedIsWhatWasJudged'
    BY <2>1 DEF IInv, OwnOutput, CreditedForItsOwn, CrossedIsWhatWasJudged, Me
  <2>4. EndedAsCollected'
    BY <2>1 DEF IInv, EndedAsCollected, OutcomeOf, Collected, Delivery, Replied, Block, Me
  <2>5. VerdictsMean' /\ RightAllAlong' /\ FailureIsExplained'
    BY <2>1 DEF IInv, VerdictsMean, RightAllAlong, FailureIsExplained, Success
  <2> QED BY <2>2, <2>3, <2>4, <2>5 DEF IInv
<1>2. ASSUME Next
      PROVE  IInv'
  BY <1>2, TurnStep, HandOnStep, JudgeStep, DriverStep DEF Next
<1> QED BY <1>1, <1>2

LEMMA Invariant == Spec => []IInv
BY InitIInv, NextIInv, PTL DEF Spec

---------------------------------------------------------------------------

(* What each agent of the hosted study is given is the table the agent before it *)
(* was judged on, over every channel and after a nudge too (_cross, as_it_ended). *)
THEOREM CrossesWhatIsJudged == Spec => []CrossedIsWhatWasJudged
<1>1. IInv => CrossedIsWhatWasJudged
  BY DEF IInv
<1> QED BY <1>1, Invariant, PTL

(* A stage of a hosted case is judged on what its own agent made in this attempt *)
(* (_next_runtime, _stage_dir).                                                  *)
THEOREM CreditIsEarned == Spec => []CreditedForItsOwn
<1>1. IInv => CreditedForItsOwn
  BY DEF IInv
<1> QED BY <1>1, Invariant, PTL

(* A hosted case that fails names an agent that failed it, unless it could not be   *)
(* told of some agent whether it was faithful, or its records show where a table    *)
(* right only by the check's tolerance turned wrong (run_hosted, first_unfaithful). *)
THEOREM FailuresAreExplained == Spec => []FailureIsExplained
<1>1. IInv => FailureIsExplained
  BY DEF IInv
<1> QED BY <1>1, Invariant, PTL

(* The types of the hosted study's state, and how many stages are recorded when. *)
THEOREM HostedTypes == Spec => []TypeOK
<1>1. IInv => TypeOK
  BY DEF IInv
<1> QED BY <1>1, Invariant, PTL

---------------------------------------------------------------------------
(* What a record of steps and turns holds, joined (FlattenSeq), by induction on its   *)
(* length                                                                             *)

\* Induction over the naturals, as a fact about sets.
LEMMA SetInduction ==
  ASSUME NEW S, 0 \in S, \A k \in Nat : k \in S => k + 1 \in S
  PROVE  Nat \subseteq S
<1> DEFINE Less == {p \in Nat \X Nat : p[1] < p[2]}
           T == Nat \ S
<1>1. IsWellFoundedOn(Less, Nat)
  BY NatLessThanWellFounded DEF OpToRel
<1>2. \A k, l \in Nat : <<k, l>> \in Less <=> k < l
  OBVIOUS
<1> HIDE DEF Less
<1> SUFFICES ASSUME T # {} PROVE FALSE
  OBVIOUS
<1>3. PICK k \in T : \A l \in T : ~(<<l, k>> \in Less)
  BY <1>1, WFMin
<1>4. k \in Nat \ {0} /\ k - 1 \in Nat /\ k - 1 < k /\ (k - 1) + 1 = k
  BY <1>3
<1>5. k - 1 \in S
  BY <1>2, <1>3, <1>4
<1> QED BY <1>3, <1>4, <1>5

(* What FlattenSeq chooses for the first n sequences: what is joined up to each place. *)
Joins(f, s, n) == f = [i \in 1..n |-> IF i = 1 THEN s[i] ELSE f[i - 1] \o s[i]]

LEMMA SomeJoins ==
  ASSUME NEW S, NEW s \in Seq(Seq(S)), NEW n \in 0..Len(s)
  PROVE  \E f \in [1..n -> Seq(S)] : Joins(f, s, n)
<1> DEFINE P == {k \in Nat : k <= Len(s) => \E f \in [1..k -> Seq(S)] : Joins(f, s, k)}
<1>0. Len(s) \in Nat /\ \A i \in 1..Len(s) : s[i] \in Seq(S)
  OBVIOUS
<1>1. 0 \in P
  <2> DEFINE f == [i \in 1..0 |-> <<>>]
  <2>1. f \in [1..0 -> Seq(S)] /\ f = [i \in 1..0 |-> IF i = 1 THEN s[i] ELSE f[i - 1] \o s[i]]
    OBVIOUS
  <2> QED BY <2>1 DEF Joins
<1>2. ASSUME NEW k \in Nat, k \in P PROVE k + 1 \in P
  <2> SUFFICES ASSUME k + 1 <= Len(s) PROVE \E g \in [1..k + 1 -> Seq(S)] : Joins(g, s, k + 1)
    OBVIOUS
  <2>1. PICK f \in [1..k -> Seq(S)] : Joins(f, s, k)
    BY <1>0, <1>2
  <2>2. \A i \in 1..k : f[i] = IF i = 1 THEN s[i] ELSE f[i - 1] \o s[i]
    BY <2>1 DEF Joins
  <2>3. s[k + 1] \in Seq(S)
    BY <1>0
  <2> DEFINE last == IF k + 1 = 1 THEN s[k + 1] ELSE f[k] \o s[k + 1]
             g == [i \in 1..k + 1 |-> IF i = k + 1 THEN last ELSE f[i]]
  <2>4. last \in Seq(S)
    <3>1. CASE k = 0
      BY <2>3, <3>1
    <3>2. CASE k # 0
      <4>1. f[k] \in Seq(S)
        BY <3>2
      <4> QED BY <2>3, <3>2, <4>1, ConcatProperties
    <3> QED BY <3>1, <3>2
  <2>5. g \in [1..k + 1 -> Seq(S)]
    <3> HIDE DEF last
    <3>1. \A i \in 1..k + 1 : i # k + 1 => i \in 1..k
      OBVIOUS
    <3> QED BY <2>4, <3>1
  <2>6. ASSUME NEW i \in 1..k + 1
        PROVE  g[i] = IF i = 1 THEN s[i] ELSE g[i - 1] \o s[i]
    <3>1. CASE i = k + 1
      <4>1. k # 0 => k \in 1..k + 1 /\ g[k] = f[k] /\ i - 1 = k
        BY <3>1
      <4> QED BY <3>1, <4>1
    <3>2. CASE i # k + 1
      <4>1. i \in 1..k /\ g[i] = f[i]
        BY <3>2
      <4>2. i # 1 => i - 1 \in 1..k + 1 /\ i - 1 # k + 1 /\ g[i - 1] = f[i - 1]
        BY <3>2
      <4> QED BY <2>2, <4>1, <4>2
    <3> QED BY <3>1, <3>2
  <2>7. Joins(g, s, k + 1)
    <3>1. g = [i \in 1..k + 1 |-> g[i]]
      BY <2>5
    <3> HIDE DEF g
    <3> QED BY <2>6, <3>1 DEF Joins
  <2> QED BY <2>5, <2>7
<1>3. n \in P
  <2>1. Nat \subseteq P
    <3> HIDE DEF P
    <3> QED BY <1>1, <1>2, SetInduction
  <2> QED BY <1>0, <2>1
<1> QED BY <1>0, <1>3

Begin(s, t, m) == \A i \in 1..m : t[i] = s[i]

\* Two of them agree as far as the sequences do.
LEMMA SameJoins ==
  ASSUME NEW s, NEW t, NEW m \in Nat, NEW n \in Nat, m <= n, Begin(s, t, m),
         NEW f, Joins(f, s, m), NEW g, Joins(g, t, n)
  PROVE  Begin(f, g, m)
<1> DEFINE P == {k \in Nat : k + 1 <= m => g[k + 1] = f[k + 1]}
<1>1. /\ \A i \in 1..m : f[i] = IF i = 1 THEN s[i] ELSE f[i - 1] \o s[i]
      /\ \A i \in 1..n : g[i] = IF i = 1 THEN t[i] ELSE g[i - 1] \o t[i]
  BY DEF Joins
<1>0. \A i \in 1..m : t[i] = s[i]
  BY DEF Begin
<1>2. 0 \in P
  BY <1>0, <1>1
<1>3. ASSUME NEW k \in Nat, k \in P PROVE k + 1 \in P
  <2> SUFFICES ASSUME k + 2 <= m PROVE g[k + 2] = f[k + 2]
    OBVIOUS
  <2>1. g[k + 1] = f[k + 1] /\ k + 2 \in 1..m /\ k + 2 \in 1..n /\ k + 2 # 1 /\ (k + 2) - 1 = k + 1
    BY <1>3
  <2>2. g[k + 2] = g[k + 1] \o t[k + 2] /\ f[k + 2] = f[k + 1] \o s[k + 2] /\ t[k + 2] = s[k + 2]
    BY <1>0, <1>1, <2>1
  <2> QED BY <2>1, <2>2
<1>4. Nat \subseteq P
  <2> HIDE DEF P
  <2> QED BY <1>2, <1>3, SetInduction
<1> SUFFICES ASSUME NEW i \in 1..m PROVE g[i] = f[i]
  BY DEF Begin
<1>5. i - 1 \in Nat /\ (i - 1) + 1 = i
  OBVIOUS
<1> QED BY <1>4, <1>5

\* A long enough one of them ends on the sequences joined.
LEMMA Flattened ==
  ASSUME NEW S, NEW s \in Seq(Seq(S)), Len(s) # 0
  PROVE  /\ Joins(CHOOSE f : Joins(f, s, Len(s)), s, Len(s))
         /\ FlattenSeq(s) = (CHOOSE f : Joins(f, s, Len(s)))[Len(s)]
         /\ FlattenSeq(s) \in Seq(S)
<1>1. FlattenSeq(s) = (CHOOSE f : Joins(f, s, Len(s)))[Len(s)]
  BY Zenon DEF FlattenSeq, Joins
<1>2. Len(s) \in Nat /\ Len(s) \in 0..Len(s) /\ Len(s) \in 1..Len(s)
  OBVIOUS
<1>3. PICK f \in [1..Len(s) -> Seq(S)] : Joins(f, s, Len(s))
  BY <1>2, SomeJoins
<1> DEFINE g == CHOOSE h : Joins(h, s, Len(s))
<1>4. Joins(g, s, Len(s))
  BY <1>3
<1> HIDE DEF g
<1>5. g[Len(s)] = f[Len(s)]
  <2>1. Begin(s, s, Len(s))
    BY DEF Begin
  <2>2. Begin(f, g, Len(s))
    BY <1>2, <1>3, <1>4, <2>1, SameJoins
  <2> QED BY <1>2, <2>2 DEF Begin
<1>6. f[Len(s)] \in Seq(S)
  BY <1>2
<1> QED BY <1>1, <1>4, <1>5, <1>6 DEF g
LEMMA FlatEmpty == FlattenSeq(<<>>) = <<>>
BY DEF FlattenSeq

LEMMA FlatTyped ==
  ASSUME NEW S, NEW s \in Seq(Seq(S))
  PROVE  FlattenSeq(s) \in Seq(S)
<1>1. Len(s) = 0 => s = <<>>
  OBVIOUS
<1> QED BY <1>1, FlatEmpty, Flattened, EmptySeq

LEMMA FlatAppend ==
  ASSUME NEW S, NEW s \in Seq(Seq(S)), NEW x \in Seq(S)
  PROVE  FlattenSeq(Append(s, x)) = FlattenSeq(s) \o x
<1> DEFINE t == Append(s, x)
<1>1. /\ t \in Seq(Seq(S)) /\ Len(t) = Len(s) + 1 /\ Len(s) \in Nat
      /\ \A i \in 1..Len(s) : t[i] = s[i]
      /\ t[Len(s) + 1] = x
  OBVIOUS
<1> HIDE DEF t
<1> DEFINE g == CHOOSE f : Joins(f, t, Len(t))
<1>2. Joins(g, t, Len(t)) /\ FlattenSeq(t) = g[Len(t)]
  <2>1. Len(t) # 0
    BY <1>1
  <2> QED BY <1>1, <2>1, Flattened
<1> HIDE DEF g
<1>3. g[Len(t)] = IF Len(t) = 1 THEN t[Len(t)] ELSE g[Len(t) - 1] \o t[Len(t)]
  <2>1. Len(t) \in 1..Len(t)
    BY <1>1
  <2> QED BY <1>2, <2>1 DEF Joins
<1>4. CASE Len(s) = 0
  <2>1. s = <<>> /\ Len(t) = 1
    BY <1>1, <1>4
  <2>2. <<>> \o x = x
    OBVIOUS
  <2> QED BY <1>1, <1>2, <1>3, <1>4, <2>1, <2>2, FlatEmpty DEF t
<1>5. CASE Len(s) # 0
  <2> DEFINE f == CHOOSE h : Joins(h, s, Len(s))
  <2>1. Joins(f, s, Len(s)) /\ FlattenSeq(s) = f[Len(s)]
    BY <1>5, Flattened
  <2> HIDE DEF f
  <2>2. Len(s) <= Len(t) /\ Len(t) \in Nat /\ Len(s) \in 1..Len(s)
    BY <1>1, <1>5
  <2>3. g[Len(s)] = f[Len(s)]
    <3>1. Begin(s, t, Len(s))
      BY <1>1 DEF Begin
    <3>2. Begin(f, g, Len(s))
      BY <1>1, <1>2, <2>1, <2>2, <3>1, SameJoins
    <3> QED BY <2>2, <3>2 DEF Begin
  <2>4. Len(t) # 1 /\ Len(t) - 1 = Len(s)
    BY <1>1, <1>5
  <2>5. g[Len(t)] = g[Len(s)] \o x
    BY <1>1, <1>3, <2>4
  <2> QED BY <1>2, <2>1, <2>3, <2>5 DEF t
<1> QED BY <1>4, <1>5

\* What two sequences of sequences join to, one after the other.
LEMMA FlatConcat ==
  ASSUME NEW S, NEW s \in Seq(Seq(S)), NEW t \in Seq(Seq(S))
  PROVE  FlattenSeq(s \o t) = FlattenSeq(s) \o FlattenSeq(t)
<1> DEFINE P == {n \in Nat : \A u \in Seq(Seq(S)) :
                   Len(u) = n => FlattenSeq(s \o u) = FlattenSeq(s) \o FlattenSeq(u)}
<1>0. FlattenSeq(s) \in Seq(S)
  BY FlatTyped
<1>1. 0 \in P
  <2> SUFFICES ASSUME NEW u \in Seq(Seq(S)), Len(u) = 0
               PROVE  FlattenSeq(s \o u) = FlattenSeq(s) \o FlattenSeq(u)
    OBVIOUS
  <2>1. u = <<>>
    OBVIOUS
  <2>2. s \o <<>> = s /\ FlattenSeq(s) \o <<>> = FlattenSeq(s)
    BY <1>0, ConcatEmptySeq
  <2> QED BY <2>1, <2>2, FlatEmpty
<1>2. ASSUME NEW n \in Nat, n \in P PROVE n + 1 \in P
  <2> SUFFICES ASSUME NEW u \in Seq(Seq(S)), Len(u) = n + 1
               PROVE  FlattenSeq(s \o u) = FlattenSeq(s) \o FlattenSeq(u)
    OBVIOUS
  <2> DEFINE v == SubSeq(u, 1, n)
             x == u[n + 1]
  <2>1. v \in Seq(Seq(S)) /\ Len(v) = n /\ x \in Seq(S) /\ u = Append(v, x)
    OBVIOUS
  <2> HIDE DEF v, x
  <2>2. s \o Append(v, x) = Append(s \o v, x) /\ s \o v \in Seq(Seq(S))
    BY <2>1
  <2>3. FlattenSeq(s \o v) = FlattenSeq(s) \o FlattenSeq(v)
    BY <1>2, <2>1
  <2>4. FlattenSeq(Append(s \o v, x)) = FlattenSeq(s \o v) \o x
    BY <2>1, <2>2, FlatAppend
  <2>5. FlattenSeq(u) = FlattenSeq(v) \o x
    BY <2>1, FlatAppend
  <2>6. FlattenSeq(v) \in Seq(S)
    BY <2>1, FlatTyped
  <2>7. (FlattenSeq(s) \o FlattenSeq(v)) \o x = FlattenSeq(s) \o (FlattenSeq(v) \o x)
    <3> DEFINE before == FlattenSeq(s)
               after == FlattenSeq(v)
    <3>1. before \in Seq(S) /\ after \in Seq(S) /\ x \in Seq(S)
      BY <1>0, <2>1, <2>6
    <3> HIDE DEF before, after
    <3>2. (before \o after) \o x = before \o (after \o x)
      BY <3>1
    <3> QED BY <3>2 DEF before, after
  <2> QED BY <2>1, <2>2, <2>3, <2>4, <2>5, <2>7
<1>3. Nat \subseteq P
  <2> HIDE DEF P
  <2> QED BY <1>1, <1>2, SetInduction
<1>4. Len(t) \in Nat
  OBVIOUS
<1> QED BY <1>3, <1>4

---------------------------------------------------------------------------
(* What is true of the runner and of the watched conversation all along *)

Asking == main \in {"await", "write"}
AtRest(t) == task[t] \in {"idle", "taken"}

(* The rows that wait are those of the tasks done and not yet taken. *)
QueueInv ==
  /\ ToSet(finished) = {t \in Tasks : task[t] = "done"}
  /\ \A t \in Tasks : task[t] = "done" => rows[t] # "absent"

(* The file, also while it is cut, stands for the rows of the last whole one; a task
   judged in it is not run. *)
FileInv ==
  /\ saved.rows = kept
  /\ \A t \in Tasks : kept[t] \in Scored => AtRest(t)

(* What an invocation holds: what the file had, and a row of what it has taken. *)
CollectedInv ==
  Asking => \A t \in Tasks :
    /\ kept[t] \in Scored => collected[t] = kept[t]
    /\ collected[t] \in Scored => AtRest(t)
    /\ task[t] = "taken" => collected[t] # "absent"
    /\ t \in attempted => task[t] # "idle"
    /\ t \notin attempted => task[t] = "idle" /\ collected[t] # "errored"

(* The record has an entry for each turn taken, and between turns none is open. *)
TurnInv ==
  /\ at \in {"turn", "cave", "ask", "dispatch", "take"} => Len(calls) + 1 = turn
  /\ at \in {"fidelity", "score", "scored"} => Len(calls) = Turns
  /\ at \in {"turn", "fidelity", "score", "scored"} => step = <<>> /\ recorded = <<>>

(* Every call made is in a turn taken, in a step closed or in the open one. *)
RecordInv == made = (Conversation!Flat(calls) \o FlattenSeq(recorded)) \o step

(* Upstream starts a replay from nothing, so both replays are of the whole record. *)
ReplayInv ==
  /\ at \notin {"score", "scored"} => left["fidelity"] = <<>>
  /\ at # "scored" => left["eval"] = <<>>
  /\ at \in {"score", "scored"} =>
       (missed <=> reached # Conversation!Replay(Conversation!Flat(calls)))
  /\ at = "scored" => judged = Conversation!Replay(Conversation!Flat(calls))

BlameInv == Conversation!AskedAgainOnlyIfMissed /\ Conversation!ErroredOnlyByTheProvider

Solved == at = "scored" /\ Conversation!CountsAsSolved

(* A row, held, waiting or in the file, that calls the watched task right is about the
   conversation there is, and no other can have begun since. *)
LinkInv ==
  /\ rows[Watched] = "right" => Solved /\ task[Watched] \in {"done", "taken"}
  /\ Asking /\ collected[Watched] = "right" => Solved
  /\ kept[Watched] = "right" => Solved

LEMMA SameFlatten == \A s : Conversation!FlattenSeq(s) = FlattenSeq(s)
BY Zenon DEF Conversation!FlattenSeq, FlattenSeq

LEMMA SameToSet == \A s : Conversation!ToSet(s) = ToSet(s)
BY Zenon DEF Conversation!ToSet, ToSet

\* One more at the end of a queue, or one fewer at its head
LEMMA OneMoreWaits ==
  ASSUME NEW S, NEW q \in Seq(S), NEW t \in S, IsInjective(q), t \notin ToSet(q)
  PROVE  IsInjective(Append(q, t)) /\ ToSet(Append(q, t)) = ToSet(q) \cup {t}
<1>1. /\ Len(q) \in Nat /\ DOMAIN q = 1..Len(q) /\ DOMAIN Append(q, t) = 1..Len(q) + 1
      /\ \A i \in 1..Len(q) : Append(q, t)[i] = q[i]
      /\ Append(q, t)[Len(q) + 1] = t
  OBVIOUS
<1>2. \A i \in 1..Len(q) + 1 : i \in 1..Len(q) \/ i = Len(q) + 1
  BY <1>1
<1>3. \A i \in 1..Len(q) : i \in 1..Len(q) + 1 /\ i # Len(q) + 1
  BY <1>1
<1>4. Len(q) + 1 \in 1..Len(q) + 1
  BY <1>1
<1>5. \A i \in 1..Len(q) : q[i] # t
  BY <1>1 DEF ToSet
<1>6. IsInjective(Append(q, t))
  BY <1>1, <1>2, <1>3, <1>5 DEF IsInjective
<1>7. ToSet(Append(q, t)) = ToSet(q) \cup {t}
  BY <1>1, <1>2, <1>3, <1>4 DEF ToSet
<1> QED BY <1>6, <1>7

LEMMA OneIsTaken ==
  ASSUME NEW S, NEW q \in Seq(S), IsInjective(q), q # <<>>
  PROVE  /\ Head(q) \in ToSet(q)
         /\ Tail(q) \in Seq(S) /\ IsInjective(Tail(q))
         /\ ToSet(Tail(q)) = ToSet(q) \ {Head(q)}
<1>1. /\ Len(q) \in Nat \ {0} /\ DOMAIN q = 1..Len(q) /\ Head(q) = q[1]
      /\ Tail(q) \in Seq(S) /\ DOMAIN Tail(q) = 1..Len(q) - 1
      /\ \A i \in 1..Len(q) - 1 : Tail(q)[i] = q[i + 1]
  OBVIOUS
<1>2. \A i \in 1..Len(q) - 1 : i + 1 \in 1..Len(q) /\ i + 1 # 1
  BY <1>1
<1>3. \A i \in 1..Len(q) : i # 1 => i - 1 \in 1..Len(q) - 1 /\ (i - 1) + 1 = i
  BY <1>1
<1>4. 1 \in 1..Len(q)
  BY <1>1
<1>5. \A i, j \in 1..Len(q) : q[i] = q[j] => i = j
  BY <1>1 DEF IsInjective
<1>6. IsInjective(Tail(q))
  <2> SUFFICES ASSUME NEW i \in 1..Len(q) - 1, NEW j \in 1..Len(q) - 1, Tail(q)[i] = Tail(q)[j]
               PROVE  i = j
    BY <1>1 DEF IsInjective
  <2>1. i + 1 = j + 1
    BY <1>1, <1>2, <1>5
  <2> QED BY <2>1
<1>7. ToSet(q) = {q[i] : i \in 1..Len(q)} /\ ToSet(Tail(q)) = {Tail(q)[i] : i \in 1..Len(q) - 1}
  BY <1>1 DEF ToSet
<1>8. ASSUME NEW x \in ToSet(Tail(q)) PROVE x \in ToSet(q) \ {q[1]}
  <2>1. PICK i \in 1..Len(q) - 1 : x = Tail(q)[i]
    BY <1>7
  <2>2. x = q[i + 1]
    BY <1>1, <2>1
  <2> QED BY <1>2, <1>4, <1>5, <1>7, <2>2
<1>9. ASSUME NEW x \in ToSet(q), x # q[1] PROVE x \in ToSet(Tail(q))
  <2>1. PICK i \in 1..Len(q) : x = q[i]
    BY <1>7
  <2>2. i - 1 \in 1..Len(q) - 1 /\ q[i] = Tail(q)[i - 1]
    BY <1>1, <1>3, <1>9, <2>1
  <2> QED BY <1>7, <2>1, <2>2
<1> QED BY <1>1, <1>4, <1>6, <1>7, <1>8, <1>9

---------------------------------------------------------------------------
(* The runner, whatever the watched conversation comes to *)

RunnerInv ==
  RunnerTypeOK /\ finished \in Seq(Tasks) /\ QueueInv /\ FileInv /\ CollectedInv

USE DEF runner, tasks, bounds, history, runnerVars

LEMMA RunnerInitInv == RunnerInit => RunnerInv
<1> SUFFICES ASSUME RunnerInit PROVE RunnerInv
  OBVIOUS
<1>1. /\ finished = <<>> /\ finished \in Seq(Tasks) /\ ToSet(finished) = {} /\ IsInjective(finished)
  BY DEF RunnerInit, ToSet, IsInjective
<1>2. RunnerTypeOK
  <2>1. NoRows \in [Tasks -> Rows] /\ task \in [Tasks -> Progress]
    BY DEF RunnerInit, NoRows, Rows, Progress
  <2>2. saved \in [whole: BOOLEAN, rows: [Tasks -> Rows]]
    BY <2>1 DEF RunnerInit
  <2>3. invocations \in 0..MaxInvocations /\ sigterms \in 0..MaxSigterms /\ kills \in 0..MaxKills
    BY RunnerAssumption DEF RunnerInit
  <2> QED BY <1>1, <2>1, <2>2, <2>3 DEF RunnerInit, RunnerTypeOK
<1>3. QueueInv /\ FileInv /\ CollectedInv
  BY <1>1 DEF RunnerInit, QueueInv, FileInv, CollectedInv, Asking, NoRows, Scored
<1> QED BY <1>1, <1>2, <1>3 DEF RunnerInv

LEMMA InvokeInv ==
  ASSUME RunnerInv, NEW asked \in Limits, Invoke(asked)
  PROVE  RunnerInv'
<1>0. asked \subseteq Tasks
  BY LimitsAssumption
<1>1. /\ finished' = <<>> /\ finished' \in Seq(Tasks) /\ ToSet(finished') = {} /\ IsInjective(finished')
  BY DEF Invoke, ToSet, IsInjective
<1>2. ASSUME NEW t \in Tasks
      PROVE  /\ collected'[t] \in {saved.rows[t], "absent"} /\ collected'[t] \in Rows
             /\ kept[t] \in Scored => collected'[t] = kept[t]
             /\ collected'[t] \in Scored => task'[t] = "idle"
             /\ task'[t] \in {"idle", "queued"}
             /\ task'[t] = "queued" <=> t \in attempted'
             /\ collected'[t] # "errored"
  <2>1. collected'[t] = IF saved.rows[t] \in Scored THEN saved.rows[t] ELSE "absent"
    BY DEF Invoke, Kept, AlreadyScored
  <2>2. task'[t] = IF t \in asked /\ collected'[t] = "absent" THEN "queued" ELSE "idle"
    BY <2>1 DEF Invoke, ToDo, Kept, AlreadyScored
  <2>3. t \in attempted' <=> t \in asked /\ collected'[t] = "absent"
    BY <2>1 DEF Invoke, ToDo, Kept, AlreadyScored
  <2>4. saved.rows = kept
    BY DEF RunnerInv, FileInv
  <2> QED BY <2>1, <2>2, <2>3, <2>4 DEF Scored, Rows
<1>3. collected' \in [Tasks -> Rows] /\ task' \in [Tasks -> Progress] /\ rows' \in [Tasks -> Rows]
  <2>1. collected' = [t \in Tasks |-> collected'[t]] /\ task' = [t \in Tasks |-> task'[t]] /\ rows' = NoRows
    BY DEF Invoke, Kept
  <2> QED BY <1>2, <2>1 DEF NoRows, Rows, Progress
<1>4. attempted' \subseteq Tasks
  BY <1>0 DEF Invoke, ToDo
<1>5. RunnerTypeOK'
  <2>1. invocations' \in 0..MaxInvocations /\ sigterms' \in 0..MaxSigterms /\ kills' \in 0..MaxKills
    <3>1. invocations \in 0..MaxInvocations /\ MaxInvocations \in Nat
      BY RunnerAssumption DEF RunnerInv, RunnerTypeOK
    <3>2. invocations < MaxInvocations /\ invocations' = invocations + 1
      BY DEF Invoke
    <3>3. sigterms' \in 0..MaxSigterms /\ kills' \in 0..MaxKills
      BY DEF RunnerInv, RunnerTypeOK, Invoke
    <3> QED BY <3>1, <3>2, <3>3
  <2>2. /\ main' \in {"down", "await", "write", "unreadable"} /\ final' \in BOOLEAN
        /\ saved' \in [whole: BOOLEAN, rows: [Tasks -> Rows]] /\ kept' \in [Tasks -> Rows]
    BY DEF RunnerInv, RunnerTypeOK, Invoke
  <2>3. ToSet(finished') \subseteq Tasks
    BY <1>1
  <2> QED BY <1>1, <1>3, <1>4, <2>1, <2>2, <2>3 DEF RunnerTypeOK
<1>6. QueueInv'
  BY <1>1, <1>2 DEF QueueInv
<1>7. FileInv'
  <2>1. ASSUME NEW t \in Tasks, kept[t] \in Scored PROVE task'[t] = "idle"
    BY <1>2, <2>1
  <2> QED BY <2>1 DEF FileInv, AtRest, RunnerInv, Invoke
<1>8. CollectedInv'
  <2>1. kept' = kept
    BY DEF Invoke
  <2> QED BY <1>2, <2>1 DEF CollectedInv, AtRest
<1> QED BY <1>1, <1>5, <1>6, <1>7, <1>8 DEF RunnerInv

\* A task that is under way gets on, and its row does not change.
LEMMA UnderwayInv ==
  ASSUME RunnerInv, NEW t \in Tasks, NEW p \in {"running", "stuck"},
         task[t] \in {"queued", "running"}, task' = [task EXCEPT ![t] = p],
         UNCHANGED <<runner, saved, collected, rows, finished, bounds, history>>
  PROVE  RunnerInv'
<1>1. task \in [Tasks -> Progress] /\ task'[t] = p /\ \A u \in Tasks : u # t => task'[u] = task[u]
  BY DEF RunnerInv, RunnerTypeOK
<1>2. RunnerTypeOK' /\ finished' \in Seq(Tasks)
  BY <1>1 DEF RunnerInv, RunnerTypeOK, Progress
<1>3. QueueInv'
  BY <1>1 DEF RunnerInv, QueueInv
<1>4. FileInv'
  BY <1>1 DEF RunnerInv, FileInv, AtRest
<1>5. CollectedInv'
  BY <1>1 DEF RunnerInv, CollectedInv, Asking, AtRest
<1> QED BY <1>2, <1>3, <1>4, <1>5 DEF RunnerInv

LEMMA ReturnInv ==
  ASSUME RunnerInv, NEW t \in Tasks, t \in Running, NEW row \in Scored \cup {"errored"},
         Return(t, row)
  PROVE  RunnerInv'
<1>1. /\ task \in [Tasks -> Progress] /\ task'[t] = "done"
      /\ \A u \in Tasks : u # t => task'[u] = task[u] /\ rows'[u] = rows[u]
      /\ rows'[t] = row /\ row # "absent"
      /\ task' \in [Tasks -> Progress] /\ rows' \in [Tasks -> Rows]
      /\ finished' = Append(finished, t)
      /\ UNCHANGED <<main, final, saved, collected, invocations, sigterms, kills, kept, attempted>>
  BY DEF RunnerInv, RunnerTypeOK, Return, Progress, Rows, Scored
<1>2. task[t] \in {"running", "stuck"} /\ t \notin ToSet(finished)
  BY DEF RunnerInv, QueueInv, Running
<1>3. finished' \in Seq(Tasks) /\ IsInjective(finished') /\ ToSet(finished') = ToSet(finished) \cup {t}
  BY <1>1, <1>2, OneMoreWaits DEF RunnerInv, RunnerTypeOK
<1>4. RunnerTypeOK'
  BY <1>1, <1>3 DEF RunnerInv, RunnerTypeOK
<1>5. QueueInv'
  BY <1>1, <1>3 DEF RunnerInv, QueueInv
<1>6. FileInv'
  BY <1>1, <1>2 DEF RunnerInv, FileInv, AtRest
<1>7. CollectedInv'
  BY <1>1, <1>2 DEF RunnerInv, CollectedInv, Asking, AtRest
<1> QED BY <1>3, <1>4, <1>5, <1>6, <1>7 DEF RunnerInv

LEMMA CollectInv ==
  ASSUME RunnerInv, Collect
  PROVE  RunnerInv'
<1> DEFINE t == Head(finished)
<1>0. /\ finished # <<>> /\ main = "await" /\ main' = "write" /\ final' = FALSE
      /\ collected' = [collected EXCEPT ![t] = rows[t]]
      /\ task' = [task EXCEPT ![t] = "taken"]
      /\ finished' = Tail(finished)
      /\ saved' = [saved EXCEPT !.whole = FALSE]
      /\ UNCHANGED <<rows, invocations, sigterms, kills, kept, attempted>>
  BY DEF Collect, BeginSave
<1>1. /\ t \in ToSet(finished) /\ finished' \in Seq(Tasks) /\ IsInjective(finished')
      /\ ToSet(finished') = ToSet(finished) \ {t}
  BY <1>0, OneIsTaken DEF RunnerInv, RunnerTypeOK
<1>2. t \in Tasks /\ task[t] = "done" /\ rows[t] # "absent"
  BY <1>1 DEF RunnerInv, QueueInv
<1> HIDE DEF t
<1>3. /\ task' \in [Tasks -> Progress] /\ collected' \in [Tasks -> Rows]
      /\ task'[t] = "taken" /\ collected'[t] = rows[t]
      /\ \A u \in Tasks : u # t => task'[u] = task[u] /\ collected'[u] = collected[u]
  BY <1>0, <1>2 DEF RunnerInv, RunnerTypeOK, Progress
<1>4. saved' \in [whole: BOOLEAN, rows: [Tasks -> Rows]] /\ saved'.rows = saved.rows
  BY <1>0 DEF RunnerInv, RunnerTypeOK
<1>5. RunnerTypeOK'
  BY <1>0, <1>1, <1>3, <1>4 DEF RunnerInv, RunnerTypeOK
<1>6. QueueInv'
  BY <1>0, <1>1, <1>2, <1>3 DEF RunnerInv, QueueInv
<1>7. FileInv'
  BY <1>0, <1>2, <1>3, <1>4 DEF RunnerInv, FileInv, AtRest
<1>8. CollectedInv'
  <2>1. kept[t] \notin Scored /\ t \in attempted
    BY <1>0, <1>2 DEF RunnerInv, FileInv, CollectedInv, Asking, AtRest
  <2> QED BY <1>0, <1>2, <1>3, <2>1 DEF RunnerInv, CollectedInv, Asking, AtRest
<1> QED BY <1>1, <1>5, <1>6, <1>7, <1>8 DEF RunnerInv

LEMMA SavingInv ==
  ASSUME RunnerInv, AllTaken \/ EndSave \/ Sigterm \/ Kill \/ CannotResume
  PROVE  RunnerInv'
<1>1. UNCHANGED <<collected, task, rows, finished, attempted>>
  BY DEF AllTaken, EndSave, Sigterm, Kill, CannotResume
<1>2. /\ saved' \in [whole: BOOLEAN, rows: [Tasks -> Rows]]
      /\ \/ saved'.rows = saved.rows /\ kept' = kept
         \/ main = "write" /\ saved'.rows = collected /\ kept' = collected
  <2>1. /\ saved \in [whole: BOOLEAN, rows: [Tasks -> Rows]] /\ collected \in [Tasks -> Rows]
    BY DEF RunnerInv, RunnerTypeOK
  <2>2. saved' = saved \/ saved' = [saved EXCEPT !.whole = FALSE]
          => saved' \in [whole: BOOLEAN, rows: [Tasks -> Rows]] /\ saved'.rows = saved.rows
    BY <2>1
  <2>3. CASE AllTaken \/ Sigterm \/ Kill \/ CannotResume
    BY <2>2, <2>3 DEF AllTaken, Sigterm, Kill, CannotResume, BeginSave
  <2>4. CASE EndSave
    BY <2>1, <2>4 DEF EndSave
  <2> QED BY <2>3, <2>4
<1>3. main' \in {"await", "write"} => main \in {"await", "write"}
  BY DEF AllTaken, EndSave, Sigterm, Kill, CannotResume, BeginSave
<1>4. RunnerTypeOK'
  <2>1. main' \in {"down", "await", "write", "unreadable"} /\ final' \in BOOLEAN
    BY DEF RunnerInv, RunnerTypeOK, AllTaken, EndSave, Sigterm, Kill, CannotResume, BeginSave
  <2>2. invocations' \in 0..MaxInvocations /\ sigterms' \in 0..MaxSigterms /\ kills' \in 0..MaxKills
    <3>1. /\ invocations \in 0..MaxInvocations /\ sigterms \in 0..MaxSigterms /\ kills \in 0..MaxKills
          /\ MaxSigterms \in Nat /\ MaxKills \in Nat
      BY RunnerAssumption DEF RunnerInv, RunnerTypeOK
    <3>2. /\ invocations' = invocations
          /\ sigterms' = sigterms \/ (sigterms < MaxSigterms /\ sigterms' = sigterms + 1)
          /\ kills' = kills \/ (kills < MaxKills /\ kills' = kills + 1)
      BY DEF AllTaken, EndSave, Sigterm, Kill, CannotResume
    <3> QED BY <3>1, <3>2
  <2>3. kept' \in [Tasks -> Rows]
    BY <1>2 DEF RunnerInv, RunnerTypeOK
  <2> QED BY <1>1, <1>2, <2>1, <2>2, <2>3 DEF RunnerInv, RunnerTypeOK
<1>5. QueueInv' /\ finished' \in Seq(Tasks)
  BY <1>1 DEF RunnerInv, QueueInv
<1>6. FileInv'
  BY <1>1, <1>2 DEF RunnerInv, FileInv, CollectedInv, Asking, AtRest
<1>7. CollectedInv'
  BY <1>1, <1>2, <1>3 DEF RunnerInv, CollectedInv, Asking, AtRest
<1> QED BY <1>4, <1>5, <1>6, <1>7 DEF RunnerInv

LEMMA RunnerStep ==
  ASSUME RunnerInv, [RunnerNext]_runnerVars
  PROVE  RunnerInv'
<1>1. ASSUME NEW asked \in Limits, Invoke(asked) PROVE RunnerInv'
  BY <1>1, InvokeInv
<1>2. CASE Collect
  BY <1>2, CollectInv
<1>3. CASE AllTaken \/ EndSave \/ Sigterm \/ Kill \/ CannotResume
  BY <1>3, SavingInv
<1>4. ASSUME NEW t \in Tasks, Acquire(t) \/ Stick(t) PROVE RunnerInv'
  <2>1. CASE Acquire(t)
    <3>1. task[t] \in {"queued", "running"} /\ task' = [task EXCEPT ![t] = "running"]
          /\ UNCHANGED <<runner, saved, collected, rows, finished, bounds, history>>
      BY <2>1 DEF Acquire
    <3> QED BY <3>1, UnderwayInv
  <2>2. CASE Stick(t)
    <3>1. task[t] \in {"queued", "running"} /\ task' = [task EXCEPT ![t] = "stuck"]
          /\ UNCHANGED <<runner, saved, collected, rows, finished, bounds, history>>
      BY <2>2 DEF Stick
    <3> QED BY <3>1, UnderwayInv
  <2> QED BY <1>4, <2>1, <2>2
<1>5. ASSUME NEW t \in Tasks, Finish(t) \/ DeadlinePasses(t) PROVE RunnerInv'
  <2>1. t \in Running /\ \E row \in Scored \cup {"errored"} : Return(t, row)
    BY <1>5 DEF Finish, DeadlinePasses, Running
  <2> QED BY <2>1, ReturnInv
<1>6. CASE UNCHANGED runnerVars
  BY <1>6 DEF RunnerInv, RunnerTypeOK, QueueInv, FileInv, CollectedInv, Asking, AtRest
<1> QED BY <1>1, <1>2, <1>3, <1>4, <1>5, <1>6 DEF RunnerNext, Main, Step

\* What a step of the runner does to a judged task, and what its last save holds
LEMMA RunnerJudges ==
  ASSUME RunnerInv, [RunnerNext]_runnerVars
  PROVE  ScoredForGood /\ EveryTaskAccounted
<1>1. ASSUME NEW t \in Tasks, kept[t] \in Scored
      PROVE  kept'[t] = kept[t] /\ task'[t] \notin {"running", "done"}
  <2>1. AtRest(t) /\ task \in [Tasks -> Progress]
    BY <1>1 DEF RunnerInv, RunnerTypeOK, FileInv
  <2>2. kept'[t] = kept[t]
    <3>1. CASE EndSave
      BY <1>1, <3>1 DEF EndSave, RunnerInv, CollectedInv, Asking
    <3>2. CASE ~EndSave
      <4>1. kept' = kept
        BY <3>2 DEF RunnerNext, Main, Step, Invoke, CannotResume, Collect, AllTaken, Sigterm, Kill,
                    Acquire, Stick, Finish, DeadlinePasses, Return
      <4> QED BY <4>1
    <3> QED BY <3>1, <3>2
  <2>3. task'[t] \in {"idle", "taken"}
    <3>1. FileInv'
      BY RunnerStep DEF RunnerInv
    <3> QED BY <1>1, <2>2, <3>1 DEF FileInv, AtRest
  <2> QED BY <2>2, <2>3
<1>2. EveryTaskAccounted
  <2> SUFFICES ASSUME main = "write", \A t \in Tasks : task[t] \in {"idle", "taken"}
               PROVE  /\ \A t \in attempted : collected[t] # "absent"
                      /\ \A t \in Tasks \ attempted : collected[t] # "errored"
    BY DEF EveryTaskAccounted
  <2>1. attempted \subseteq Tasks
    BY DEF RunnerInv, RunnerTypeOK
  <2> QED BY <2>1 DEF RunnerInv, CollectedInv, Asking
<1> QED BY <1>1, <1>2 DEF ScoredForGood

---------------------------------------------------------------------------
(* The watched conversation, whatever the runner does *)

TalkInv ==
  Conversation!TypeOK /\ TurnInv /\ RecordInv /\ ReplayInv /\ BlameInv

USE DEF Conversation!place, Conversation!conversation, Conversation!recorder, Conversation!verdict,
        Conversation!history, Conversation!vars

LEMMA FlatCalls ==
  ASSUME NEW cs \in Seq(Seq(Seq(Methods)))
  PROVE  /\ Conversation!Flat(cs) = FlattenSeq(FlattenSeq(cs))
         /\ Conversation!Flat(cs) \in Seq(Methods)
<1>1. Conversation!Flat(cs) = FlattenSeq(FlattenSeq(cs))
  BY SameFlatten DEF Conversation!Flat
<1>2. FlattenSeq(cs) \in Seq(Seq(Methods))
  BY FlatTyped
<1> QED BY <1>1, <1>2, FlatTyped

\* The record of one more turn.
LEMMA FlatOneMore ==
  ASSUME NEW cs \in Seq(Seq(Seq(Methods))), NEW c \in Seq(Seq(Methods))
  PROVE  Conversation!Flat(Append(cs, c)) = Conversation!Flat(cs) \o FlattenSeq(c)
<1>1. FlattenSeq(Append(cs, c)) = FlattenSeq(cs) \o c
  BY FlatAppend
<1>2. FlattenSeq(cs) \in Seq(Seq(Methods)) /\ Append(cs, c) \in Seq(Seq(Seq(Methods)))
  BY FlatTyped
<1>3. FlattenSeq(FlattenSeq(cs) \o c) = FlattenSeq(FlattenSeq(cs)) \o FlattenSeq(c)
  BY <1>2, FlatConcat
<1> QED BY <1>1, <1>2, <1>3, FlatCalls

LEMMA ReplayTyped ==
  ASSUME NEW r \in Seq(Methods)
  PROVE  Conversation!Replay(r) \in Seq(Methods)
<1> DEFINE e == [i \in DOMAIN r |-> Conversation!Effect(r[i])]
<1>1. \A i \in DOMAIN r : Conversation!Effect(r[i]) \in Seq(Methods)
  BY DEF Conversation!Effect
<1>2. DOMAIN r = 1..Len(r) /\ Len(r) \in Nat
  OBVIOUS
<1>3. e \in Seq(Seq(Methods))
  BY <1>1, <1>2
<1>4. Conversation!Replay(r) = FlattenSeq(e)
  BY SameFlatten DEF Conversation!Replay
<1> HIDE DEF e
<1> QED BY <1>3, <1>4, FlatTyped

\* What a recorder holds after one more call
LEMMA OneMoreCall ==
  ASSUME NEW r \in Seq(Methods), NEW s \in Seq(Methods), NEW m \in Methods
  PROVE  Append(r \o s, m) = r \o Append(s, m)
OBVIOUS

\* An open step is one more step of the turn.
LEMMA TakenFlat ==
  ASSUME recorded \in Seq(Seq(Methods)), step \in Seq(Methods)
  PROVE  /\ Conversation!TurnCalls \in Seq(Seq(Methods)) \ {<<>>}
         /\ FlattenSeq(Conversation!TurnCalls) = FlattenSeq(recorded) \o step
<1> DEFINE taken == Conversation!TakenSteps
<1>1. taken \in Seq(Seq(Methods))
  BY DEF Conversation!TakenSteps
<1>2. FlattenSeq(taken) = FlattenSeq(recorded) \o step
  <2>1. CASE step # <<>>
    BY <2>1, FlatAppend DEF Conversation!TakenSteps
  <2>2. CASE step = <<>>
    <3>1. FlattenSeq(recorded) \in Seq(Methods)
      BY FlatTyped
    <3> QED BY <2>2, <3>1, ConcatEmptySeq DEF Conversation!TakenSteps
  <2> QED BY <2>1, <2>2
<1>3. Conversation!TurnCalls = IF taken = <<>> THEN <<<<>>>> ELSE taken
  BY DEF Conversation!TurnCalls
<1> HIDE DEF taken
<1>4. CASE taken # <<>>
  BY <1>1, <1>2, <1>3, <1>4
<1>5. CASE taken = <<>>
  <2>1. <<>> \in Seq(Seq(Methods)) /\ <<>> \in Seq(Methods)
    OBVIOUS
  <2>2. Append(<<>>, <<>>) = <<<<>>>> /\ <<>> \o <<>> = <<>>
    OBVIOUS
  <2>3. FlattenSeq(<<<<>>>>) = <<>>
    BY <2>1, <2>2, FlatAppend, FlatEmpty
  <2>4. <<<<>>>> \in Seq(Seq(Methods)) /\ <<<<>>>> # <<>>
    OBVIOUS
  <2> QED BY <1>2, <1>3, <1>5, <2>3, <2>4, FlatEmpty
<1> QED BY <1>4, <1>5

\* A conversation as it begins
LEMMA TalkInitInv == Conversation!Init => TalkInv
<1> SUFFICES ASSUME Conversation!Init PROVE TalkInv
  OBVIOUS
<1>1. /\ arm \in {"cave", "fc"} /\ turn = 1 /\ at = "turn" /\ requests = 0
      /\ code = FALSE /\ repaired = FALSE /\ missed = FALSE /\ valid = FALSE
      /\ failed = FALSE /\ codeBefore = FALSE
      /\ toAnswer = <<>> /\ step = <<>> /\ recorded = <<>> /\ calls = <<>>
      /\ reached = <<>> /\ judged = <<>> /\ made = <<>>
      /\ left = [g \in Conversation!Tags |-> <<>>]
  BY DEF Conversation!Init
<1>2. Conversation!TypeOK
  <2>1. left \in [Conversation!Tags -> Seq(Methods)] /\ Len(calls) <= Turns /\ turn \in 1..Turns
    BY <1>1, TaskAssumption
  <2>2. requests \in 0..MaxSteps
    BY <1>1, TaskAssumption
  <2>3. /\ toAnswer \in Seq(Conversation!ToolCalls)
        /\ step \in Seq(Methods) /\ recorded \in Seq(Seq(Methods))
        /\ calls \in Seq(Seq(Seq(Methods)) \ {<<>>})
        /\ reached \in Seq(Methods \cup {Direct}) /\ judged \in Seq(Methods)
        /\ made \in Seq(Methods)
    BY <1>1
  <2> QED BY <1>1, <2>1, <2>2, <2>3 DEF Conversation!TypeOK, Conversation!PCs
<1>3. RecordInv
  <2>1. Conversation!Flat(<<>>) = <<>>
    BY FlatEmpty, SameFlatten DEF Conversation!Flat
  <2>2. (<<>> \o <<>>) \o <<>> = <<>>
    OBVIOUS
  <2> QED BY <1>1, <2>1, <2>2, FlatEmpty DEF RecordInv
<1>4. TurnInv /\ ReplayInv /\ BlameInv
  <2>1. Len(<<>>) + 1 = 1
    OBVIOUS
  <2>2. "fidelity" \in Conversation!Tags /\ "eval" \in Conversation!Tags
    BY DEF Conversation!Tags
  <2> QED BY <1>1, <2>1, <2>2 DEF TurnInv, ReplayInv, BlameInv, Conversation!AskedAgainOnlyIfMissed,
                       Conversation!ErroredOnlyByTheProvider
<1> QED BY <1>2, <1>3, <1>4 DEF TalkInv

LEMMA AfreshInv ==
  ASSUME TalkInv, Afresh PROVE TalkInv'
<1>1. Conversation!Init'
  BY DEF TalkInv, Conversation!TypeOK, Afresh, Conversation!Init
<1>2. (Conversation!Init => TalkInv)'
  BY TalkInitInv, PTL
<1> QED BY <1>1, <1>2

\* The turn goes on, and no call is made: what was recorded and reached stays.
LEMMA GoesOnInv ==
  ASSUME TalkInv,
         UNCHANGED <<arm, turn, step, recorded, calls, reached, left, missed, judged, valid, made>>,
         at \in {"turn", "cave", "ask"}, at' \in {"cave", "ask", "dispatch", "take", "errored"},
         at' = "errored" => failed', repaired' => ~codeBefore',
         requests' \in 0..MaxSteps, toAnswer' \in Seq(Conversation!ToolCalls),
         code' \in BOOLEAN, repaired' \in BOOLEAN, failed' \in BOOLEAN, codeBefore' \in BOOLEAN
  PROVE  TalkInv'
<1>1. Conversation!TypeOK'
  BY DEF TalkInv, Conversation!TypeOK, Conversation!PCs
<1>2. TurnInv' /\ RecordInv'
  BY DEF TalkInv, TurnInv, RecordInv
<1>3. ReplayInv' /\ BlameInv'
  BY DEF TalkInv, ReplayInv, BlameInv, Conversation!AskedAgainOnlyIfMissed,
         Conversation!ErroredOnlyByTheProvider
<1> QED BY <1>1, <1>2, <1>3 DEF TalkInv

LEMMA EffectTyped ==
  ASSUME NEW m \in Methods PROVE Conversation!Effect(m) \in Seq(Methods \cup {Direct})
<1>1. <<>> \in Seq(Methods \cup {Direct}) /\ <<m>> \in Seq(Methods \cup {Direct})
  OBVIOUS
<1> QED BY <1>1 DEF Conversation!Effect

\* A method is called: the record is one longer, and so is the history.
LEMMA CalledInv ==
  ASSUME TalkInv, NEW m \in Methods, Conversation!Called(m),
         at \in {"cave", "dispatch"}, at' = at, toAnswer' \in Seq(Conversation!ToolCalls),
         code' \in BOOLEAN,
         UNCHANGED <<arm, turn, requests, repaired, recorded, calls, left, missed, judged, valid,
                     failed, codeBefore>>
  PROVE  TalkInv'
<1>1. /\ step \in Seq(Methods) /\ made \in Seq(Methods) /\ reached \in Seq(Methods \cup {Direct})
      /\ recorded \in Seq(Seq(Methods)) /\ calls \in Seq(Seq(Seq(Methods)) \ {<<>>})
  BY DEF TalkInv, Conversation!TypeOK
<1>2. /\ step' = Append(step, m) /\ made' = Append(made, m)
      /\ reached' = reached \o Conversation!Effect(m)
  BY DEF Conversation!Called, Conversation!TakenDown
<1>3. step' \in Seq(Methods) /\ made' \in Seq(Methods) /\ reached' \in Seq(Methods \cup {Direct})
  <2>1. Conversation!Effect(m) \in Seq(Methods \cup {Direct})
    BY EffectTyped
  <2> QED BY <1>1, <1>2, <2>1, ConcatProperties
<1>4. Conversation!TypeOK'
  BY <1>3 DEF TalkInv, Conversation!TypeOK, Conversation!PCs
<1>5. TurnInv' /\ ReplayInv' /\ BlameInv'
  BY DEF TalkInv, TurnInv, ReplayInv, BlameInv, Conversation!AskedAgainOnlyIfMissed,
         Conversation!ErroredOnlyByTheProvider
<1>6. RecordInv'
  <2> DEFINE r == Conversation!Flat(calls) \o FlattenSeq(recorded)
  <2>1. calls \in Seq(Seq(Seq(Methods)))
    BY <1>1, SeqMonotonic
  <2>2. r \in Seq(Methods)
    BY <1>1, <2>1, FlatCalls, FlatTyped, ConcatProperties
  <2>3. made = r \o step
    BY DEF TalkInv, RecordInv
  <2>4. made' = r \o step'
    <3> HIDE DEF r
    <3>1. Append(r \o step, m) = r \o Append(step, m)
      BY <1>1, <2>2, OneMoreCall
    <3> QED BY <1>2, <2>3, <3>1
  <2> QED BY <2>4 DEF RecordInv
<1> QED BY <1>4, <1>5, <1>6 DEF TalkInv

\* The next call of an answer; one that is not run only leaves the answer shorter.
LEMMA DispatchInv ==
  ASSUME TalkInv, Conversation!Dispatch PROVE TalkInv'
<1> DEFINE c == Head(toAnswer)
<1>1. toAnswer \in Seq(Conversation!ToolCalls) /\ toAnswer # <<>> /\ toAnswer' = Tail(toAnswer)
  BY DEF TalkInv, Conversation!TypeOK, Conversation!Dispatch
<1>2. c \in Conversation!ToolCalls /\ toAnswer' \in Seq(Conversation!ToolCalls)
  BY <1>1, HeadTailProperties
<1>3. at = "dispatch" /\ at' = at
  BY <1>2 DEF Conversation!Dispatch, Conversation!Answered
<1>4. UNCHANGED <<arm, turn, requests, code, repaired, recorded, calls, left, missed, judged, valid,
                  failed, codeBefore>>
  BY DEF Conversation!Dispatch
<1>5. CASE c \in Methods
  <2>1. Conversation!Called(c)
    BY <1>5 DEF Conversation!Dispatch
  <2>2. code' \in BOOLEAN
    BY <1>4 DEF TalkInv, Conversation!TypeOK
  <2> HIDE DEF c
  <2> QED BY <1>2, <1>3, <1>4, <1>5, <2>1, <2>2, CalledInv
<1>6. CASE c \notin Methods
  <2>1. UNCHANGED <<step, reached, made>>
    BY <1>6 DEF Conversation!Dispatch
  <2>2. Conversation!TypeOK'
    BY <1>2, <1>3, <1>4, <2>1 DEF TalkInv, Conversation!TypeOK
  <2>3. TurnInv' /\ RecordInv' /\ ReplayInv' /\ BlameInv'
    BY <1>3, <1>4, <2>1 DEF TalkInv, TurnInv, RecordInv, ReplayInv, BlameInv,
                            Conversation!AskedAgainOnlyIfMissed, Conversation!ErroredOnlyByTheProvider
  <2> QED BY <2>2, <2>3 DEF TalkInv
<1> QED BY <1>5, <1>6

\* A change that no recorded method makes
LEMMA CellChangesInv ==
  ASSUME TalkInv, Conversation!CellChanges PROVE TalkInv'
<1>1. /\ at = "cave" /\ code' = TRUE /\ reached' = Append(reached, Direct)
      /\ UNCHANGED <<at, arm, turn, requests, repaired, toAnswer, step, recorded, calls, left, missed,
                     judged, valid, made, failed, codeBefore>>
  BY DEF Conversation!CellChanges
<1>2. reached' \in Seq(Methods \cup {Direct})
  BY <1>1 DEF TalkInv, Conversation!TypeOK
<1>3. Conversation!TypeOK'
  BY <1>1, <1>2 DEF TalkInv, Conversation!TypeOK
<1>4. TurnInv' /\ RecordInv' /\ ReplayInv' /\ BlameInv'
  BY <1>1 DEF TalkInv, TurnInv, RecordInv, ReplayInv, BlameInv,
              Conversation!AskedAgainOnlyIfMissed, Conversation!ErroredOnlyByTheProvider
<1> QED BY <1>3, <1>4 DEF TalkInv

\* A run of the agent ends; a turn asked again has executed nothing.
LEMMA RunEndsInv ==
  ASSUME TalkInv, NEW stop \in Conversation!Stops, NEW mark \in BOOLEAN,
         Conversation!RunEnds(stop, mark)
  PROVE  TalkInv'
<1>1. /\ code \in BOOLEAN /\ repaired \in BOOLEAN /\ failed \in BOOLEAN /\ codeBefore \in BOOLEAN
      /\ requests \in 0..MaxSteps /\ toAnswer \in Seq(Conversation!ToolCalls)
      /\ repaired => ~codeBefore
  BY DEF TalkInv, BlameInv, Conversation!TypeOK, Conversation!AskedAgainOnlyIfMissed
<1>2. /\ UNCHANGED <<arm, turn, requests, toAnswer, step, recorded, calls, reached, left, missed,
                     judged, valid, made>>
      /\ at = "cave" /\ at' \in {"cave", "take"}
  BY DEF Conversation!RunEnds
<1>3. failed' \in BOOLEAN
  BY DEF Conversation!RunEnds
<1>4. CASE Conversation!UnexecutedCall(mark) /\ ~repaired
  <2>1. repaired' = TRUE /\ code' = FALSE /\ codeBefore' = code /\ ~code
    BY <1>4 DEF Conversation!RunEnds, Conversation!UnexecutedCall
  <2> QED BY <1>1, <1>2, <1>3, <2>1, GoesOnInv
<1>5. CASE ~(Conversation!UnexecutedCall(mark) /\ ~repaired)
  <2>1. UNCHANGED <<repaired, code, codeBefore>>
    BY <1>5 DEF Conversation!RunEnds
  <2> QED BY <1>1, <1>2, <1>3, <2>1, GoesOnInv
<1> QED BY <1>4, <1>5

LEMMA AsksInv ==
  ASSUME TalkInv, \/ Conversation!BeginTurn \/ Conversation!AskFails \/ Conversation!OutOfSteps
                  \/ \E n \in 0..MaxCalls : \E answer \in [1..n -> Conversation!ToolCalls] :
                       Conversation!Ask(answer)
  PROVE  TalkInv'
<1>1. /\ code \in BOOLEAN /\ repaired \in BOOLEAN /\ failed \in BOOLEAN /\ codeBefore \in BOOLEAN
      /\ requests \in 0..MaxSteps /\ toAnswer \in Seq(Conversation!ToolCalls)
      /\ repaired => ~codeBefore
  BY DEF TalkInv, BlameInv, Conversation!TypeOK, Conversation!AskedAgainOnlyIfMissed
<1>2. MaxSteps \in Nat \ {0} /\ MaxCalls \in Nat
  BY TaskAssumption
<1>3. CASE Conversation!BeginTurn
  <2>1. /\ at = "turn" /\ at' \in {"cave", "ask"} /\ requests' = 0
        /\ code' = FALSE /\ repaired' = FALSE /\ codeBefore' = FALSE
        /\ UNCHANGED <<arm, turn, toAnswer, step, recorded, calls, reached, left, missed, judged,
                       valid, made, failed>>
    BY <1>3 DEF Conversation!BeginTurn
  <2>2. requests' \in 0..MaxSteps
    BY <1>2, <2>1
  <2> QED BY <1>1, <2>1, <2>2, GoesOnInv
<1>4. CASE Conversation!AskFails
  <2>1. /\ at = "ask" /\ at' = "errored" /\ failed' = TRUE
        /\ UNCHANGED <<arm, turn, requests, code, repaired, toAnswer, step, recorded, calls, reached,
                       left, missed, judged, valid, made, codeBefore>>
    BY <1>4 DEF Conversation!AskFails
  <2> QED BY <1>1, <2>1, GoesOnInv
<1>5. CASE Conversation!OutOfSteps
  <2>1. /\ at = "ask" /\ at' = "take"
        /\ UNCHANGED <<arm, turn, requests, code, repaired, toAnswer, step, recorded, calls, reached,
                       left, missed, judged, valid, made, failed, codeBefore>>
    BY <1>5 DEF Conversation!OutOfSteps
  <2> QED BY <1>1, <2>1, GoesOnInv
<1>6. ASSUME NEW n \in 0..MaxCalls, NEW answer \in [1..n -> Conversation!ToolCalls],
             Conversation!Ask(answer)
      PROVE  TalkInv'
  <2>1. /\ at = "ask" /\ at' \in {"take", "dispatch"} /\ toAnswer' = answer
        /\ requests < MaxSteps /\ requests' = requests + 1
        /\ UNCHANGED <<arm, turn, code, repaired, step, recorded, calls, reached,
                       left, missed, judged, valid, made, failed, codeBefore>>
    BY <1>6 DEF Conversation!Ask
  <2>2. requests' \in 0..MaxSteps
    BY <1>1, <1>2, <2>1
  <2>3. toAnswer' \in Seq(Conversation!ToolCalls)
    <3>1. n \in Nat
      BY <1>2
    <3>2. answer \in Seq(Conversation!ToolCalls)
      BY <3>1
    <3> QED BY <2>1, <3>2
  <2> QED BY <1>1, <2>1, <2>2, <2>3, GoesOnInv
<1> QED BY <1>3, <1>4, <1>5, <1>6

LEMMA EndStepInv ==
  ASSUME TalkInv, Conversation!EndStep PROVE TalkInv'
<1>1. /\ at = "dispatch" /\ at' = "ask" /\ recorded' = Append(recorded, step) /\ step' = <<>>
      /\ UNCHANGED <<arm, turn, requests, code, repaired, toAnswer, calls, reached,
                     left, missed, judged, valid, made, failed, codeBefore>>
  BY DEF Conversation!EndStep
<1>2. /\ step \in Seq(Methods) /\ recorded \in Seq(Seq(Methods))
      /\ calls \in Seq(Seq(Seq(Methods)))
  BY SeqMonotonic DEF TalkInv, Conversation!TypeOK
<1>3. Conversation!TypeOK'
  <2>1. step' \in Seq(Methods) /\ recorded' \in Seq(Seq(Methods))
    BY <1>1, <1>2
  <2> QED BY <1>1, <2>1 DEF TalkInv, Conversation!TypeOK, Conversation!PCs
<1>4. TurnInv' /\ ReplayInv' /\ BlameInv'
  BY <1>1 DEF TalkInv, TurnInv, ReplayInv, BlameInv, Conversation!AskedAgainOnlyIfMissed,
              Conversation!ErroredOnlyByTheProvider
<1>5. RecordInv'
  <2> DEFINE before == Conversation!Flat(calls)
             open == FlattenSeq(recorded)
  <2>1. before \in Seq(Methods) /\ open \in Seq(Methods)
    BY <1>2, FlatCalls, FlatTyped
  <2>2. FlattenSeq(recorded') = open \o step
    BY <1>1, <1>2, FlatAppend
  <2>3. made = (before \o open) \o step
    BY DEF TalkInv, RecordInv
  <2>4. made' = (before \o (open \o step)) \o <<>>
    <3> HIDE DEF before, open
    <3>1. (before \o open) \o step = before \o (open \o step)
      <4>1. step \in Seq(Methods)
        BY <1>2
      <4> QED BY <2>1, <4>1
    <3>2. before \o (open \o step) \in Seq(Methods)
      BY <1>2, <2>1, ConcatProperties
    <3> QED BY <1>1, <2>3, <3>1, <3>2, ConcatEmptySeq
  <2> QED BY <1>1, <2>2, <2>4 DEF RecordInv
<1> QED BY <1>3, <1>4, <1>5 DEF TalkInv

\* A turn is taken into the record whole.
LEMMA TakeTurnInv ==
  ASSUME TalkInv, Conversation!TakeTurn PROVE TalkInv'
<1> DEFINE c == Conversation!TurnCalls
<1>1. /\ at = "take" /\ calls' = Append(calls, c) /\ step' = <<>> /\ recorded' = <<>>
      /\ \/ turn < Turns /\ turn' = turn + 1 /\ at' = "turn"
         \/ ~(turn < Turns) /\ turn' = turn /\ at' = "fidelity"
      /\ UNCHANGED <<arm, requests, code, repaired, toAnswer, reached,
                     left, missed, judged, valid, made, failed, codeBefore>>
  BY DEF Conversation!TakeTurn
<1>2. /\ step \in Seq(Methods) /\ recorded \in Seq(Seq(Methods))
      /\ calls \in Seq(Seq(Seq(Methods)) \ {<<>>}) /\ calls \in Seq(Seq(Seq(Methods)))
  BY SeqMonotonic DEF TalkInv, Conversation!TypeOK
<1>3. c \in Seq(Seq(Methods)) \ {<<>>} /\ FlattenSeq(c) = FlattenSeq(recorded) \o step
  BY <1>2, TakenFlat
<1> HIDE DEF c
<1>4. /\ calls' \in Seq(Seq(Seq(Methods)) \ {<<>>}) /\ Len(calls') = Len(calls) + 1
      /\ Len(calls) \in Nat
  BY <1>1, <1>2, <1>3
<1>5. Len(calls) + 1 = turn /\ turn \in 1..Turns /\ Turns \in Nat
  BY <1>1, TaskAssumption DEF TalkInv, TurnInv, Conversation!TypeOK
<1>6. Len(calls') <= Turns /\ turn' \in 1..Turns
  BY <1>1, <1>4, <1>5
<1>7. Conversation!TypeOK'
  <2>1. step' \in Seq(Methods) /\ recorded' \in Seq(Seq(Methods))
    BY <1>1
  <2> QED BY <1>1, <1>4, <1>6, <2>1 DEF TalkInv, Conversation!TypeOK, Conversation!PCs
<1>8. TurnInv'
  <2>1. at' = "turn" => Len(calls') + 1 = turn'
    BY <1>1, <1>4, <1>5
  <2>2. at' = "fidelity" => Len(calls') = Turns
    BY <1>1, <1>4, <1>5
  <2> QED BY <1>1, <2>1, <2>2 DEF TurnInv
<1>9. ReplayInv' /\ BlameInv'
  BY <1>1 DEF TalkInv, ReplayInv, BlameInv, Conversation!AskedAgainOnlyIfMissed,
              Conversation!ErroredOnlyByTheProvider
<1>10. RecordInv'
  <2> DEFINE before == Conversation!Flat(calls)
             open == FlattenSeq(recorded)
  <2>1. before \in Seq(Methods) /\ open \in Seq(Methods)
    BY <1>2, FlatCalls, FlatTyped
  <2>2. Conversation!Flat(calls') = before \o (open \o step)
    BY <1>1, <1>2, <1>3, FlatOneMore
  <2>3. made = (before \o open) \o step
    BY DEF TalkInv, RecordInv
  <2>4. made' = ((before \o (open \o step)) \o <<>>) \o <<>>
    <3> HIDE DEF before, open
    <3>1. (before \o open) \o step = before \o (open \o step)
      <4>1. step \in Seq(Methods)
        BY <1>2
      <4> QED BY <2>1, <4>1
    <3>2. before \o (open \o step) \in Seq(Methods)
      BY <1>2, <2>1, ConcatProperties
    <3> QED BY <1>1, <2>3, <3>1, <3>2, ConcatEmptySeq
  <2> QED BY <1>1, <2>2, <2>4, FlatEmpty DEF RecordInv
<1> QED BY <1>7, <1>8, <1>9, <1>10 DEF TalkInv

LEMMA JudgeInv ==
  ASSUME TalkInv,
         Conversation!CheckFidelity \/ \E v \in BOOLEAN : Conversation!Score(v)
  PROVE  TalkInv'
<1> DEFINE replayed == Conversation!Replay(Conversation!Flat(calls))
<1>1. calls \in Seq(Seq(Seq(Methods))) /\ left \in [Conversation!Tags -> Seq(Methods)]
  BY SeqMonotonic DEF TalkInv, Conversation!TypeOK
<1>2. replayed \in Seq(Methods)
  BY <1>1, FlatCalls, ReplayTyped
<1>3. "fidelity" \in Conversation!Tags /\ "eval" \in Conversation!Tags
  BY DEF Conversation!Tags
<1>4. /\ at # "score" => left["fidelity"] = <<>> \/ at = "scored"
      /\ at # "scored" => left["eval"] = <<>>
  BY DEF TalkInv, ReplayInv
<1>5. <<>> \o replayed = replayed
  <2> HIDE DEF replayed
  <2> QED BY <1>2, ConcatEmptySeq
<1>6. CASE Conversation!CheckFidelity
  <2>1. /\ at = "fidelity" /\ at' = "score"
        /\ missed' = (reached # left["fidelity"] \o replayed)
        /\ left' = [left EXCEPT !["fidelity"] = left["fidelity"] \o replayed]
        /\ UNCHANGED <<arm, turn, requests, code, repaired, toAnswer, step, recorded, calls, reached,
                       judged, valid, made, failed, codeBefore>>
    BY <1>6 DEF Conversation!CheckFidelity, Conversation!ReplayUnder, Conversation!FidelityTag
  <2>2. /\ missed' \in BOOLEAN /\ missed' = (reached # replayed)
        /\ left' = [left EXCEPT !["fidelity"] = replayed]
    BY <1>4, <1>5, <2>1
  <2>3. left' \in [Conversation!Tags -> Seq(Methods)] /\ left'["eval"] = left["eval"]
    <3> HIDE DEF replayed
    <3> QED BY <1>1, <1>2, <1>3, <2>2
  <2>4. Conversation!TypeOK'
    BY <2>1, <2>2, <2>3 DEF TalkInv, Conversation!TypeOK, Conversation!PCs
  <2>5. TurnInv' /\ RecordInv' /\ BlameInv'
    BY <2>1 DEF TalkInv, TurnInv, RecordInv, BlameInv, Conversation!AskedAgainOnlyIfMissed,
                Conversation!ErroredOnlyByTheProvider
  <2>6. ReplayInv'
    <3>1. left'["eval"] = <<>>
      BY <1>4, <2>1, <2>3
    <3> QED BY <2>1, <2>2, <3>1 DEF ReplayInv
  <2> QED BY <2>4, <2>5, <2>6 DEF TalkInv
<1>7. ASSUME NEW v \in BOOLEAN, Conversation!Score(v) PROVE TalkInv'
  <2>1. /\ at = "score" /\ at' = "scored" /\ valid' = v
        /\ judged' = left["eval"] \o replayed
        /\ left' = [left EXCEPT !["eval"] = judged']
        /\ UNCHANGED <<arm, turn, requests, code, repaired, toAnswer, step, recorded, calls, reached,
                       missed, made, failed, codeBefore>>
    BY <1>7 DEF Conversation!Score, Conversation!ReplayUnder
  <2>2. judged' = replayed
    BY <1>4, <1>5, <2>1
  <2>3. left' \in [Conversation!Tags -> Seq(Methods)] /\ judged' \in Seq(Methods)
    <3> HIDE DEF replayed
    <3> QED BY <1>1, <1>2, <1>3, <2>1, <2>2
  <2>4. Conversation!TypeOK'
    BY <2>1, <2>3 DEF TalkInv, Conversation!TypeOK, Conversation!PCs
  <2>5. TurnInv' /\ RecordInv' /\ BlameInv'
    BY <2>1 DEF TalkInv, TurnInv, RecordInv, BlameInv, Conversation!AskedAgainOnlyIfMissed,
                Conversation!ErroredOnlyByTheProvider
  <2>6. ReplayInv'
    BY <2>1, <2>2 DEF TalkInv, ReplayInv
  <2> QED BY <2>4, <2>5, <2>6 DEF TalkInv
<1> QED BY <1>6, <1>7

LEMMA TalkStep ==
  ASSUME TalkInv, Conversation!Next \/ Afresh \/ UNCHANGED talk
  PROVE  TalkInv'
<1>1. CASE Afresh
  BY <1>1, AfreshInv
<1>2. CASE UNCHANGED talk
  <2>1. Conversation!TypeOK'
    BY <1>2 DEF talk, TalkInv, Conversation!TypeOK
  <2>2. TurnInv' /\ RecordInv' /\ ReplayInv' /\ BlameInv'
    BY <1>2 DEF talk, TalkInv, TurnInv, RecordInv, ReplayInv, BlameInv,
                Conversation!AskedAgainOnlyIfMissed, Conversation!ErroredOnlyByTheProvider
  <2> QED BY <2>1, <2>2 DEF TalkInv
<1>3. ASSUME NEW m \in Methods, Conversation!CellCalls(m) PROVE TalkInv'
  <2>1. /\ Conversation!Called(m) /\ at \in {"cave", "dispatch"} /\ at' = at /\ code' \in BOOLEAN
        /\ UNCHANGED <<arm, turn, requests, repaired, toAnswer, recorded, calls, left, missed, judged,
                       valid, failed, codeBefore>>
    BY <1>3 DEF Conversation!CellCalls
  <2>2. toAnswer' \in Seq(Conversation!ToolCalls)
    BY <2>1 DEF TalkInv, Conversation!TypeOK
  <2> QED BY <2>1, <2>2, CalledInv
<1>4. CASE Conversation!Next
  <2>1. CASE \/ Conversation!BeginTurn \/ Conversation!AskFails \/ Conversation!OutOfSteps
             \/ \E n \in 0..MaxCalls : \E answer \in [1..n -> Conversation!ToolCalls] :
                  Conversation!Ask(answer)
    BY <2>1, AsksInv
  <2>2. CASE Conversation!CheckFidelity \/ \E v \in BOOLEAN : Conversation!Score(v)
    BY <2>2, JudgeInv
  <2> QED BY <1>3, <1>4, <2>1, <2>2, DispatchInv, CellChangesInv, RunEndsInv, EndStepInv, TakeTurnInv
          DEF Conversation!Next
<1> QED BY <1>1, <1>2, <1>4

---------------------------------------------------------------------------
(* Both together *)

BenchInv == RunnerInv /\ TalkInv /\ LinkInv

LEMMA BenchInitInv == BenchInit => BenchInv
<1> SUFFICES ASSUME BenchInit PROVE BenchInv
  OBVIOUS
<1>1. RunnerInv /\ TalkInv
  BY RunnerInitInv, TalkInitInv DEF BenchInit
<1>2. LinkInv
  BY WatchedAssumption DEF BenchInit, RunnerInit, LinkInv, Asking, NoRows
<1> QED BY <1>1, <1>2 DEF BenchInv

\* What the conversation came to is a row.
LEMMA EndedReturns ==
  ASSUME Ended
  PROVE  RowOf \in Scored \cup {"errored"} /\ (RowOf = "right" => Solved)
<1>1. at \in {"scored", "errored"}
  BY DEF Ended
<1>2. CASE at = "errored"
  BY <1>2 DEF RowOf
<1>3. CASE at = "scored"
  BY <1>3 DEF RowOf, Scored, Solved
<1> QED BY <1>1, <1>2, <1>3

\* A step of both is a step of the runner.
LEMMA BenchRuns ==
  ASSUME [BenchNext]_allVars
  PROVE  [RunnerNext]_runnerVars
<1>1. CASE (Main \/ \E t \in Tasks \ {Watched} : Step(t)) /\ UNCHANGED talk
  BY <1>1 DEF RunnerNext
<1>2. CASE (DeadlinePasses(Watched) \/ Stick(Watched)) /\ UNCHANGED talk
  BY <1>2, WatchedAssumption DEF RunnerNext, Step
<1>3. CASE Begins
  BY <1>3, WatchedAssumption DEF RunnerNext, Step, Begins
<1>4. CASE Converses
  BY <1>4 DEF Converses
<1>5. CASE Ended
  <2>1. Finish(Watched)
    BY <1>5, EndedReturns DEF Finish, Ended
  <2> QED BY <2>1, WatchedAssumption DEF RunnerNext, Step
<1>6. CASE UNCHANGED allVars
  BY <1>6 DEF allVars
<1> QED BY <1>1, <1>2, <1>3, <1>4, <1>5, <1>6 DEF BenchNext

\* While the conversation is under way its task has no row; when it is not, nothing of
\* it changes.
LEMMA BenchTalks ==
  ASSUME [BenchNext]_allVars
  PROVE  \/ UNCHANGED talk
         \/ task[Watched] \in {"queued", "running"} /\ (Conversation!Next \/ Afresh)
            /\ UNCHANGED <<main, final, saved, collected, rows, kept>>
<1>1. CASE Begins
  BY <1>1 DEF Begins, Acquire
<1>2. CASE Converses
  BY <1>2 DEF Converses
<1>3. CASE UNCHANGED allVars
  BY <1>3 DEF allVars
<1> QED BY <1>1, <1>2, <1>3 DEF BenchNext, Ended

\* Who says of the watched task that it is right says it of the conversation there is.
LEMMA LinkStep ==
  ASSUME BenchInv, [BenchNext]_allVars
  PROVE  LinkInv'
<1>0. Watched \in Tasks /\ task \in [Tasks -> Progress] /\ rows \in [Tasks -> Rows]
      /\ collected \in [Tasks -> Rows] /\ saved.rows = kept
  BY WatchedAssumption DEF BenchInv, RunnerInv, RunnerTypeOK, FileInv
<1>1. CASE task[Watched] \in {"queued", "running"} /\ (Conversation!Next \/ Afresh)
           /\ UNCHANGED <<main, final, saved, collected, rows, kept>>
  <2>1. rows[Watched] # "right" /\ kept[Watched] \notin Scored
    BY <1>0, <1>1 DEF BenchInv, LinkInv, RunnerInv, FileInv, AtRest
  <2>2. Asking => collected[Watched] \notin Scored
    BY <1>0, <1>1 DEF BenchInv, RunnerInv, CollectedInv, AtRest
  <2> QED BY <1>1, <2>1, <2>2 DEF LinkInv, Asking, Scored
<1>2. CASE UNCHANGED talk
  <2>0. Solved' <=> Solved
    BY <1>2 DEF talk, Solved, Conversation!CountsAsSolved
  <2>1. ASSUME NEW asked \in Limits, Invoke(asked) PROVE LinkInv'
    <3>1. kept' = kept /\ rows'[Watched] = "absent"
          /\ (collected'[Watched] = kept[Watched] \/ collected'[Watched] = "absent")
      BY <1>0, <2>1 DEF Invoke, NoRows, Kept
    <3> QED BY <2>0, <3>1 DEF BenchInv, LinkInv
  <2>2. CASE Collect
    <3> DEFINE t == Head(finished)
    <3>1. /\ collected' = [collected EXCEPT ![t] = rows[t]] /\ task' = [task EXCEPT ![t] = "taken"]
          /\ kept' = kept /\ rows' = rows /\ main = "await"
      BY <2>2 DEF Collect
    <3> HIDE DEF t
    <3>2. collected'[Watched] \in {collected[Watched], rows[Watched]}
          /\ task'[Watched] \in {task[Watched], "taken"}
      BY <1>0, <3>1
    <3> QED BY <2>0, <3>1, <3>2 DEF BenchInv, LinkInv, Asking
  <2>3. CASE AllTaken \/ EndSave \/ Sigterm \/ Kill \/ CannotResume
    <3>1. UNCHANGED <<collected, task, rows>>
      BY <2>3 DEF AllTaken, EndSave, Sigterm, Kill, CannotResume
    <3>2. Asking' => Asking
      BY <2>3 DEF AllTaken, EndSave, Sigterm, Kill, CannotResume, BeginSave, Asking
    <3>3. kept' = kept \/ (Asking /\ kept' = collected)
      BY <2>3 DEF AllTaken, EndSave, Sigterm, Kill, CannotResume, Asking
    <3> QED BY <2>0, <3>1, <3>2, <3>3 DEF BenchInv, LinkInv
  <2>4. ASSUME NEW t \in Tasks, Acquire(t) \/ Stick(t) PROVE LinkInv'
    <3>1. /\ task[t] \in {"queued", "running"}
          /\ task' = [task EXCEPT ![t] = "running"] \/ task' = [task EXCEPT ![t] = "stuck"]
          /\ UNCHANGED <<main, collected, rows, kept>>
      BY <2>4 DEF Acquire, Stick
    <3>2. rows[Watched] = "right" => task'[Watched] = task[Watched]
      BY <1>0, <3>1 DEF BenchInv, LinkInv
    <3> QED BY <2>0, <3>1, <3>2 DEF BenchInv, LinkInv, Asking
  <2>5. ASSUME NEW t \in Tasks, NEW row \in Scored \cup {"errored"}, Return(t, row),
               t = Watched /\ row = "right" => Solved
        PROVE  LinkInv'
    <3>1. /\ task' = [task EXCEPT ![t] = "done"] /\ rows' = [rows EXCEPT ![t] = row]
          /\ UNCHANGED <<main, collected, kept>>
      BY <2>5 DEF Return
    <3>2. rows'[Watched] = "right" =>
            \/ t = Watched /\ row = "right" /\ task'[Watched] = "done"
            \/ rows[Watched] = "right" /\ task'[Watched] = task[Watched]
      BY <1>0, <3>1
    <3> QED BY <2>0, <2>5, <3>1, <3>2 DEF BenchInv, LinkInv, Asking
  <2>6. ASSUME NEW t \in Tasks \ {Watched}, Finish(t) PROVE LinkInv'
    BY <2>5, <2>6 DEF Finish
  <2>7. ASSUME NEW t \in Tasks, DeadlinePasses(t) PROVE LinkInv'
    <3>1. Return(t, "errored") /\ "errored" # "right" /\ "errored" \in Scored \cup {"errored"}
      BY <2>7 DEF DeadlinePasses
    <3> QED BY <2>5, <3>1
  <2>8. CASE Ended
    <3>1. Return(Watched, RowOf)
      BY <2>8 DEF Ended
    <3> QED BY <1>0, <2>5, <2>8, <3>1, EndedReturns
  <2>9. CASE UNCHANGED runnerVars
    BY <2>0, <2>9 DEF BenchInv, LinkInv, Asking
  <2>10. CASE Begins
    BY <1>0, <2>4, <2>10 DEF Begins
  <2>11. CASE Converses
    BY <2>9, <2>11 DEF Converses
  <2>12. CASE UNCHANGED allVars
    BY <2>9, <2>12 DEF allVars
  <2>13. CASE Main \/ \E t \in Tasks \ {Watched} : Step(t)
    BY <2>1, <2>2, <2>3, <2>4, <2>6, <2>7, <2>13 DEF Main, Step
  <2>14. CASE DeadlinePasses(Watched) \/ Stick(Watched)
    BY <1>0, <2>4, <2>7, <2>14
  <2> QED BY <2>8, <2>10, <2>11, <2>12, <2>13, <2>14 DEF BenchNext
<1> QED BY <1>1, <1>2, BenchTalks

LEMMA BenchStep ==
  ASSUME BenchInv, [BenchNext]_allVars
  PROVE  BenchInv'
<1>1. RunnerInv'
  BY BenchRuns, RunnerStep DEF BenchInv
<1>2. TalkInv'
  BY BenchTalks, TalkStep DEF BenchInv
<1> QED BY <1>1, <1>2, LinkStep DEF BenchInv

LEMMA BenchHolds == BenchSpec => []BenchInv
<1>1. BenchInit => BenchInv
  BY BenchInitInv
<1>2. BenchInv /\ [BenchNext]_allVars => BenchInv'
  BY BenchStep
<1> QED BY <1>1, <1>2, PTL DEF BenchSpec

\* For any tasks, limits, turns, tools and bounds on steps: the runner's state and the
\* conversation's stay well formed, and upstream is given a step for every turn.
THEOREM BenchIsWellTyped == BenchSpec => []BenchTypeOK
<1>1. BenchInv => BenchTypeOK
  BY DEF BenchInv, RunnerInv, TalkInv, BenchTypeOK
<1> QED BY <1>1, BenchHolds, PTL

\* However a conversation is cut, taken up or asked again, its record is every call it
\* made, in order, with an entry for each turn; no turn that executed code is asked
\* again; and it is lost to an error only when the provider failed it.
THEOREM ConversationsAreRecorded == BenchSpec => []RecordedAsItWent
<1>1. BenchInv => RecordedAsItWent
  <2> SUFFICES ASSUME BenchInv PROVE RecordedAsItWent
    OBVIOUS
  <2>1. ASSUME at \in {"fidelity", "score", "scored"}
        PROVE  Conversation!Flat(calls) = made /\ Len(calls) = Turns
    <3>1. step = <<>> /\ recorded = <<>> /\ Len(calls) = Turns
      BY <2>1 DEF BenchInv, TalkInv, TurnInv
    <3>2. Conversation!Flat(calls) \in Seq(Methods)
      <4>1. calls \in Seq(Seq(Seq(Methods)))
        BY SeqMonotonic DEF BenchInv, TalkInv, Conversation!TypeOK
      <4> QED BY <4>1, FlatCalls
    <3>3. made = (Conversation!Flat(calls) \o <<>>) \o <<>>
      BY <3>1, FlatEmpty DEF BenchInv, TalkInv, RecordInv
    <3> QED BY <3>1, <3>2, <3>3, ConcatEmptySeq
  <2> QED BY <2>1 DEF BenchInv, TalkInv, BlameInv, RecordedAsItWent, Conversation!RecordIsWhatWasCalled
<1> QED BY <1>1, BenchHolds, PTL

\* A task the file calls solved was solved in one conversation: judged on the very
\* changes that one made, and on every call of it, whatever others were cut off before
\* it, by deadlines, signals or kills without bound.
THEOREM SolvedWithinOne == BenchSpec => []SolvedInOneConversation
<1>1. BenchInv /\ RecordedAsItWent => SolvedInOneConversation
  <2> SUFFICES ASSUME BenchInv, RecordedAsItWent, kept[Watched] = "right"
               PROVE  at = "scored" /\ valid /\ judged = reached /\ Conversation!Flat(calls) = made
    BY DEF SolvedInOneConversation
  <2>1. at = "scored" /\ valid /\ ~missed
    BY DEF BenchInv, LinkInv, Solved, Conversation!CountsAsSolved
  <2>2. judged = reached
    BY <2>1 DEF BenchInv, TalkInv, ReplayInv
  <2>3. Conversation!Flat(calls) = made
    BY <2>1 DEF RecordedAsItWent, Conversation!RecordIsWhatWasCalled
  <2> QED BY <2>1, <2>2, <2>3
<1> QED BY <1>1, BenchHolds, ConversationsAreRecorded, PTL

\* A judged task is judged once, however the runner is stopped and started again; an
\* invocation that was not stopped leaves a row for each task it ran.
THEOREM JudgedOnce == BenchSpec => JudgedOnceAndForAll
<1>1. BenchInv /\ [BenchNext]_allVars => [ScoredForGood /\ EveryTaskAccounted]_allVars
  BY BenchRuns, RunnerJudges DEF BenchInv
<1> QED BY <1>1, BenchHolds, PTL DEF BenchSpec, JudgedOnceAndForAll
=============================================================================
