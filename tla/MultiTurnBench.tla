--------------------------- MODULE MultiTurnBench ---------------------------
(***************************************************************************)
(* The multi-turn benchmark with one of its tasks seen from inside: the    *)
(* runner (MultiTurnRun), and the conversation of the task Watched         *)
(* (MultiTurnTask), which the runner begins, may give up on at the         *)
(* deadline, at a SIGTERM or when it is killed, and may begin again in a   *)
(* later invocation.  The row the runner keeps of it is the one the        *)
(* conversation came to.                                                   *)
(***************************************************************************)
EXTENDS MultiTurnRun

CONSTANTS Watched, Methods, Refusing, Turns, MaxSteps, MaxCalls, Direct

VARIABLES
  at,  \* pc of MultiTurnTask; the others have its names
  arm, turn, requests, code, repaired, toAnswer, step, recorded, calls, reached,
  left, missed, judged, valid, made, failed, codeBefore

Conversation == INSTANCE MultiTurnTask WITH pc <- at

talk == <<at, arm, turn, requests, code, repaired, toAnswer, step, recorded, calls, reached,
          left, missed, judged, valid, made, failed, codeBefore>>
allVars == <<runnerVars, talk>>

ASSUME WatchedAssumption == Watched \in Tasks
ASSUME TaskAssumption ==
  /\ Refusing \subseteq Methods
  /\ Direct \notin Methods
  /\ Turns \in Nat \ {0} /\ MaxSteps \in Nat \ {0} /\ MaxCalls \in Nat

BenchInit == RunnerInit /\ Conversation!Init

\* one_task: new instances, a new recorder and a new agent, of the same arm.  A
\* process begins a task once, so upstream holds no instance of it yet.
Afresh ==
  /\ arm' = arm /\ turn' = 1 /\ at' = "turn"
  /\ requests' = 0 /\ code' = FALSE /\ repaired' = FALSE /\ toAnswer' = <<>>
  /\ step' = <<>> /\ recorded' = <<>> /\ calls' = <<>> /\ reached' = <<>>
  /\ left' = [g \in Conversation!Tags |-> <<>>]
  /\ missed' = FALSE /\ judged' = <<>> /\ valid' = FALSE
  /\ made' = <<>> /\ failed' = FALSE /\ codeBefore' = FALSE

Begins == Acquire(Watched) /\ Afresh

Converses ==
  /\ main = "await" /\ task[Watched] = "running"
  /\ Conversation!Next
  /\ UNCHANGED runnerVars

\* What guarded(t) makes of the conversation's end.
RowOf ==
  CASE at = "errored" -> "errored"
    [] at = "scored" -> IF Conversation!CountsAsSolved THEN "right" ELSE "wrong"

Ended ==
  /\ main = "await" /\ task[Watched] = "running"
  /\ at \in {"scored", "errored"}
  /\ Return(Watched, RowOf)
  /\ UNCHANGED talk

BenchNext ==
  \/ (Main \/ \E t \in Tasks \ {Watched} : Step(t)) /\ UNCHANGED talk
  \/ (DeadlinePasses(Watched) \/ Stick(Watched)) /\ UNCHANGED talk
  \/ Begins \/ Converses \/ Ended

\* The event loop runs what is ready; a request answers or the deadline passes.
BenchSpec ==
  /\ BenchInit /\ [][BenchNext]_allVars
  /\ WF_allVars((Collect \/ AllTaken \/ EndSave) /\ UNCHANGED talk)
  /\ \A t \in Tasks : WF_allVars(DeadlinePasses(t) /\ UNCHANGED talk)
  /\ \A t \in Tasks \ {Watched} : WF_allVars(Acquire(t) /\ UNCHANGED talk)
  /\ WF_allVars(Begins)

---------------------------------------------------------------------------
\* The runner's state and the conversation's are well formed.
BenchTypeOK == RunnerTypeOK /\ Conversation!TypeOK

\* A task the file calls solved was solved in one conversation: the verdict was given
\* on the very changes that conversation made, and on every call it made, though
\* others of it were given up, cut off or failed before (one_task, guarded,
\* unrecorded_change, already_scored).
SolvedInOneConversation ==
  kept[Watched] = "right" =>
    at = "scored" /\ valid /\ judged = reached /\ Conversation!Flat(calls) = made

\* However a conversation is cut, taken up or repaired, the record of it is every call
\* it made, a turn is asked again only when it executed nothing, and it is lost to an
\* error only when the provider failed it (recorder.py, unexecuted_call, _dispatch).
RecordedAsItWent ==
  /\ Conversation!RecordIsWhatWasCalled
  /\ Conversation!AskedAgainOnlyIfMissed
  /\ Conversation!ErroredOnlyByTheProvider

\* A judged task is judged once, whatever stops the runner; an invocation that was not
\* stopped leaves a row for each task it ran, and none that an outage ended without
\* its being tried again (already_scored, save).
JudgedOnceAndForAll == [][ScoredForGood /\ EveryTaskAccounted]_allVars

\* What the runner's docstring says: a provider outage and a wrong answer must not
\* look alike. A task the provider failed has no verdict in the file.
OutageIsNotAnAnswer == kept[Watched] \in Scored => ~failed
=============================================================================
