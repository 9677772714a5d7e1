---------------------------- MODULE ToolCallTurn ----------------------------
(***************************************************************************)
(* The tool-call loop (ToolCallAgent and _ToolCallStream,                  *)
(* bench/core/agents.py, and its copy tau2/tau2_json_exec): a reply is     *)
(* streamed in chunks over a connection that may fail and be replayed, cut *)
(* by the output limit or stopped at a second call; its first call is run  *)
(* or refused, and written into the history with its answer.  A deadline   *)
(* may cancel the run at any await.                                        *)
(*                                                                         *)
(* The arguments of a call are the numbers of the connections its parts    *)
(* came over; a call as the model wrote it is Parts of one connection.     *)
(***************************************************************************)
EXTENDS Naturals, Sequences, FiniteSets, SequencesExt

CONSTANTS
  MaxReplies,   \* bound: requests for a reply
  MaxOpens,     \* bound: connections in all
  MaxRuns       \* bound: runs of the agent, one after another

ASSUME LoopAssumption == MaxReplies \in Nat /\ MaxOpens \in Nat /\ MaxRuns \in Nat

Parts == 2
Kinds == {"code", "unknown", "notCode"}    \* execute_python with code, another tool, arguments without code
Finishes == {"stop", "length"}
ToolCalls == [kind: Kinds, arguments: Seq(1..MaxOpens)]
NoCall == [kind |-> "none", arguments |-> <<>>]
MessageKinds == {"user", "text", "call", "result"}

VARIABLES
  at,        \* between runs, at the start of a step, reading, concluding, handling, executing
  runs, replies, opens,
  text,      \* a delta with content came
  calls,     \* stream.calls, by index
  received,  \* a delta was returned: the connection is not replayed
  stopped,   \* stopped_at_call
  error,     \* turn.error
  finish,    \* stream.finish_reason
  call,      \* _call
  messages,  \* history: [kind, reply], the reply it belongs to
  spent,     \* what was billed: "provider" or "estimated", by reply
  streamed,  \* history: the arguments of this reply's calls, as they came
  executed   \* history: <<reply, call>> of every execution

stream == <<opens, text, calls, received, stopped, error, finish, streamed>>
loopVars == <<at, runs, replies, stream, call, messages, spent, executed>>

LoopInit ==
  /\ at = "idle" /\ runs = 0 /\ replies = 0 /\ opens = 0
  /\ text = FALSE /\ calls = <<>> /\ received = FALSE /\ stopped = FALSE
  /\ error = FALSE /\ finish = "none" /\ call = NoCall
  /\ messages = <<>> /\ spent = <<>> /\ streamed = <<>> /\ executed = <<>>

Message(kind) == [kind |-> kind, reply |-> replies]

---------------------------------------------------------------------------
(* The history as the provider is sent it *)

\* The call that is open before message i (_tool_wire): the latest, if no result came since.
OpenBefore(history, i) ==
  {j \in 1..(i - 1) : /\ history[j].kind = "call"
                      /\ \A k \in (j + 1)..(i - 1) : history[k].kind \notin {"call", "result"}}

\* role, and the call it makes or answers
Rendered(history, i) ==
  CASE history[i].kind = "call" -> <<"call", history[i].reply>>
    [] history[i].kind = "result" /\ OpenBefore(history, i) # {} ->
         <<"tool", history[CHOOSE j \in OpenBefore(history, i) : TRUE].reply>>
    [] OTHER -> <<"plain", 0>>

Wire(history) == [i \in DOMAIN history |-> Rendered(history, i)]

---------------------------------------------------------------------------
(* CaveAgent around it *)

\* An execution that was cut short is given a result before the next message.
Recovered ==
  IF messages # <<>> /\ Last(messages).kind = "call"
  THEN Append(messages, [kind |-> "result", reply |-> Last(messages).reply]) ELSE messages

BeginRun ==
  /\ at = "idle" /\ runs < MaxRuns
  /\ runs' = runs + 1
  /\ messages' = Append(Recovered, Message("user"))
  /\ at' = "step"
  /\ UNCHANGED <<replies, stream, call, spent, executed>>

---------------------------------------------------------------------------
(* _ToolCallStream *)

\* _stream_once begins, and the first connection is opened.
Request ==
  /\ at = "step" /\ replies < MaxReplies /\ opens < MaxOpens
  /\ replies' = replies + 1 /\ opens' = opens + 1
  /\ text' = FALSE /\ calls' = <<>> /\ received' = FALSE /\ stopped' = FALSE
  /\ error' = FALSE /\ finish' = "none" /\ streamed' = <<>>
  /\ call' = NoCall
  /\ at' = "reading"
  /\ UNCHANGED <<runs, messages, spent, executed>>

TextChunk ==
  /\ at = "reading" /\ ~text
  /\ text' = TRUE /\ received' = TRUE
  /\ UNCHANGED <<at, runs, replies, opens, calls, stopped, error, finish, streamed, call, messages, spent, executed>>

\* Mutant of ReturnsDelta: a chunk with a part of a call is passed over in silence.
OnlyContent == FALSE

\* A chunk that carries only part of a call yields an empty delta.
ReturnsDelta == TRUE

\* A part of the call that is under way, or the first part of a next one, at which reading stops.
PartOf(i, kind) ==
  IF i <= Len(calls) THEN [calls EXCEPT ![i].arguments = Append(@, opens)]
  ELSE Append(calls, [kind |-> kind, arguments |-> <<opens>>])

CallChunk(i, kind) ==
  /\ at = "reading"
  /\ \/ i = Len(calls) /\ i > 0 /\ Len(calls[i].arguments) < Parts /\ kind = calls[i].kind
     \/ i = Len(calls) + 1 /\ \A j \in DOMAIN calls : Len(calls[j].arguments) >= Parts
  /\ calls' = PartOf(i, kind)
  /\ streamed' = IF i = 1 THEN Append(streamed, opens) ELSE streamed
  /\ received' = (received \/ ReturnsDelta)
  /\ IF i > 1 THEN stopped' = TRUE /\ at' = "closing" ELSE UNCHANGED <<stopped, at>>
  /\ UNCHANGED <<runs, replies, opens, text, error, finish, call, messages, spent, executed>>

\* The connection failed and nothing was received over it: it is opened again.
Replay ==
  /\ at = "reading" /\ ~received /\ opens < MaxOpens
  /\ opens' = opens + 1
  /\ calls' = <<>>
  /\ UNCHANGED <<at, runs, replies, text, received, stopped, error, finish, streamed, call, messages, spent, executed>>

\* It failed for good, or stood still too long, or the run was refused.
Fails ==
  /\ at = "reading"
  /\ error' = TRUE /\ at' = "closing"
  /\ UNCHANGED <<runs, replies, opens, text, calls, received, stopped, finish, streamed, call, messages, spent, executed>>

\* The reply is at its end: the output limit may have cut it, a finished one is whole.
Ends(how) ==
  /\ at = "reading"
  /\ how = "stop" => \A j \in DOMAIN calls : Len(calls[j].arguments) = Parts
  /\ finish' = how /\ at' = "closing"
  /\ UNCHANGED <<runs, replies, opens, text, calls, received, stopped, error, streamed, call, messages, spent, executed>>

---------------------------------------------------------------------------
(* ToolCallAgent *)

\* Mutant of Billed: the estimate is taken where nothing went wrong.
BilledIfWell == IF error THEN spent ELSE Append(spent, "estimated")

\* _finalize_turn_usage: the provider's count where the stream got that far.
Billed == Append(spent, IF finish # "none" THEN "provider" ELSE "estimated")

Whole(c) == Len(c.arguments) >= Parts

Code(c) == c.kind = "code" /\ Whole(c)     \* call.code is not None

First == Head(calls)

Complete == stopped \/ finish # "length" \/ Code(First)

\* The stream is closed, its usage counted, and its first complete call kept.
Close ==
  /\ at = "closing"
  /\ spent' = Billed
  /\ IF error /\ ~text /\ calls = <<>>
     THEN at' = "idle" /\ UNCHANGED call
     ELSE /\ call' = IF calls # <<>> /\ ~error /\ Complete THEN First ELSE NoCall
          /\ at' = "handling"
  /\ UNCHANGED <<runs, replies, stream, messages, executed>>

\* A failure after output, or a reply cut with no call to run: cave_agent asks again
\* with what it has, or ends the run; a reply without a call is the answer.
NoCallToRun ==
  /\ at = "handling" /\ call = NoCall
  /\ \/ (error \/ finish = "length") /\ at' = "step" /\ messages' = messages \o <<Message("text"), Message("user")>>
     \/ (error \/ finish = "length") /\ at' = "idle" /\ UNCHANGED messages
     \/ ~error /\ finish # "length" /\ at' = "idle" /\ messages' = Append(messages, Message("text"))
  /\ UNCHANGED <<runs, replies, stream, call, spent, executed>>

\* Mutant of Refused: the refusal is shown and not written down.
NotWritten == <<Message("call")>>

\* A call that cannot run is answered by why it cannot.
Refused == <<Message("call"), Message("result")>>

Refuse ==
  /\ at = "handling" /\ call # NoCall /\ ~Code(call)
  /\ messages' = messages \o Refused
  /\ call' = NoCall /\ at' = "step"
  /\ UNCHANGED <<runs, replies, stream, spent, executed>>

Run ==
  /\ at = "handling" /\ Code(call)
  /\ messages' = Append(messages, Message("call"))
  /\ executed' = Append(executed, <<replies, call>>)
  /\ call' = NoCall /\ at' = "executing"
  /\ UNCHANGED <<runs, replies, stream, spent>>

WriteResult ==
  /\ at = "executing"
  /\ messages' = Append(messages, Message("result"))
  /\ at' = "step"
  /\ UNCHANGED <<runs, replies, stream, call, spent, executed>>

\* The step budget is spent.
OutOfSteps ==
  /\ at = "step" /\ at' = "idle"
  /\ UNCHANGED <<runs, replies, stream, call, messages, spent, executed>>

\* The run is cancelled: an open stream is closed and counted on the way out.
Cancel ==
  /\ \/ at = "reading" /\ spent' = Append(spent, "estimated")
     \/ at = "executing" /\ UNCHANGED spent
  /\ at' = "idle"
  /\ UNCHANGED <<runs, replies, stream, call, messages, executed>>

LoopNext ==
  \/ BeginRun \/ Request \/ TextChunk \/ Replay \/ Fails \/ Close
  \/ NoCallToRun \/ Refuse \/ Run \/ WriteResult \/ OutOfSteps \/ Cancel
  \/ \E how \in Finishes : Ends(how)
  \/ \E i \in 1..2, kind \in Kinds : CallChunk(i, kind)

LoopSpec == LoopInit /\ [][LoopNext]_loopVars

---------------------------------------------------------------------------
\* The state is well formed; two calls at most are begun, the second with one part.
LoopTypeOK ==
  /\ at \in {"idle", "step", "reading", "closing", "handling", "executing"}
  /\ runs \in 0..MaxRuns /\ replies \in 0..MaxReplies /\ opens \in 0..MaxOpens
  /\ calls \in Seq(ToolCalls) /\ Len(calls) <= 2 /\ (Len(calls) = 2 => stopped /\ Len(calls[2].arguments) = 1)
  /\ {text, received, stopped, error} \subseteq BOOLEAN /\ finish \in Finishes \cup {"none"}
  /\ call \in ToolCalls \cup {NoCall}
  /\ messages \in Seq([kind: MessageKinds, reply: 0..MaxReplies])
  /\ spent \in Seq({"provider", "estimated"})

\* Whatever is sent to a provider has each call followed by its own answer, and no
\* answer without its call (_tool_wire): refused, cut short by a deadline or run.
EveryCallAnswered ==
  at = "reading" =>
    LET wire == Wire(messages)
    IN  \A i \in DOMAIN wire :
          /\ wire[i][1] = "call" => i < Len(wire) /\ wire[i + 1] = <<"tool", wire[i][2]>>
          /\ wire[i][1] = "tool" => i > 1 /\ wire[i - 1] = <<"call", wire[i][2]>>

\* What runs is the first call of the reply, whole, all of it from the connection that
\* the reply came over at last, and a reply runs one (_ToolCallStream, _stream_once).
RunsTheFirstCallWhole ==
  /\ \A n \in DOMAIN executed : Cardinality(ToSet(executed[n][2].arguments)) = 1 /\ Whole(executed[n][2])
  /\ \A n \in DOMAIN executed \ {1} : executed[n][1] > executed[n - 1][1]

\* A connection is never replayed over a call under way: what came of the first call
\* of a reply is what its call holds.
NothingReplayedOver ==
  at \in {"reading", "closing", "handling"} /\ calls # <<>> => calls[1].arguments = streamed

\* A call the output limit cut is not kept: it is made again, not answered as a bad one.
CutCallsAreMadeAgain == call # NoCall /\ finish = "length" /\ ~stopped => Whole(call)

\* However the connection behaves, what the loop acts on is the call the model made, and
\* the first one alone (_ToolCallStream, _stream_once, _handle_turn).
CallIsTheModels == LoopTypeOK /\ RunsTheFirstCallWhole /\ NothingReplayedOver /\ CutCallsAreMadeAgain

\* Every request is billed once, failed, cut, replayed, cancelled or read to its end.
BilledOnce == Len(spent) = IF at \in {"reading", "closing"} THEN replies - 1 ELSE replies

---------------------------------------------------------------------------
\* What the module says of a provider that reports its usage: a tool call is read to
\* its end, and its recorded cost is the provider's count.
CostIsTheProviders == \A n \in DOMAIN executed : Len(spent) >= executed[n][1] => spent[executed[n][1]] = "provider"
=============================================================================
