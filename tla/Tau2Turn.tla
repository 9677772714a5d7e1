------------------------------ MODULE Tau2Turn ------------------------------
(***************************************************************************)
(* CaveAgent as a tau2 agent (tau2/tau2_cave/agent.py; the json arm,       *)
(* tau2/tau2_json_exec/agent.py, overrides how a held reply is released).  *)
(* tau2 scores the tool calls a message carries and applies them itself,   *)
(* so a turn works on a copy of the database, its calls are taken down,    *)
(* and what it said is held back until tau2 has replayed them.             *)
(***************************************************************************)
EXTENDS Naturals, Sequences, SequencesExt

CONSTANTS
  Calls, Dbs, Apply,  \* the domain's tools, as in DirectAgent
  Arms,               \* the arms: "fenced", "json"
  MaxTurns,           \* bound: the customer's messages
  MaxCalls            \* bound: calls in a turn

ASSUME DomainAssumption == Apply \in [Calls -> [Dbs -> Dbs]]
ASSUME TurnAssumption ==
  /\ Arms \subseteq {"fenced", "json"}
  /\ MaxTurns \in Nat /\ MaxCalls \in Nat

\* How a run of the agent ends.
Stops == {"completed", "max_steps", "model_error", "runtime_error"}

VARIABLES
  arm,
  pc,         \* "customer", "asked", "turn", "replay", "failed"
  turn,       \* the customer's messages so far
  live,       \* the environment's database, which tau2 scores
  shadow,     \* the agent's copy
  calls,      \* ToolCallRecorder._calls
  attempt,    \* which run of the agent this turn is in
  called,     \* whether that run called a tool
  pending,    \* pending_reply: <<>>, or the one reply held back
  sent,       \* the calls of the message tau2 is replaying
  replayed,   \* how many of them it has applied
  changed,    \* history: whether the turn's code has changed the copy without a tool
  trail,      \* history: what the turn began on, and what each of its calls makes of it
  made,       \* history: the calls of the turn, as the agent made them
  applied,    \* history: the calls of the turn, as tau2 applied them
  heard,      \* history: every text the customer was sent
  meant,      \* history: the last reply of every turn
  used, billed \* history: runs of the agent; runs whose usage is on a message

agent == <<shadow, calls, attempt, called, changed, trail, made>>
handed == <<sent, replayed, applied>>
talk == <<heard, meant, used, billed>>
vars == <<arm, pc, turn, live, agent, pending, handed, talk>>

\* A reply, told apart by the run that wrote it.
Replies == [turn: 1..MaxTurns, attempt: 1..2, text: {"words", "none", "filler"}]

Init ==
  /\ arm \in Arms /\ pc = "customer" /\ turn = 0
  /\ live \in Dbs /\ shadow = live
  /\ calls = <<>> /\ attempt = 1 /\ called = FALSE /\ changed = FALSE
  /\ pending = <<>> /\ sent = <<>> /\ replayed = 0
  /\ trail = <<live>> /\ made = <<>> /\ applied = <<>>
  /\ heard = <<>> /\ meant = <<>> /\ used = 0 /\ billed = 0

---------------------------------------------------------------------------
(* tau2's side: it sets the task up, plays the customer, who writes into the
   database in some domains, and replays the calls it is handed. *)

CustomerWrites(d) ==
  /\ pc = "customer"
  /\ live' = d
  /\ UNCHANGED <<arm, pc, turn, agent, pending, handed, talk>>

CustomerSpeaks ==
  /\ pc = "customer"
  /\ turn < MaxTurns
  /\ turn' = turn + 1
  /\ pc' = "asked"
  /\ UNCHANGED <<arm, live, agent, pending, handed, talk>>

Replay ==
  /\ pc = "replay"
  /\ replayed < Len(sent)
  /\ live' = Apply[sent[replayed + 1]][live]
  /\ applied' = Append(applied, sent[replayed + 1])
  /\ replayed' = replayed + 1
  /\ UNCHANGED <<arm, pc, turn, agent, pending, sent, talk>>

---------------------------------------------------------------------------
(* generate_next_message *)

\* Mutant of Synced: the copy is taken once, when the task starts.
SyncedOnce == IF turn = 1 THEN live ELSE shadow

\* _sync_shadow
Synced == live

BeginTurn ==
  /\ pc = "asked"
  /\ pc' = "turn"
  /\ shadow' = Synced
  /\ trail' = <<shadow'>>
  /\ made' = <<>> /\ applied' = <<>>
  /\ attempt' = 1 /\ called' = FALSE /\ changed' = FALSE
  /\ UNCHANGED <<arm, turn, live, calls, pending, sent, replayed, talk>>

\* recorded: the call is taken down, then made on the copy.
Call(c) ==
  /\ pc = "turn"
  /\ Len(made) < MaxCalls
  /\ calls' = Append(calls, c)
  /\ shadow' = Apply[c][shadow]
  /\ called' = TRUE
  /\ trail' = Append(trail, Apply[c][Last(trail)])
  /\ made' = Append(made, c)
  /\ UNCHANGED <<arm, pc, turn, live, attempt, changed, pending, handed, talk>>

\* Tools return objects of the copy; what the code does to them no one takes down.
CellChanges(d) ==
  /\ pc = "turn"
  /\ shadow' = d
  /\ changed' = TRUE
  /\ UNCHANGED <<arm, pc, turn, live, calls, attempt, called, trail, made, pending, handed, talk>>

\* _looks_like_an_unexecuted_call, of a reply that looks like one
Unexecuted(marked, ran) == marked /\ ~ran

\* Mutant of UsageOf: the usage of the last run only.
LastUsage == 1

\* _total_usage
UsageOf == attempt

Ended(marked, ran) ==
  /\ pc = "turn"
  /\ called => ran
  /\ used' = used + 1

AskAgain(marked, ran) ==
  /\ Ended(marked, ran)
  /\ attempt = 1 /\ Unexecuted(marked, ran)
  /\ attempt' = 2 /\ called' = FALSE
  /\ UNCHANGED <<arm, pc, turn, live, shadow, calls, changed, trail, made, pending, handed, heard, meant, billed>>

Fail(stop, marked, ran) ==
  /\ Ended(marked, ran)
  /\ ~(attempt = 1 /\ Unexecuted(marked, ran))
  /\ stop \in {"model_error", "runtime_error"}
  /\ pc' = "failed"
  /\ UNCHANGED <<arm, turn, live, agent, pending, handed, heard, meant, billed>>

Answer(stop, marked, ran, text) ==
  LET reply == [turn |-> turn, attempt |-> attempt, text |-> text]
  IN  /\ Ended(marked, ran)
      /\ ~(attempt = 1 /\ Unexecuted(marked, ran))
      /\ stop \in {"completed", "max_steps"}
      /\ billed' = billed + UsageOf
      /\ meant' = Append(meant, reply)
      /\ calls' = <<>>
      /\ IF calls = <<>>
         THEN pc' = "customer" /\ heard' = Append(heard, reply) /\ UNCHANGED <<pending, sent, replayed>>
         ELSE pc' = "replay" /\ pending' = <<reply>> /\ sent' = calls /\ replayed' = 0 /\ UNCHANGED heard
      /\ UNCHANGED <<arm, turn, live, shadow, attempt, called, changed, trail, made, applied>>

\* _release_pending_reply; the json arm stands in for a reply without text.
Released(reply) == IF arm = "json" /\ reply.text = "none" THEN [reply EXCEPT !.text = "filler"] ELSE reply

Release ==
  /\ pc = "replay"
  /\ replayed = Len(sent)
  /\ pc' = "customer"
  /\ heard' = Append(heard, Released(Head(pending)))
  /\ pending' = <<>>
  /\ UNCHANGED <<arm, turn, live, agent, handed, meant, used, billed>>

Next ==
  \/ \E d \in Dbs : CustomerWrites(d) \/ CellChanges(d)
  \/ \E c \in Calls : Call(c)
  \/ CustomerSpeaks \/ BeginTurn \/ Replay \/ Release
  \/ \E marked, ran \in BOOLEAN :
       \/ AskAgain(marked, ran)
       \/ \E stop \in Stops : Fail(stop, marked, ran)
       \/ \E stop \in Stops, text \in {"words", "none"} : Answer(stop, marked, ran, text)

Spec == Init /\ [][Next]_vars

---------------------------------------------------------------------------
\* The environment as the agent's turn has it: by its calls, until tau2 has caught up.
InTurn == pc \in {"turn", "replay"}
Direct == INSTANCE DirectAgent WITH
  db <- IF InTurn THEN Last(trail) ELSE live,
  phase <- IF InTurn THEN "agent" ELSE IF pc = "failed" THEN "failed" ELSE "customer",
  before <- trail[1]

\* Through the copy, the replay and the reply held back, the benchmark is acted on as
\* by an agent that has the database itself: each call once, in order, on what the
\* customer left, whatever the turn's code did to the copy behind the tools, and
\* nothing of a turn that raises (module docstring, generate_next_message).
ImplementsDirect == Direct!Spec

\* The state is well formed.
TypeOK ==
  /\ arm \in Arms /\ pc \in {"customer", "asked", "turn", "replay", "failed"}
  /\ turn \in 0..MaxTurns
  /\ live \in Dbs /\ shadow \in Dbs
  /\ calls \in Seq(Calls) /\ made \in Seq(Calls) /\ applied \in Seq(Calls)
  /\ sent \in Seq(Calls) /\ replayed \in 0..Len(sent)
  /\ attempt \in 1..2 /\ called \in BOOLEAN /\ changed \in BOOLEAN
  /\ pending \in Seq(Replies) /\ Len(pending) = IF pc = "replay" THEN 1 ELSE 0
  /\ trail \in Seq(Dbs) /\ trail # <<>>
  /\ heard \in Seq(Replies) /\ meant \in Seq(Replies)
  /\ used \in Nat /\ billed \in Nat

\* When the customer is to speak, tau2 has applied the calls of the turn before: those
\* it made, once each, in order (ToolCallRecorder, generate_next_message).
AppliedAsMade == pc \in {"customer", "asked"} => applied = made

\* What the agent is shown during a turn is what the environment will be, unless its own
\* code has changed an object a tool returned (_sync_shadow).
CopyIsTrue == InTurn /\ ~changed => shadow = Last(trail)

\* The customer hears one answer to each message, and it is the last thing the agent
\* said to that message (pending_reply); the filler stands only for a blank one.
HearsWhatWasSaid ==
  pc = "customer" =>
    /\ Len(heard) = turn /\ Len(meant) = turn
    /\ \A i \in 1..turn :
         /\ meant[i].turn = i
         /\ heard[i] = meant[i] \/ (meant[i].text = "none" /\ heard[i] = [meant[i] EXCEPT !.text = "filler"])

\* The tokens of a turn are on one message of it, those of a correction too
\* (accounting, _total_usage).
BilledOnce == pc \in {"customer", "asked", "replay"} => billed = used

\* A turn reaches tau2 whole: its calls as it made them, its last reply after them, and
\* the cost of all its runs (generate_next_message, _release_pending_reply).
TurnIsHandedOver == TypeOK /\ AppliedAsMade /\ CopyIsTrue /\ HearsWhatWasSaid /\ BilledOnce

\* What the json arm says of itself: tau2 rejects an assistant message that is neither
\* text nor calls, and the filler keeps the conversation going.
SaysSomething ==
  arm = "json" => \A i \in DOMAIN heard : heard[i].text # "none"
=============================================================================
