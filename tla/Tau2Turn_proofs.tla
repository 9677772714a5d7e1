--------------------------- MODULE Tau2Turn_proofs ---------------------------
(***************************************************************************)
(* Proofs about Tau2Turn, for every domain: the bridge implements          *)
(* DirectAgent, whatever is changed behind the tools; calls are applied as *)
(* made, each message has its answer, every run is billed once.            *)
(***************************************************************************)
EXTENDS Tau2Turn, TLAPS

\* The trail goes along the calls of the turn, and the environment is as many calls
\* along it as tau2 has replayed; the copy is at its end if no code has changed it.
TrailInv ==
  /\ Len(trail) = Len(made) + 1
  /\ pc \in {"turn", "failed"} => live = trail[1]
  /\ \A i \in 1..Len(made) : trail[i + 1] = Apply[made[i]][trail[i]]
  /\ pc = "replay" => live = trail[replayed + 1]
  /\ InTurn /\ ~changed => shadow = trail[Len(trail)]

\* Where the turn's calls are: taken down, handed over, applied.
CallsInv ==
  /\ pc = "turn" => calls = made /\ applied = <<>>
  /\ pc = "replay" => sent = made /\ Len(applied) = replayed
                      /\ \A i \in 1..replayed : applied[i] = made[i]
  /\ pc \in {"customer", "asked"} => applied = made
  /\ pc \in {"customer", "asked", "replay"} => calls = <<>>

\* The i-th answer heard is what was meant, or stands for nothing.
Says(i) == heard[i] = meant[i] \/ (meant[i].text = "none" /\ heard[i] = [meant[i] EXCEPT !.text = "filler"])

\* What has been said is what was meant, but for the reply held back.
TalkInv ==
  /\ pc = "customer" => Len(heard) = turn /\ Len(meant) = turn
  /\ pc \in {"asked", "turn", "failed"} => turn \in 1..MaxTurns /\ Len(heard) = turn - 1 /\ Len(meant) = turn - 1
  /\ pc = "replay" => /\ turn \in 1..MaxTurns /\ Len(heard) = turn - 1 /\ Len(meant) = turn
                      /\ pending[1] = meant[turn]
  /\ \A i \in 1..Len(meant) : meant[i].turn = i
  /\ \A i \in 1..Len(heard) : Says(i)

\* A turn's earlier run is not billed yet.
BilledInv ==
  /\ pc \in {"customer", "asked", "replay"} => billed = used
  /\ pc = "turn" => used + 1 = billed + attempt

IInv == TypeOK /\ TrailInv /\ CallsInv /\ TalkInv /\ BilledInv

USE DomainAssumption, TurnAssumption

---------------------------------------------------------------------------
\* A list gains an element at its end.
LEMMA Appended ==
  ASSUME NEW S, NEW seq \in Seq(S), NEW e \in S
  PROVE  /\ Append(seq, e) \in Seq(S) /\ Append(seq, e) # <<>>
         /\ Len(seq) \in Nat /\ Len(Append(seq, e)) = Len(seq) + 1
         /\ \A j \in 1..Len(seq) : Append(seq, e)[j] = seq[j]
         /\ Append(seq, e)[Len(seq) + 1] = e
  OBVIOUS

\* Lists of one length that agree throughout are one list.
LEMMA SameList ==
  ASSUME NEW S, NEW s \in Seq(S), NEW t \in Seq(S), Len(s) = Len(t), \A i \in 1..Len(t) : s[i] = t[i]
  PROVE  s = t
  OBVIOUS

\* A call on a database gives a database.
LEMMA Applied == ASSUME NEW c \in Calls, NEW d \in Dbs PROVE Apply[c][d] \in Dbs
  OBVIOUS

LEMMA InitInv == Init => IInv
<1> SUFFICES ASSUME Init PROVE IInv
  OBVIOUS
<1>1. TypeOK
  <2>1. <<live>> \in Seq(Dbs) /\ <<live>> # <<>>
    BY DEF Init
  <2>2. called \in BOOLEAN /\ changed \in BOOLEAN
    BY Zenon DEF Init
  <2> QED BY <2>1, <2>2 DEF Init, TypeOK
<1>2. TrailInv /\ CallsInv /\ TalkInv /\ BilledInv
  BY DEF Init, TrailInv, InTurn, CallsInv, TalkInv, Says, BilledInv
<1> QED BY <1>1, <1>2 DEF IInv

(* tau2's side *)

LEMMA CustomerWritesInv == ASSUME IInv, NEW d \in Dbs, CustomerWrites(d) PROVE IInv'
<1> USE DEF CustomerWrites, agent, handed, talk
<1>1. TypeOK'
  BY DEF IInv, TypeOK
<1>2. (TrailInv /\ CallsInv /\ TalkInv /\ BilledInv)'
  BY DEF IInv, TrailInv, InTurn, CallsInv, TalkInv, Says, BilledInv
<1> QED BY <1>1, <1>2 DEF IInv

LEMMA CustomerSpeaksInv == ASSUME IInv, CustomerSpeaks PROVE IInv'
<1> USE DEF CustomerSpeaks, agent, handed, talk
<1>1. TypeOK'
  BY DEF IInv, TypeOK
<1>2. (TrailInv /\ CallsInv /\ BilledInv)'
  BY DEF IInv, TrailInv, InTurn, CallsInv, BilledInv
<1>3. TalkInv'
  BY DEF IInv, TypeOK, TalkInv, Says
<1> QED BY <1>1, <1>2, <1>3 DEF IInv

LEMMA ReplayInv == ASSUME IInv, Replay PROVE IInv'
<1> USE DEF Replay, agent, talk
<1> DEFINE c == sent[replayed + 1]
<1>1. c \in Calls /\ replayed + 1 \in 1..Len(sent) /\ replayed \in Nat
  BY DEF IInv, TypeOK
<1>2. applied' \in Seq(Calls) /\ Len(applied') = Len(applied) + 1
      /\ (\A j \in 1..Len(applied) : applied'[j] = applied[j]) /\ applied'[Len(applied) + 1] = c
  BY <1>1, Appended DEF IInv, TypeOK
<1>3. TypeOK'
  BY <1>1, <1>2, Applied DEF IInv, TypeOK
<1>4. TrailInv'
  <2>1. live' = trail[replayed' + 1]
    <3>1. sent = made /\ live = trail[replayed + 1]
      BY DEF IInv, CallsInv, TrailInv
    <3>2. trail[replayed + 2] = Apply[c][trail[replayed + 1]]
      BY <1>1, <3>1 DEF IInv, TrailInv
    <3> QED BY <1>1, <3>1, <3>2
  <2> QED BY <2>1 DEF IInv, TrailInv, InTurn
<1>5. CallsInv'
  BY <1>1, <1>2 DEF IInv, TypeOK, CallsInv
<1>6. (TalkInv /\ BilledInv)'
  BY DEF IInv, TalkInv, Says, BilledInv
<1> QED BY <1>3, <1>4, <1>5, <1>6 DEF IInv

(* the agent's side *)

LEMMA BeginTurnInv == ASSUME IInv, BeginTurn PROVE IInv'
<1> USE DEF BeginTurn, Synced, talk
<1>1. trail' \in Seq(Dbs) /\ trail' # <<>> /\ Len(trail') = 1 /\ trail'[1] = live /\ shadow' = live
  BY DEF IInv, TypeOK
<1>2. TypeOK'
  <2>1. called' \in BOOLEAN /\ changed' \in BOOLEAN
    BY Zenon
  <2> QED BY <1>1, <2>1 DEF IInv, TypeOK
<1>3. (TrailInv /\ CallsInv /\ BilledInv)'
  BY <1>1 DEF IInv, TypeOK, TrailInv, InTurn, CallsInv, BilledInv
<1>4. TalkInv'
  BY DEF IInv, TypeOK, TalkInv, Says
<1> QED BY <1>2, <1>3, <1>4 DEF IInv

LEMMA CallInv == ASSUME IInv, NEW c \in Calls, Call(c) PROVE IInv'
<1> USE DEF Call, handed, talk
<1> DEFINE next == Apply[c][trail[Len(trail)]]
<1>1. /\ calls \in Seq(Calls) /\ made \in Seq(Calls) /\ trail \in Seq(Dbs) /\ trail # <<>>
      /\ Len(trail) \in 1..Len(trail) /\ trail[Len(trail)] \in Dbs
  BY DEF IInv, TypeOK
<1>2. next \in Dbs /\ shadow' \in Dbs
  BY <1>1, Applied DEF IInv, TypeOK
<1>3. calls' = Append(calls, c) /\ made' = Append(made, c) /\ trail' = Append(trail, next)
  BY <1>1 DEF Last
<1> HIDE DEF next
<1>4. /\ calls' \in Seq(Calls) /\ made' \in Seq(Calls) /\ trail' \in Seq(Dbs) /\ trail' # <<>>
      /\ Len(trail') = Len(trail) + 1 /\ trail'[Len(trail) + 1] = next
      /\ \A j \in 1..Len(trail) : trail'[j] = trail[j]
      /\ Len(made') = Len(made) + 1 /\ made'[Len(made) + 1] = c
      /\ \A j \in 1..Len(made) : made'[j] = made[j]
  BY <1>1, <1>2, <1>3, Appended
<1>5. TypeOK'
  <2>1. called' \in BOOLEAN
    BY Zenon
  <2> QED BY <1>2, <1>4, <2>1 DEF IInv, TypeOK
<1>6. TrailInv'
  <2>1. Len(trail) = Len(made) + 1 /\ Len(made) \in Nat
    BY DEF IInv, TrailInv, TypeOK
  <2>2. ASSUME NEW i \in 1..Len(made') PROVE trail'[i + 1] = Apply[made'[i]][trail'[i]]
    <3>1. CASE i \in 1..Len(made)
      BY <1>4, <2>1, <3>1 DEF IInv, TrailInv
    <3>2. CASE i = Len(made) + 1
      BY <1>4, <2>1, <3>2 DEF next
    <3> QED BY <1>4, <2>1, <3>1, <3>2
  <2>3. pc' = "turn" /\ live' = trail'[1]
    BY <1>1, <1>4 DEF IInv, TrailInv
  <2>4. ~changed' => shadow' = trail'[Len(trail')]
    BY <1>4 DEF IInv, TrailInv, InTurn, next
  <2> QED BY <1>4, <2>1, <2>2, <2>3, <2>4 DEF TrailInv, InTurn
<1>7. (CallsInv /\ TalkInv /\ BilledInv)'
  BY DEF IInv, CallsInv, TalkInv, Says, BilledInv
<1> QED BY <1>5, <1>6, <1>7 DEF IInv

LEMMA CellChangesInv == ASSUME IInv, NEW d \in Dbs, CellChanges(d) PROVE IInv'
<1> USE DEF CellChanges, handed, talk
<1>1. TypeOK'
  <2>1. changed' \in BOOLEAN
    BY Zenon
  <2> QED BY <2>1 DEF IInv, TypeOK
<1>2. (TrailInv /\ CallsInv /\ TalkInv /\ BilledInv)'
  BY DEF IInv, TrailInv, InTurn, CallsInv, TalkInv, Says, BilledInv
<1> QED BY <1>1, <1>2 DEF IInv

LEMMA AskAgainInv ==
  ASSUME IInv, NEW marked, NEW ran, AskAgain(marked, ran) PROVE IInv'
<1> USE DEF AskAgain, Ended, handed
<1>1. TypeOK'
  <2>1. called' \in BOOLEAN
    BY Zenon
  <2> QED BY <2>1 DEF IInv, TypeOK
<1>2. (TrailInv /\ CallsInv /\ TalkInv)'
  BY DEF IInv, TrailInv, InTurn, CallsInv, TalkInv, Says
<1>3. BilledInv'
  BY DEF IInv, TypeOK, BilledInv
<1> QED BY <1>1, <1>2, <1>3 DEF IInv

LEMMA FailInv ==
  ASSUME IInv, NEW stop, NEW marked, NEW ran, Fail(stop, marked, ran) PROVE IInv'
<1> USE DEF Fail, Ended, agent, handed
<1>1. TypeOK'
  BY DEF IInv, TypeOK
<1>2. (TrailInv /\ CallsInv /\ TalkInv /\ BilledInv)'
  BY DEF IInv, TrailInv, InTurn, CallsInv, TalkInv, Says, BilledInv
<1> QED BY <1>1, <1>2 DEF IInv

LEMMA AnswerInv ==
  ASSUME IInv, NEW stop, NEW marked, NEW ran, NEW text \in {"words", "none"},
         Answer(stop, marked, ran, text)
  PROVE  IInv'
<1> USE DEF Answer, Ended, UsageOf
<1> DEFINE reply == [turn |-> turn, attempt |-> attempt, text |-> text]
<1>1. turn \in 1..MaxTurns /\ reply \in Replies /\ reply.turn = turn
  BY DEF IInv, TypeOK, TalkInv, Replies
<1>2. /\ meant' \in Seq(Replies) /\ Len(meant') = Len(meant) + 1 /\ meant'[Len(meant) + 1] = reply
      /\ \A j \in 1..Len(meant) : meant'[j] = meant[j]
  <2> HIDE DEF reply
  <2>1. meant' = Append(meant, reply) /\ meant \in Seq(Replies)
    BY DEF IInv, TypeOK, reply
  <2> QED BY <1>1, <2>1, Appended
<1>3. Len(meant) = turn - 1 /\ Len(heard) = turn - 1 /\ used + 1 = billed + attempt
  BY DEF IInv, TalkInv, Says, BilledInv
<1>4. ASSUME NEW i \in 1..Len(meant') PROVE meant'[i].turn = i
  <2> HIDE DEF reply, Answer, Ended
  <2>1. CASE i \in 1..Len(meant)
    <3>1. meant[i].turn = i /\ meant'[i] = meant[i]
      BY <1>2, <2>1 DEF IInv, TalkInv
    <3> QED BY <3>1
  <2>2. CASE i = Len(meant) + 1
    <3>1. meant'[i] = reply /\ i = turn
      BY <1>1, <1>2, <1>3, <2>2
    <3> QED BY <1>1, <3>1
  <2>3. Len(meant) \in Nat /\ Len(meant') = Len(meant) + 1
    BY <1>2 DEF IInv, TypeOK
  <2> QED BY <2>1, <2>2, <2>3
<1>5. CASE calls = <<>>
  <2>1. /\ heard' \in Seq(Replies) /\ Len(heard') = Len(heard) + 1 /\ heard'[Len(heard) + 1] = reply
        /\ \A j \in 1..Len(heard) : heard'[j] = heard[j]
    <3> HIDE DEF reply
    <3>1. heard' = Append(heard, reply) /\ heard \in Seq(Replies)
      BY <1>5 DEF IInv, TypeOK, reply
    <3> QED BY <1>1, <3>1, Appended
  <2>2. TypeOK'
    BY <1>1, <1>2, <1>5, <2>1 DEF IInv, TypeOK
  <2>3. (TrailInv /\ CallsInv)'
    BY <1>5 DEF IInv, TrailInv, InTurn, CallsInv
  <2>4. TalkInv'
    <3> HIDE DEF reply
    <3>1. ASSUME NEW i \in 1..Len(heard') PROVE Says(i)'
      <4>1. CASE i \in 1..Len(heard)
        BY <1>2, <1>3, <2>1, <4>1 DEF IInv, TypeOK, TalkInv, Says
      <4>2. CASE i = Len(heard) + 1
        BY <1>2, <1>3, <2>1, <4>2 DEF Says
      <4> QED BY <4>1, <4>2, <2>1 DEF IInv, TypeOK
    <3> QED BY <1>1, <1>2, <1>3, <1>4, <1>5, <2>1, <3>1 DEF IInv, TypeOK, TalkInv
  <2>5. BilledInv'
    BY <1>3, <1>5 DEF IInv, TypeOK, BilledInv
  <2> QED BY <2>2, <2>3, <2>4, <2>5 DEF IInv
<1>6. CASE calls # <<>>
  <2>1. pending' \in Seq(Replies) /\ Len(pending') = 1 /\ pending'[1] = reply
    <3> HIDE DEF reply
    <3>1. pending' = <<reply>>
      BY <1>6 DEF reply
    <3> QED BY <1>1, <3>1
  <2>2. TypeOK'
    BY <1>1, <1>2, <1>6, <2>1 DEF IInv, TypeOK
  <2>3. TrailInv'
    BY <1>6 DEF IInv, TypeOK, TrailInv, InTurn, CallsInv
  <2>4. CallsInv'
    BY <1>6 DEF IInv, CallsInv
  <2>5. TalkInv'
    <3> HIDE DEF reply
    <3>1. ASSUME NEW i \in 1..Len(heard') PROVE Says(i)'
      BY <1>2, <1>3, <1>6 DEF IInv, TypeOK, TalkInv, Says
    <3> QED BY <1>1, <1>2, <1>3, <1>4, <1>6, <2>1, <3>1 DEF IInv, TypeOK, TalkInv
  <2>6. BilledInv'
    BY <1>3, <1>6 DEF IInv, TypeOK, BilledInv
  <2> QED BY <2>2, <2>3, <2>4, <2>5, <2>6 DEF IInv
<1> QED BY <1>5, <1>6

LEMMA ReleaseInv == ASSUME IInv, Release PROVE IInv'
<1> USE DEF Release, agent, handed
<1> DEFINE reply == Released(Head(pending))
<1>1. turn \in 1..MaxTurns /\ Len(heard) = turn - 1 /\ Len(meant) = turn
      /\ Head(pending) = meant[turn] /\ meant[turn] \in Replies
  BY DEF IInv, TypeOK, TalkInv
<1>2. /\ reply \in Replies
      /\ reply = meant[turn] \/ (meant[turn].text = "none" /\ reply = [meant[turn] EXCEPT !.text = "filler"])
  BY <1>1 DEF Released, Replies
<1> HIDE DEF reply
<1>3. /\ heard' \in Seq(Replies) /\ Len(heard') = Len(heard) + 1 /\ heard'[Len(heard) + 1] = reply
      /\ \A j \in 1..Len(heard) : heard'[j] = heard[j]
  <2>1. heard' = Append(heard, reply) /\ heard \in Seq(Replies)
    BY DEF IInv, TypeOK, reply
  <2> QED BY <1>2, <2>1, Appended
<1>4. TypeOK'
  BY <1>3 DEF IInv, TypeOK
<1>5. (TrailInv /\ BilledInv)'
  BY DEF IInv, TypeOK, TrailInv, InTurn, BilledInv
<1>6. CallsInv'
  <2>1. applied = made
    BY SameList DEF IInv, TypeOK, CallsInv
  <2> QED BY <2>1 DEF IInv, CallsInv
<1>7. TalkInv'
  <2>1. ASSUME NEW i \in 1..Len(heard') PROVE Says(i)'
    <3>1. CASE i \in 1..Len(heard)
      BY <1>3, <3>1 DEF IInv, TypeOK, TalkInv, Says
    <3>2. CASE i = Len(heard) + 1
      <4>1. i = turn /\ heard'[i] = reply /\ meant' = meant
        BY <1>1, <1>3, <3>2
      <4> QED BY <1>2, <4>1 DEF Says
    <3> QED BY <3>1, <3>2, <1>3 DEF IInv, TypeOK
  <2> QED BY <1>1, <1>3, <2>1 DEF IInv, TypeOK, TalkInv
<1> QED BY <1>4, <1>5, <1>6, <1>7 DEF IInv

LEMMA NextInv == IInv /\ [Next]_vars => IInv'
<1> SUFFICES ASSUME IInv, [Next]_vars PROVE IInv'
  OBVIOUS
<1>1. CASE UNCHANGED vars
  BY <1>1 DEF vars, agent, handed, talk, IInv, TypeOK, TrailInv, InTurn, CallsInv, TalkInv, Says, BilledInv
<1>2. ASSUME NEW d \in Dbs, CustomerWrites(d) \/ CellChanges(d) PROVE IInv'
  BY <1>2, CustomerWritesInv, CellChangesInv
<1>3. ASSUME NEW c \in Calls, Call(c) PROVE IInv'
  BY <1>3, CallInv
<1>4. CASE CustomerSpeaks
  BY <1>4, CustomerSpeaksInv
<1>5. CASE BeginTurn
  BY <1>5, BeginTurnInv
<1>6. CASE Replay
  BY <1>6, ReplayInv
<1>7. CASE Release
  BY <1>7, ReleaseInv
<1>8. ASSUME NEW marked \in BOOLEAN, NEW ran \in BOOLEAN, AskAgain(marked, ran) PROVE IInv'
  BY <1>8, AskAgainInv
<1>9. ASSUME NEW marked \in BOOLEAN, NEW ran \in BOOLEAN, NEW stop \in Stops, Fail(stop, marked, ran)
      PROVE  IInv'
  BY <1>9, FailInv
<1>10. ASSUME NEW marked \in BOOLEAN, NEW ran \in BOOLEAN, NEW stop \in Stops,
              NEW text \in {"words", "none"}, Answer(stop, marked, ran, text)
       PROVE  IInv'
  BY <1>10, AnswerInv
<1> QED BY <1>1, <1>2, <1>3, <1>4, <1>5, <1>6, <1>7, <1>8, <1>9, <1>10 DEF Next

THEOREM Invariant == Spec => []IInv
<1>1. Init => IInv
  BY InitInv
<1>2. IInv /\ [Next]_vars => IInv'
  BY NextInv
<1> QED BY <1>1, <1>2, PTL DEF Spec

---------------------------------------------------------------------------
\* For every domain the state is well formed: of the calls handed over and those
\* replayed, and of the one reply held back (generate_next_message).
THEOREM TypeCorrect == Spec => []TypeOK
<1>1. IInv => TypeOK
  BY DEF IInv
<1> QED BY <1>1, Invariant, PTL

\* For every domain: before the customer speaks the environment has had the turn's
\* calls, those and no others, in the order they were made; each message has one
\* answer, the last thing said to it; and the usage of every run is on one message
\* (ToolCallRecorder, pending_reply, _total_usage).
THEOREM TurnsAreHandedOver == Spec => []TurnIsHandedOver
<1>1. IInv => AppliedAsMade
  BY DEF IInv, CallsInv, AppliedAsMade
<1>2. IInv => CopyIsTrue
  BY DEF IInv, TrailInv, CopyIsTrue, Last
<1>3. IInv => HearsWhatWasSaid
  BY DEF IInv, TypeOK, TalkInv, Says, HearsWhatWasSaid
<1>4. IInv => BilledOnce
  BY DEF IInv, BilledInv, BilledOnce
<1>5. IInv => TurnIsHandedOver
  BY <1>1, <1>2, <1>3, <1>4 DEF IInv, TurnIsHandedOver
<1> QED BY <1>5, Invariant, PTL

---------------------------------------------------------------------------
(* The refinement. *)

DirectStep == [Direct!Next]_(Direct!vars)

LEMMA InitDirect == ASSUME Init PROVE Direct!Init
  BY DEF Init, Direct!Init, InTurn

LEMMA NextDirect ==
  ASSUME IInv, [Next]_vars
  PROVE  DirectStep
<1> USE DEF Direct!Next, DirectStep, Direct!vars, InTurn
<1>1. CASE UNCHANGED vars
  BY <1>1 DEF vars, agent
<1>2. ASSUME NEW d \in Dbs, CustomerWrites(d) PROVE Direct!CustomerWrites(d)
  BY <1>2 DEF CustomerWrites, Direct!CustomerWrites, agent
<1>3. ASSUME NEW d \in Dbs, CellChanges(d) PROVE DirectStep
  BY <1>3 DEF CellChanges
<1>4. ASSUME NEW c \in Calls, Call(c) PROVE Direct!Call(c)
  <2> DEFINE next == Apply[c][Last(trail)]
  <2>1. trail \in Seq(Dbs) /\ trail # <<>> /\ Last(trail) \in Dbs
    BY DEF IInv, TypeOK, Last
  <2>2. trail' = Append(trail, next) /\ next \in Dbs
    BY <1>4, <2>1, Applied DEF Call
  <2>3. trail'[1] = trail[1] /\ Last(trail') = next
    <3> HIDE DEF next
    <3> QED BY <2>1, <2>2, Appended DEF Last
  <2> QED BY <1>4, <2>3 DEF Call, Direct!Call
<1>5. CASE CustomerSpeaks
  BY <1>5 DEF CustomerSpeaks, agent
<1>6. CASE BeginTurn
  BY <1>6 DEF BeginTurn, Synced, Direct!BeginTurn, Last
<1>7. CASE Replay
  BY <1>7 DEF Replay, agent
<1>8. CASE Release
  <2>1. live = Last(trail)
    BY <1>8 DEF Release, IInv, TypeOK, TrailInv, CallsInv, Last
  <2> QED BY <1>8, <2>1 DEF Release, agent, Direct!Answer
<1>9. ASSUME NEW marked \in BOOLEAN, NEW ran \in BOOLEAN, AskAgain(marked, ran) PROVE DirectStep
  BY <1>9 DEF AskAgain, Ended
<1>10. ASSUME NEW marked \in BOOLEAN, NEW ran \in BOOLEAN, NEW stop \in Stops, Fail(stop, marked, ran)
       PROVE  Direct!Fail
  BY <1>10 DEF Fail, Ended, agent, IInv, TrailInv, Direct!Fail
<1>11. ASSUME NEW marked \in BOOLEAN, NEW ran \in BOOLEAN, NEW stop \in Stops,
              NEW text \in {"words", "none"}, Answer(stop, marked, ran, text)
       PROVE  DirectStep
  <2>1. CASE calls = <<>>
    <3>1. live = Last(trail)
      BY <1>11, <2>1 DEF Answer, Ended, IInv, TypeOK, TrailInv, CallsInv, Last
    <3> QED BY <1>11, <2>1, <3>1 DEF Answer, Ended, Direct!Answer
  <2>2. CASE calls # <<>>
    BY <1>11, <2>2 DEF Answer, Ended
  <2> QED BY <2>1, <2>2
<1> QED BY <1>1, <1>2, <1>3, <1>4, <1>5, <1>6, <1>7, <1>8, <1>9, <1>10, <1>11 DEF Next

\* For every domain, any number of turns and whatever the turns' code changes behind the
\* tools: the bridge acts on the environment as an agent that has the database itself
\* (Tau2CaveAgent).
THEOREM BridgeIsDirect == Spec => ImplementsDirect
<1>1. Init => Direct!Init
  BY InitDirect
<1>2. IInv /\ [Next]_vars => DirectStep
  BY NextDirect
<1> QED BY <1>1, <1>2, Invariant, PTL DEF Spec, ImplementsDirect, Direct!Spec, DirectStep
=============================================================================
