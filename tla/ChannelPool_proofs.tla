------------------------- MODULE ChannelPool_proofs -------------------------
(***************************************************************************)
(* Theorems about ChannelPool, for every list of cases, any number of      *)
(* repeats, slots, attempts and crashes, and however the endpoint behaves. *)
(***************************************************************************)
EXTENDS ChannelPool, SequenceTheorems, FiniteSetTheorems, TLAPS

\* Where the driver may be with something in its pool: what every step leaves
\* behind that the next one relies on.
Shape ==
  /\ InPass \/ pc = "survey" => wanted <= Repeats
  /\ pc \in {"pass", "survey"} => running = Empty
  /\ pc = "pass" => pending = <<>>
  /\ batch \subseteq Busy
  /\ pc # "drain" => batch = {}

TypeInv == TypeOK /\ Shape

-----------------------------------------------------------------------------
(* Queues. *)

\* Putting one element before a sequence moves every other one place on.
LEMMA Cons ==
  ASSUME NEW S, NEW e \in S, NEW q \in Seq(S)
  PROVE  /\ <<e>> \o q \in Seq(S)
         /\ DOMAIN (<<e>> \o q) = 1..(Len(q) + 1)
         /\ (<<e>> \o q)[1] = e
         /\ \A i \in DOMAIN q : (<<e>> \o q)[i + 1] = q[i]
         /\ \A i \in DOMAIN (<<e>> \o q) :
              i # 1 => i - 1 \in DOMAIN q /\ (<<e>> \o q)[i] = q[i - 1]
<1> DEFINE r == <<e>> \o q
<1>1. <<e>> \in Seq(S) /\ Len(<<e>>) = 1 /\ <<e>>[1] = e
  OBVIOUS
<1>2. Len(q) \in Nat /\ DOMAIN q = 1..Len(q)
  BY LenProperties
<1>3. /\ r \in Seq(S)
      /\ Len(r) = 1 + Len(q)
      /\ \A i \in 1..(1 + Len(q)) :
           r[i] = IF i <= 1 THEN <<e>>[i] ELSE q[i - 1]
  BY <1>1, <1>2, ConcatProperties
<1>4. DOMAIN r = 1..(Len(q) + 1)
  BY <1>2, <1>3, LenProperties
<1>5. r[1] = e
  BY <1>1, <1>2, <1>3
<1>6. \A i \in DOMAIN q : r[i + 1] = q[i]
  BY <1>2, <1>3
<1>7. \A i \in DOMAIN r : i # 1 => i - 1 \in DOMAIN q /\ r[i] = q[i - 1]
  BY <1>2, <1>3, <1>4
<1> QED
  BY <1>3, <1>4, <1>5, <1>6, <1>7

\* Appending keeps every element where it was.
LEMMA Snoc ==
  ASSUME NEW S, NEW e \in S, NEW q \in Seq(S)
  PROVE  /\ Append(q, e) \in Seq(S)
         /\ DOMAIN Append(q, e) = 1..(Len(q) + 1)
         /\ Append(q, e)[Len(q) + 1] = e
         /\ \A i \in DOMAIN q : Append(q, e)[i] = q[i]
         /\ \A i \in DOMAIN Append(q, e) :
              i # Len(q) + 1 => i \in DOMAIN q /\ Append(q, e)[i] = q[i]
<1>1. Len(q) \in Nat /\ DOMAIN q = 1..Len(q)
  BY LenProperties
<1>2. /\ Append(q, e) \in Seq(S)
      /\ Len(Append(q, e)) = Len(q) + 1
      /\ \A i \in 1..Len(q) : Append(q, e)[i] = q[i]
      /\ Append(q, e)[Len(q) + 1] = e
  BY AppendProperties
<1>3. DOMAIN Append(q, e) = 1..(Len(q) + 1)
  BY <1>1, <1>2, LenProperties
<1> QED
  BY <1>1, <1>2, <1>3

\* Taking the head off moves every other element one place down.
LEMMA Uncons ==
  ASSUME NEW S, NEW q \in Seq(S), q # <<>>
  PROVE  /\ Head(q) \in S /\ Head(q) = q[1] /\ 1 \in DOMAIN q
         /\ Tail(q) \in Seq(S)
         /\ \A i \in DOMAIN Tail(q) : i + 1 \in DOMAIN q /\ i + 1 # 1 /\ Tail(q)[i] = q[i + 1]
         /\ \A i \in DOMAIN q : i # 1 => i - 1 \in DOMAIN Tail(q) /\ Tail(q)[i - 1] = q[i]
<1>1. Len(q) \in Nat \ {0} /\ DOMAIN q = 1..Len(q)
  BY LenProperties, EmptySeq
<1>2. /\ Head(q) \in S /\ Tail(q) \in Seq(S)
      /\ Len(Tail(q)) = Len(q) - 1
      /\ \A i \in 1..Len(Tail(q)) : Tail(q)[i] = q[i + 1]
  BY HeadTailProperties
<1>3. DOMAIN Tail(q) = 1..(Len(q) - 1)
  BY <1>2, LenProperties
<1>4. Head(q) = q[1]
  BY <1>1
<1> QED
  BY <1>1, <1>2, <1>3, <1>4

-----------------------------------------------------------------------------
(* The type invariant. *)

USE DEF Entry, Texts

\* A run in the pool is a task, with a case and a count of attempts.
LEMMA BusyTask ==
  ASSUME TypeOK, NEW s \in Busy
  PROVE  /\ s \in Slots
         /\ running[s] \in Task
         /\ running[s].case \in Cases
         /\ running[s].attempts \in Nat
         /\ EntryOf(running[s]) \in Entry
         /\ Retried(running[s]) \in Entry
<1>1. s \in Slots /\ running[s] \in Task
  BY DEF TypeOK, Busy
<1>2. /\ running[s].case \in Cases /\ running[s].attempts \in Nat
  BY <1>1 DEF Task
<1>3. EntryOf(running[s]) \in Entry
  BY <1>2 DEF EntryOf
<1>4. Retried(running[s]) = [case |-> running[s].case, attempts |-> running[s].attempts + 1]
  BY DEF EntryOf, Retried
<1>5. Retried(running[s]) \in Entry
  BY <1>2, <1>4
<1> QED
  BY <1>1, <1>2, <1>3, <1>5

\* The summary stays a record of three counts.
LEMMA CountedTotals ==
  ASSUME TypeOK, NEW t
  PROVE  CountedRun(t) \in [run: Nat, passed: Nat, abandoned: Nat]
<1>1. totals.run \in Nat /\ totals.passed \in Nat /\ totals.abandoned \in Nat
  BY DEF TypeOK
<1> QED
  BY <1>1 DEF CountedRun

LEMMA AbandonedTotals ==
  ASSUME TypeOK
  PROVE  ReportedAbandoned \in [run: Nat, passed: Nat, abandoned: Nat]
<1>1. totals.run \in Nat /\ totals.passed \in Nat /\ totals.abandoned \in Nat
  BY DEF TypeOK
<1>2. totals.abandoned + 1 \in Nat
  BY <1>1
<1> DEFINE n == totals.abandoned + 1
<1> HIDE DEF n
<1>3. [totals EXCEPT !.abandoned = n] \in [run: Nat, passed: Nat, abandoned: Nat]
  BY <1>2 DEF TypeOK, n
<1> QED
  BY <1>3 DEF ReportedAbandoned, n

LEMMA InitType == Init => TypeInv
<1> SUFFICES ASSUME Init PROVE TypeInv
  OBVIOUS
<1>1. running \in [Slots -> Task \cup {None}] /\ pending \in Seq(Entry)
  BY DEF Init, Empty
<1>2. TypeOK
  BY <1>1, CountsAssumption, CaseListAssumption, LenProperties
  DEF Init, TypeOK, PCs, NoTotals
<1> QED
  BY <1>2 DEF TypeInv, Shape, Init, InPass, Stopped, Empty

LEMMA StepType == TypeInv /\ [Next]_vars => TypeInv'
<1> SUFFICES ASSUME TypeInv, [Next]_vars PROVE TypeInv'
  OBVIOUS
<1> USE DEF TypeInv, PCs, Stopped, InPass
<1>1. CASE BeginPass
  BY <1>1 DEF BeginPass, TypeOK, Shape, LastPass, pool, world, Busy
<1>2. CASE Survey
  <2>1. looked + 1 \in 1..Len(CaseList) /\ CaseList[looked + 1] \in Cases
    BY <1>2, CaseListAssumption, LenProperties, SMTT(30) DEF Survey, TypeOK, Cases
  <2>2. pending' \in Seq(Entry)
    BY <1>2, <2>1, Snoc DEF Survey, TypeOK
  <2> QED
    BY <1>2, <2>1, <2>2, SMTT(30) DEF Survey, TypeOK, Shape, Busy, history, world
<1>3. CASE SurveyEnds
  BY <1>3 DEF SurveyEnds, TypeOK, Shape, Busy, pass, pool, world, history
<1>4. CASE FinishStudy
  BY <1>4 DEF FinishStudy, TypeOK, Shape, Busy, pass, pool, world, history
<1>5. CASE Wait
  BY <1>5 DEF Wait, TypeOK, Shape, Busy, pass, pool, world, history
<1>6. CASE EndPass
  BY <1>6, CountsAssumption DEF EndPass, TypeOK, Shape, Busy, Empty, pool, world, history
<1>7. CASE Wake
  BY <1>7 DEF Wake, TypeOK, Shape, Busy, Finished, pass, world, history
<1>8. CASE DrainEnds
  BY <1>8 DEF DrainEnds, TypeOK, Shape, Busy, pass, pool, world, history
<1>9. CASE Requeued
  BY <1>9 DEF Requeued, TypeOK, Shape, Busy, pass, pool, world, history
<1>10. CASE Answered
  BY <1>10 DEF Answered, TypeOK, Shape, Busy, pass, pool, world, history
<1>11. CASE GiveUp
  BY <1>11 DEF GiveUp, TypeOK, Shape, Busy, pass, pool, world, history
<1>12. ASSUME NEW s \in Slots, Start(s) PROVE TypeInv'
  <2>1. Head(pending) \in Entry /\ pending' \in Seq(Entry)
    BY <1>12, Uncons DEF Start, TypeOK
  <2>2. Started(Head(pending)) \in Task
    BY <2>1 DEF Started, Task
  <2>3. running' \in [Slots -> Task \cup {None}]
    BY <1>12, <2>2 DEF Start, TypeOK
  <2> QED
    BY <1>12, <2>1, <2>3 DEF Start, TypeOK, Shape, Busy, Idle, pass, world, history
<1>13. ASSUME NEW s \in Slots, Count(s) PROVE TypeInv'
  <2>1. s \in Busy /\ running[s] \in Task
    BY <1>13, BusyTask DEF Count, Pop, Shape
  <2>2. totals' \in [run: Nat, passed: Nat, abandoned: Nat]
    BY <1>13, CountedTotals DEF Count, TypeOK
  <2>3. running' \in [Slots -> Task \cup {None}]
    BY <1>13 DEF Count, Pop, PoppedFrom, TypeOK
  <2> QED
    BY <1>13, <2>2, <2>3 DEF Count, Pop, PoppedFrom, TypeOK, Shape, Busy, pass, world, history
<1>14. ASSUME NEW s \in Slots, Retry(s) PROVE TypeInv'
  <2>1. s \in Busy /\ Retried(running[s]) \in Entry
    BY <1>14, BusyTask DEF Retry, Pop, Shape
  <2>2. pending' \in Seq(Entry)
    BY <1>14, <2>1, Snoc DEF Retry, PutBehind, TypeOK
  <2>3. running' \in [Slots -> Task \cup {None}]
    BY <1>14 DEF Retry, Pop, PoppedFrom, TypeOK
  <2> QED
    BY <1>14, <2>2, <2>3 DEF Retry, Pop, PoppedFrom, TypeOK, Shape, Busy, pass, world, history
<1>15. ASSUME NEW s \in Slots, Abandon(s) PROVE TypeInv'
  <2>1. totals' \in [run: Nat, passed: Nat, abandoned: Nat]
    BY <1>15, AbandonedTotals DEF Abandon, TypeOK
  <2>2. running' \in [Slots -> Task \cup {None}]
    BY <1>15 DEF Abandon, Pop, PoppedFrom, TypeOK
  <2> QED
    BY <1>15, <2>1, <2>2 DEF Abandon, Pop, PoppedFrom, TypeOK, Shape, Busy, pass, world, history
<1>16. ASSUME NEW s \in Slots, Refused(s) PROVE TypeInv'
  <2>1. s \in Busy /\ EntryOf(running[s]) \in Entry
    BY <1>16, BusyTask DEF Refused, Shape
  <2>2. pending' \in Seq(Entry)
    BY <1>16, <2>1, Cons DEF Refused, PutBack, TypeOK
  <2>3. running' \in [Slots -> Task \cup {None}]
    BY <1>16 DEF Refused, PoppedFrom, TypeOK
  <2> QED
    BY <1>16, <2>2, <2>3 DEF Refused, TypeOK, Shape, Busy, pass, world, history
<1>17. ASSUME NEW s \in Slots, Requeue(s) PROVE TypeInv'
  <2>1. s \in Busy /\ EntryOf(running[s]) \in Entry
    BY <1>17, BusyTask DEF Requeue, Unfinished, Active
  <2>2. pending' \in Seq(Entry)
    BY <1>17, <2>1, Cons DEF Requeue, PutBack, TypeOK
  <2>3. running' \in [Slots -> Task \cup {None}]
    BY <1>17 DEF Requeue, PoppedFrom, TypeOK
  <2> QED
    BY <1>17, <2>2, <2>3 DEF Requeue, TypeOK, Shape, Busy, pass, world, history
<1>18. ASSUME NEW s \in Slots, Abort(s) PROVE TypeInv'
  BY <1>18 DEF Abort, Empty, TypeOK, Shape, Busy, pass, world, history
<1>19. ASSUME NEW s \in Slots, NEW verdict \in {"passed", "failed"}, Store(s, verdict)
       PROVE TypeInv'
  <2>1. s \in Busy /\ running[s] \in Task /\ running[s].case \in Cases
    BY <1>19, BusyTask DEF Store, Active
  <2>2. stored' \in [Cases -> Nat]
    <3>1. stored \in [Cases -> Nat]
      BY DEF TypeInv, TypeOK
    <3>2. stored' = [stored EXCEPT ![running[s].case] = @ + 1]
      BY <1>19 DEF Store
    <3>3. stored[running[s].case] + 1 \in Nat
      BY <2>1, <3>1
    <3> QED BY <2>1, <3>1, <3>2, <3>3
  <2>3. [running[s] EXCEPT !.out = verdict] \in Task
    BY <2>1 DEF Task
  <2>4. running' \in [Slots -> Task \cup {None}]
    BY <1>19, <2>3 DEF Store, TypeOK
  <2> QED
    BY <1>19, <2>2, <2>4 DEF Store, TypeOK, Shape, Busy, pass, world, history
<1>20. ASSUME NEW s \in Slots, NEW cause \in {"own", "outage"}, NEW text \in Texts,
              Fail(s, cause, text)
       PROVE TypeInv'
  <2>1. s \in Busy /\ running[s] \in Task /\ running[s].case \in Cases
    BY <1>20, BusyTask DEF Fail, Active
  <2>2. failures' \in [Cases -> Nat]
    BY <1>20, <2>1, SMTT(30) DEF Fail, TypeOK
  <2>3. [running[s] EXCEPT !.out = "infra", !.cause = cause, !.text = text] \in Task
    BY <2>1 DEF Task
  <2>4. running' \in [Slots -> Task \cup {None}]
    BY <1>20, <2>3 DEF Fail, TypeOK
  <2> QED
    BY <1>20, <2>2, <2>4 DEF Fail, TypeOK, Shape, Busy, pass, world
<1>21. ASSUME NEW s \in Slots, RaiseError(s) PROVE TypeInv'
  <2>1. s \in Busy /\ running[s] \in Task
    BY <1>21, BusyTask DEF RaiseError, Active
  <2>2. [running[s] EXCEPT !.out = "raised"] \in Task
    BY <2>1 DEF Task
  <2>3. running' \in [Slots -> Task \cup {None}]
    BY <1>21, <2>2 DEF RaiseError, TypeOK
  <2> QED
    BY <1>21, <2>3 DEF RaiseError, TypeOK, Shape, Busy, pass, world, history
<1>22. CASE EndpointChanges
  <2>1. up' \in BOOLEAN /\ answers' \in BOOLEAN
    BY <1>22, Zenon DEF EndpointChanges
  <2> QED
    BY <1>22, <2>1 DEF EndpointChanges, TypeOK, Shape, Busy, pass, pool, history
<1>23. CASE Kill
  BY <1>23, EmptySeq, SMTT(30) DEF Kill, Empty, TypeOK, Shape, Busy, pass, history
<1>24. CASE Restart
  BY <1>24, EmptySeq, CountsAssumption, CaseListAssumption, LenProperties
  DEF Restart, Empty, NoTotals, TypeOK, Shape, Busy, world
<1>25. CASE UNCHANGED vars
  BY <1>25 DEF vars, TypeOK, Shape, Busy
<1> QED
  BY <1>1, <1>2, <1>3, <1>4, <1>5, <1>6, <1>7, <1>8, <1>9, <1>10, <1>11, <1>12, <1>13,
     <1>14, <1>15, <1>16, <1>17, <1>18, <1>19, <1>20, <1>21, <1>22, <1>23, <1>24,
     <1>25
  DEF Next, Driver, Run, Complete

\* The state of the pool is well formed in every reachable state: run_channel
\* never holds anything but cases of the study and counts.
THEOREM TypeCorrect == Spec => []TypeOK
<1>1. TypeInv => TypeOK
  BY DEF TypeInv
<1> QED
  BY <1>1, InitType, StepType, PTL DEF Spec

-----------------------------------------------------------------------------
(* The pool's invariant: what is queued and in flight, and what it carries. *)

\* The survey has queued only cases it has looked at, and counted no failure.
SurveyInv ==
  pc = "survey" =>
    /\ \A i \in DOMAIN pending : \E j \in 1..looked : pending[i].case = CaseList[j]
    /\ \A c \in Cases : failures[c] = 0
    /\ stored = passStart

PoolInv == NoCaseTwice /\ OwedWork /\ AttemptsCounted /\ SurveyInv

Inv == TypeInv /\ PoolInv /\ NeverPastRepeats

\* What a step does to the slots: empties one, fills an idle one, or changes the
\* outcome of a busy one.
LEMMA PopFacts ==
  ASSUME TypeOK, NEW s \in Busy, running' = PoppedFrom(s)
  PROVE  /\ Busy' = Busy \ {s}
         /\ \A t \in Busy' : t \in Busy /\ t # s /\ running'[t] = running[t]
BY DEF TypeOK, Busy, PoppedFrom

LEMMA FillFacts ==
  ASSUME TypeOK, NEW s \in Idle, NEW k \in Task, running' = [running EXCEPT ![s] = k]
  PROVE  /\ Busy' = Busy \cup {s}
         /\ running'[s] = k
         /\ \A t \in Busy' : t # s => t \in Busy /\ running'[t] = running[t]
BY NoneAssumption DEF TypeOK, Busy, Idle

LEMMA OutcomeFacts ==
  ASSUME TypeOK, NEW s \in Busy, NEW k \in Task, running' = [running EXCEPT ![s] = k]
  PROVE  /\ Busy' = Busy
         /\ running'[s] = k
         /\ \A t \in Busy' : t # s => running'[t] = running[t]
BY NoneAssumption DEF TypeOK, Busy

LEMMA QueueTyped ==
  ASSUME TypeOK, NEW i \in DOMAIN pending
  PROVE  pending[i] \in Entry /\ pending[i].case \in Cases /\ pending[i].attempts \in Nat
<1>1. pending \in Seq(Entry)
  BY DEF TypeOK
<1>2. i \in 1..Len(pending)
  BY <1>1, LenProperties
<1>3. pending[i] \in Entry
  BY <1>1, <1>2, ElementOfSeq
<1> QED
  BY <1>3

LEMMA InitInv == Init => Inv
<1> SUFFICES ASSUME Init PROVE Inv
  OBVIOUS
<1>1. Busy = {} /\ DOMAIN pending = {}
  BY DEF Init, Busy, Empty
<1>2. PoolInv
  BY <1>1 DEF Init, PoolInv, NoCaseTwice, QueueUnique, FlightUnique, QueueFlightDisjoint,
              OwedWork, StillShort, AttemptsCounted, SurveyInv
<1> QED
  BY <1>2, InitType DEF Inv, Init, NeverPastRepeats

\* A step that leaves the pool alone, and counts and files alone, keeps it.
LEMMA FrameKeeps ==
  ASSUME PoolInv, NeverPastRepeats, pc' # "survey",
         UNCHANGED <<pending, running, stored, wanted, failures, passStart, atStart>>
  PROVE  PoolInv' /\ NeverPastRepeats'
<1>1. Busy' = Busy
  BY DEF Busy
<1>2. NoCaseTwice'
  BY <1>1 DEF PoolInv, NoCaseTwice, QueueUnique, FlightUnique, QueueFlightDisjoint
<1>3. OwedWork' /\ AttemptsCounted'
  BY <1>1 DEF PoolInv, OwedWork, StillShort, AttemptsCounted, Unstored, Counted, FailedItself,
              ConnectionRefused
<1> QED
  BY <1>2, <1>3 DEF PoolInv, SurveyInv, NeverPastRepeats

\* An empty pool keeps it whatever the counts.
LEMMA EmptyKeeps ==
  ASSUME Busy' = {}, pending' = <<>>,
         pc' = "survey" => stored' = passStart' /\ \A c \in Cases : failures'[c] = 0
  PROVE  PoolInv'
BY DEF PoolInv, NoCaseTwice, QueueUnique, FlightUnique, QueueFlightDisjoint,
       OwedWork, StillShort, AttemptsCounted, SurveyInv

\* A run put back, before the others or behind them, that had stored nothing.
LEMMA PutBackKeeps ==
  ASSUME TypeOK, PoolInv, NeverPastRepeats, pc # "survey", pc' # "survey",
         NEW s \in Busy, Unstored(s), ~FailedItself(running[s]),
         running' = PoppedFrom(s), pending' = PutBack(running[s]),
         UNCHANGED <<stored, wanted, failures, passStart, atStart>>
  PROVE  PoolInv' /\ NeverPastRepeats'
<1> DEFINE e == EntryOf(running[s])
<1>1. /\ Busy' = Busy \ {s}
      /\ \A t \in Busy' : t \in Busy /\ t # s /\ running'[t] = running[t]
  BY PopFacts
<1>2. e \in Entry /\ pending \in Seq(Entry)
  BY BusyTask DEF TypeOK
<1>3. e.case = running[s].case /\ e.attempts = running[s].attempts
  BY DEF EntryOf
<1> HIDE DEF e
<1>4. pending' = <<e>> \o pending
  BY DEF PutBack, e
<1>5. /\ pending'[1] = e
      /\ \A i \in DOMAIN pending' :
           i # 1 => i - 1 \in DOMAIN pending /\ pending'[i] = pending[i - 1]
      /\ DOMAIN pending' \subseteq Nat
  BY <1>2, <1>4, Cons
<1>6. \A i \in DOMAIN pending' :
        \/ i = 1 /\ pending'[i] = e
        \/ i # 1 /\ i - 1 \in DOMAIN pending /\ pending'[i] = pending[i - 1]
  BY <1>5
<1>7. QueueUnique'
  <2> SUFFICES ASSUME NEW i \in DOMAIN pending', NEW j \in DOMAIN pending',
                      pending'[i].case = pending'[j].case
               PROVE  i = j
    BY DEF QueueUnique
  <2>1. \A k \in DOMAIN pending : pending[k].case # e.case
    BY <1>3 DEF PoolInv, NoCaseTwice, QueueFlightDisjoint
  <2>2. i \in Nat /\ j \in Nat
    BY <1>5
  <2> QED
    BY <1>6, <2>1, <2>2 DEF PoolInv, NoCaseTwice, QueueUnique
<1>8. FlightUnique'
  BY <1>1 DEF PoolInv, NoCaseTwice, FlightUnique
<1>9. QueueFlightDisjoint'
  BY <1>1, <1>3, <1>6 DEF PoolInv, NoCaseTwice, FlightUnique, QueueFlightDisjoint
<1>10. OwedWork'
  BY <1>1, <1>3, <1>6 DEF PoolInv, OwedWork, StillShort, Unstored
<1>11. failures[running[s].case] = running[s].attempts
  BY BusyTask DEF PoolInv, AttemptsCounted, Counted
<1>12. AttemptsCounted'
  BY <1>1, <1>3, <1>6, <1>11
  DEF PoolInv, AttemptsCounted, Counted, FailedItself, ConnectionRefused
<1> QED
  BY <1>7, <1>8, <1>9, <1>10, <1>12
  DEF PoolInv, NoCaseTwice, SurveyInv, NeverPastRepeats

LEMMA StepInv == DistinctCases /\ Inv /\ [Next]_vars => Inv'
<1> SUFFICES ASSUME DistinctCases, Inv, [Next]_vars PROVE Inv'
  OBVIOUS
<1>T. TypeInv'
  BY StepType DEF Inv
<1> SUFFICES PoolInv' /\ NeverPastRepeats'
  BY <1>T DEF Inv
<1>a. TypeOK /\ Shape /\ PoolInv /\ NeverPastRepeats
  BY DEF Inv, TypeInv
<1>1. CASE BeginPass
  <2>1. Busy' = {} /\ pending' = <<>>
    BY <1>1, <1>a DEF BeginPass, Shape, Empty, Busy, pool
  <2>2. \A c \in Cases : failures'[c] = 0
    BY <1>1 DEF BeginPass
  <2> QED
    BY <1>1, <1>a, <2>1, <2>2, EmptyKeeps DEF BeginPass, NeverPastRepeats
<1>2. CASE Survey
  <2> DEFINE c == CaseList[looked + 1]
             e == [case |-> c, attempts |-> 0]
  <2>1. looked \in Nat /\ looked + 1 \in DOMAIN CaseList /\ 1..looked \subseteq DOMAIN CaseList
    <3>1. Len(CaseList) \in Nat /\ DOMAIN CaseList = 1..Len(CaseList)
      BY CaseListAssumption, LenProperties
    <3>2. looked \in 0..Len(CaseList) /\ looked < Len(CaseList)
      BY <1>2, <1>a DEF Survey, TypeOK
    <3> QED
      BY <3>1, <3>2
  <2>2. c \in Cases /\ e \in Entry
    BY <2>1 DEF Cases
  <2>3. Busy = {} /\ Busy' = {}
    BY <1>2, <1>a DEF Survey, Shape, Empty, Busy
  <2>4. \A i \in DOMAIN pending : pending[i].case # c
    BY <1>2, <1>a, <2>1 DEF Survey, PoolInv, SurveyInv, DistinctCases
  <2>5. looked' = looked + 1 /\ pc' = "survey"
    BY <1>2 DEF Survey
  <2>6. CASE ~IsShort(c)
    <3>1. pending' = pending
      BY <1>2, <2>6 DEF Survey
    <3>2. UNCHANGED <<stored, wanted, failures, passStart, atStart>>
      BY <1>2 DEF Survey, history
    <3> HIDE DEF c
    <3>3. NoCaseTwice'
      BY <1>a, <2>3, <3>1
      DEF PoolInv, NoCaseTwice, QueueUnique, FlightUnique, QueueFlightDisjoint
    <3>4. OwedWork' /\ AttemptsCounted'
      BY <1>a, <2>3, <3>1, <3>2 DEF PoolInv, OwedWork, StillShort, AttemptsCounted
    <3>5. 1..looked \subseteq 1..(looked + 1)
      BY <2>1
    <3>6. SurveyInv'
      BY <1>2, <1>a, <2>5, <3>1, <3>2, <3>5 DEF Survey, PoolInv, SurveyInv
    <3> QED
      BY <1>a, <3>2, <3>3, <3>4, <3>6 DEF PoolInv, NeverPastRepeats
  <2>7. CASE IsShort(c)
    <3> HIDE DEF e
    <3>1. pending' = Append(pending, e) /\ pending \in Seq(Entry)
      BY <1>2, <1>a, <2>7 DEF Survey, e, TypeOK
    <3>2. \A i \in DOMAIN pending' :
            \/ i = Len(pending) + 1 /\ pending'[i] = e
            \/ i \in DOMAIN pending /\ pending'[i] = pending[i]
      BY <2>2, <3>1, Snoc
    <3>3. e.case = c /\ e.attempts = 0
      BY DEF e
    <3> HIDE DEF c
    <3>4. QueueUnique'
      BY <1>a, <2>4, <3>2, <3>3 DEF PoolInv, NoCaseTwice, QueueUnique
    <3>5. FlightUnique' /\ QueueFlightDisjoint'
      BY <2>3 DEF FlightUnique, QueueFlightDisjoint
    <3>6. stored[c] < wanted /\ stored = passStart /\ UNCHANGED <<stored, wanted, failures, passStart, atStart>>
      BY <1>2, <1>a, <2>7 DEF IsShort, Survey, history, PoolInv, SurveyInv
    <3>7. OwedWork'
      BY <1>a, <2>3, <3>2, <3>3, <3>6 DEF PoolInv, OwedWork, StillShort
    <3>8. failures[c] = 0 /\ 0 < MaxAttempts
      BY <1>2, <1>a, <2>2, CountsAssumption DEF Survey, PoolInv, SurveyInv
    <3>9. AttemptsCounted'
      BY <1>a, <2>3, <3>2, <3>3, <3>6, <3>8 DEF PoolInv, AttemptsCounted
    <3>10. SurveyInv'
      <4>1. looked + 1 \in 1..(looked + 1) /\ 1..looked \subseteq 1..(looked + 1)
        BY <2>1
      <4>2. \A i \in DOMAIN pending' : \E j \in 1..(looked + 1) : pending'[i].case = CaseList[j]
        BY <1>2, <1>a, <3>2, <3>3, <4>1 DEF Survey, PoolInv, SurveyInv, c
      <4> QED
        BY <1>2, <1>a, <2>5, <3>6, <4>2 DEF Survey, PoolInv, SurveyInv
    <3> QED
      BY <1>a, <3>4, <3>5, <3>6, <3>7, <3>9, <3>10 DEF PoolInv, NoCaseTwice, NeverPastRepeats
  <2> QED
    BY <2>6, <2>7
<1>3. CASE SurveyEnds \/ FinishStudy \/ Wait \/ Wake \/ DrainEnds \/ Requeued \/ Answered \/ GiveUp
  <2>1. pc' # "survey" /\ UNCHANGED <<pending, running, stored, wanted, failures, passStart, atStart>>
    BY <1>3 DEF SurveyEnds, FinishStudy, Wait, Wake, DrainEnds, Requeued, Answered, GiveUp,
                pass, pool, history
  <2> QED
    BY <1>a, <2>1, FrameKeeps
<1>4. CASE EndPass
  <2>1. Busy' = {} /\ pending' = <<>> /\ pc' = "pass"
    BY <1>4 DEF EndPass, Busy, pool
  <2> QED
    BY <1>4, <1>a, <2>1, EmptyKeeps DEF EndPass, NeverPastRepeats, history
<1>5. ASSUME NEW s \in Slots, Start(s) PROVE PoolInv' /\ NeverPastRepeats'
  <2> DEFINE h == Head(pending)
             k == Started(h)
  <2>1. /\ h \in Entry /\ h = pending[1] /\ 1 \in DOMAIN pending
        /\ \A i \in DOMAIN pending' :
             i + 1 \in DOMAIN pending /\ i + 1 # 1 /\ pending'[i] = pending[i + 1]
        /\ DOMAIN pending' \subseteq Nat
    <3>1. pending \in Seq(Entry) /\ pending # <<>> /\ pending' = Tail(pending)
      BY <1>5, <1>a DEF Start, TypeOK
    <3>2. Tail(pending) \in Seq(Entry)
      BY <3>1, Uncons
    <3>3. DOMAIN Tail(pending) \subseteq Nat
      BY <3>2, LenProperties
    <3> QED
      BY <3>1, <3>3, Uncons
  <2>2. /\ k \in Task /\ k.case = h.case /\ k.attempts = h.attempts /\ k.out = "active"
    BY <2>1 DEF Started, Task
  <2> HIDE DEF h, k
  <2>3. s \in Idle /\ running' = [running EXCEPT ![s] = k]
    BY <1>5 DEF Start, k, h
  <2>4. /\ Busy' = Busy \cup {s}
        /\ running'[s] = k
        /\ \A t \in Busy' : t # s => t \in Busy /\ running'[t] = running[t]
    BY <1>a, <2>2, <2>3, FillFacts
  <2>5. /\ pc' = "fill"
        /\ UNCHANGED <<stored, wanted, failures, passStart, atStart>>
    BY <1>5 DEF Start, pass, history
  <2>6. QueueUnique'
    <3> SUFFICES ASSUME NEW i \in DOMAIN pending', NEW j \in DOMAIN pending',
                        pending'[i].case = pending'[j].case
                 PROVE  i = j
      BY DEF QueueUnique
    <3>1. i + 1 = j + 1 /\ i \in Nat /\ j \in Nat
      BY <1>a, <2>1 DEF PoolInv, NoCaseTwice, QueueUnique
    <3> QED
      BY <3>1
  <2>7. FlightUnique'
    BY <1>a, <2>1, <2>2, <2>4 DEF PoolInv, NoCaseTwice, FlightUnique, QueueFlightDisjoint
  <2>8. QueueFlightDisjoint'
    BY <1>a, <2>1, <2>2, <2>4
    DEF PoolInv, NoCaseTwice, QueueUnique, QueueFlightDisjoint
  <2>9. OwedWork'
    BY <1>a, <2>1, <2>2, <2>4, <2>5 DEF PoolInv, OwedWork, StillShort, Unstored
  <2>10. AttemptsCounted'
    <3>1. ~FailedItself(k) /\ failures[k.case] = k.attempts /\ k.attempts < MaxAttempts
      BY <1>a, <2>1, <2>2 DEF PoolInv, AttemptsCounted, FailedItself
    <3>2. Counted(s)' = 0 /\ \A t \in Busy' : t # s => Counted(t)' = Counted(t)
      BY <2>4, <3>1 DEF Counted, FailedItself, ConnectionRefused
    <3>3. k.attempts \in Nat
      BY <2>2 DEF Task
    <3> QED
      BY <1>a, <2>1, <2>4, <2>5, <3>1, <3>2, <3>3 DEF PoolInv, AttemptsCounted
  <2> QED
    BY <1>a, <2>5, <2>6, <2>7, <2>8, <2>9, <2>10
    DEF PoolInv, NoCaseTwice, SurveyInv, NeverPastRepeats
<1>6. ASSUME NEW s \in Slots, Count(s) \/ Abandon(s) PROVE PoolInv' /\ NeverPastRepeats'
  <2>1. s \in Busy
    BY <1>6, <1>a DEF Count, Abandon, Pop, Shape
  <2>2. /\ Busy' = Busy \ {s}
        /\ \A t \in Busy' : t \in Busy /\ t # s /\ running'[t] = running[t]
    BY <1>6, <1>a, <2>1, PopFacts DEF Count, Abandon, Pop
  <2>3. pc' = "drain" /\ UNCHANGED <<pending, stored, wanted, failures, passStart, atStart>>
    BY <1>6 DEF Count, Abandon, Pop, pass, history
  <2>4. NoCaseTwice'
    BY <1>a, <2>2, <2>3
    DEF PoolInv, NoCaseTwice, QueueUnique, FlightUnique, QueueFlightDisjoint
  <2>5. OwedWork' /\ AttemptsCounted'
    BY <1>a, <2>2, <2>3
    DEF PoolInv, OwedWork, StillShort, AttemptsCounted, Unstored, Counted, FailedItself, ConnectionRefused
  <2> QED
    BY <1>a, <2>3, <2>4, <2>5 DEF PoolInv, SurveyInv, NeverPastRepeats
<1>7. ASSUME NEW s \in Slots, Retry(s) PROVE PoolInv' /\ NeverPastRepeats'
  <2> DEFINE e == Retried(running[s])
  <2>1. s \in Busy
    BY <1>7, <1>a DEF Retry, Pop, Shape
  <2>2. /\ Busy' = Busy \ {s}
        /\ \A t \in Busy' : t \in Busy /\ t # s /\ running'[t] = running[t]
    BY <1>7, <1>a, <2>1, PopFacts DEF Retry, Pop
  <2>3. /\ e \in Entry /\ e.case = running[s].case
        /\ e.attempts = running[s].attempts + 1
        /\ running[s].attempts \in Nat
    BY <1>a, <2>1, BusyTask DEF Retried, EntryOf
  <2> HIDE DEF e
  <2>4. pending' = Append(pending, e) /\ pending \in Seq(Entry)
    BY <1>7, <1>a DEF Retry, PutBehind, TypeOK, e
  <2>5. \A i \in DOMAIN pending' :
          \/ i = Len(pending) + 1 /\ pending'[i] = e
          \/ i \in DOMAIN pending /\ pending'[i] = pending[i]
    BY <2>3, <2>4, Snoc
  <2>6. pc' = "drain" /\ UNCHANGED <<stored, wanted, failures, passStart, atStart>>
    BY <1>7 DEF Retry, Pop, pass, history
  <2>7. QueueUnique'
    <3>1. \A i \in DOMAIN pending : pending[i].case # e.case
      BY <1>a, <2>1, <2>3 DEF PoolInv, NoCaseTwice, QueueFlightDisjoint
    <3> QED
      BY <1>a, <2>5, <3>1 DEF PoolInv, NoCaseTwice, QueueUnique
  <2>8. FlightUnique'
    BY <1>a, <2>2 DEF PoolInv, NoCaseTwice, FlightUnique
  <2>9. QueueFlightDisjoint'
    BY <1>a, <2>1, <2>2, <2>3, <2>5 DEF PoolInv, NoCaseTwice, FlightUnique, QueueFlightDisjoint
  <2>10. OwedWork'
    <3>1. Unstored(s)
      BY <1>7 DEF Retry, FailedItself, Unstored
    <3> QED
      BY <1>a, <2>1, <2>2, <2>3, <2>5, <2>6, <3>1 DEF PoolInv, OwedWork, StillShort, Unstored
  <2>11. AttemptsCounted'
    <3>1. failures[e.case] = e.attempts /\ e.attempts < MaxAttempts
      BY <1>7, <1>a, <2>1, <2>3
      DEF Retry, HasAttemptsLeft, PoolInv, AttemptsCounted, Counted
    <3> QED
      BY <1>a, <2>2, <2>5, <2>6, <3>1
      DEF PoolInv, AttemptsCounted, Counted, FailedItself, ConnectionRefused
  <2> QED
    BY <1>a, <2>6, <2>7, <2>8, <2>9, <2>10, <2>11
    DEF PoolInv, NoCaseTwice, SurveyInv, NeverPastRepeats
<1>8. ASSUME NEW s \in Slots, Refused(s) PROVE PoolInv' /\ NeverPastRepeats'
  <2>1. s \in Busy /\ Unstored(s) /\ ~FailedItself(running[s])
    BY <1>8, <1>a DEF Refused, Shape, Unstored, FailedItself
  <2>2. /\ running' = PoppedFrom(s) /\ pending' = PutBack(running[s])
        /\ pc # "survey" /\ pc' # "survey"
        /\ UNCHANGED <<stored, wanted, failures, passStart, atStart>>
    BY <1>8 DEF Refused, pass, history
  <2> QED
    BY <1>a, <2>1, <2>2, PutBackKeeps
<1>9. ASSUME NEW s \in Slots, Requeue(s) PROVE PoolInv' /\ NeverPastRepeats'
  <2>1. s \in Busy /\ Unstored(s) /\ ~FailedItself(running[s])
    BY <1>9 DEF Requeue, Unfinished, Active, Unstored, FailedItself
  <2>2. /\ running' = PoppedFrom(s) /\ pending' = PutBack(running[s])
        /\ pc # "survey" /\ pc' # "survey"
        /\ UNCHANGED <<stored, wanted, failures, passStart, atStart>>
    BY <1>9 DEF Requeue, pass, history
  <2> QED
    BY <1>a, <2>1, <2>2, PutBackKeeps
<1>10. ASSUME NEW s \in Slots, Abort(s) PROVE PoolInv' /\ NeverPastRepeats'
  <2>1. Busy' = {}
    BY <1>10 DEF Abort, Busy, Empty
  <2>2. pc' = "aborted" /\ UNCHANGED <<pending, stored, wanted, failures, passStart, atStart>>
    BY <1>10 DEF Abort, pass, history
  <2>3. NoCaseTwice' /\ OwedWork' /\ AttemptsCounted'
    BY <1>a, <2>1, <2>2
    DEF PoolInv, NoCaseTwice, QueueUnique, FlightUnique, QueueFlightDisjoint, OwedWork, StillShort,
        AttemptsCounted
  <2> QED
    BY <1>a, <2>2, <2>3 DEF PoolInv, SurveyInv, NeverPastRepeats
<1>11. ASSUME NEW s \in Slots, NEW verdict \in {"passed", "failed"}, Store(s, verdict)
       PROVE  PoolInv' /\ NeverPastRepeats'
  <2> DEFINE k == [running[s] EXCEPT !.out = verdict]
             c == running[s].case
  <2>1. s \in Busy /\ running[s] \in Task /\ c \in Cases
    BY <1>11, <1>a, BusyTask DEF Store, Active
  <2>2. /\ k \in Task /\ k.case = running[s].case /\ k.attempts = running[s].attempts
        /\ k.out = verdict
    BY <2>1 DEF Task
  <2>3. running' = [running EXCEPT ![s] = k] /\ stored' = [stored EXCEPT ![c] = @ + 1]
    BY <1>11 DEF Store
  <2> HIDE DEF k
  <2>4. /\ Busy' = Busy
        /\ running'[s] = k
        /\ \A t \in Busy' : t # s => running'[t] = running[t]
    BY <1>a, <2>1, <2>2, <2>3, OutcomeFacts
  <2>5. /\ pc = "await" /\ pc' = "await"
        /\ UNCHANGED <<pending, wanted, failures, passStart, atStart>>
    BY <1>11 DEF Store, pass, history
  <2>6. NoCaseTwice'
    BY <1>a, <2>1, <2>2, <2>4, <2>5
    DEF PoolInv, NoCaseTwice, QueueUnique, FlightUnique, QueueFlightDisjoint
  <2>7. stored[c] < wanted /\ wanted <= Repeats
    <3>1. Unstored(s)
      BY <1>11 DEF Store, Active, Unstored
    <3> QED
      BY <1>a, <2>1, <2>5, <3>1 DEF PoolInv, OwedWork, StillShort, Shape, InPass, Stopped
  <2> HIDE DEF c
  <2>8. \A d \in Cases : d # c => stored'[d] = stored[d]
    BY <2>3, <1>a DEF TypeOK
  <2>9. OwedWork'
    <3>1. \A i \in DOMAIN pending' : StillShort(pending[i].case)'
      <4> SUFFICES ASSUME NEW i \in DOMAIN pending'
                   PROVE  StillShort(pending[i].case)'
        OBVIOUS
      <4>1. pending[i].case # c /\ pending[i].case \in Cases
        BY <1>a, <2>1, <2>5, QueueTyped DEF PoolInv, NoCaseTwice, QueueFlightDisjoint, c
      <4> QED
        BY <1>a, <2>5, <2>8, <4>1 DEF PoolInv, OwedWork, StillShort
    <3>2. \A t \in Busy' : Unstored(t)' => StillShort(running[t].case)'
      <4> SUFFICES ASSUME NEW t \in Busy', Unstored(t)'
                   PROVE  StillShort(running[t].case)'
        OBVIOUS
      <4>1. t # s
        BY <2>2, <2>4 DEF Unstored
      <4>2. t \in Busy /\ running[t].case # c /\ running[t].case \in Cases
        BY <1>a, <2>1, <2>4, <4>1, BusyTask DEF PoolInv, NoCaseTwice, FlightUnique, c
      <4> QED
        BY <1>a, <2>4, <2>5, <2>8, <4>1, <4>2 DEF PoolInv, OwedWork, StillShort, Unstored
    <3> QED
      BY <3>1, <3>2 DEF OwedWork
  <2>10. AttemptsCounted'
    <3>1. Counted(s) = 0 /\ Counted(s)' = 0
      BY <1>11, <2>2, <2>4 DEF Store, Active, Counted, FailedItself
    <3>2. \A t \in Busy : t # s => Counted(t)' = Counted(t)
      BY <2>4 DEF Counted, FailedItself, ConnectionRefused
    <3> QED
      BY <1>a, <2>1, <2>2, <2>4, <2>5, <3>1, <3>2 DEF PoolInv, AttemptsCounted
  <2>11. NeverPastRepeats'
    <3> SUFFICES ASSUME NEW d \in Cases, stored'[d] > Repeats
                 PROVE  stored'[d] = atStart[d]
      BY <2>5 DEF NeverPastRepeats
    <3>1. d # c
      BY <1>a, <2>1, <2>3, <2>7, CountsAssumption DEF TypeOK
    <3> QED
      BY <1>a, <2>8, <3>1 DEF NeverPastRepeats
  <2> QED
    BY <1>a, <2>5, <2>6, <2>9, <2>10, <2>11 DEF PoolInv, SurveyInv
<1>12. ASSUME NEW s \in Slots, NEW cause \in {"own", "outage"}, NEW text \in Texts,
              Fail(s, cause, text)
       PROVE  PoolInv' /\ NeverPastRepeats'
  <2> DEFINE k == [running[s] EXCEPT !.out = "infra", !.cause = cause, !.text = text]
             c == running[s].case
  <2>1. s \in Busy /\ running[s] \in Task /\ c \in Cases /\ running[s].attempts \in Nat
    BY <1>12, <1>a, BusyTask DEF Fail, Active
  <2>2. /\ k \in Task /\ k.case = running[s].case /\ k.attempts = running[s].attempts
        /\ k.out = "infra" /\ k.text = text
    BY <2>1 DEF Task
  <2>3. running' = [running EXCEPT ![s] = k]
    BY <1>12 DEF Fail
  <2> HIDE DEF k
  <2>4. /\ Busy' = Busy
        /\ running'[s] = k
        /\ \A t \in Busy' : t # s => running'[t] = running[t]
    BY <1>a, <2>1, <2>2, <2>3, OutcomeFacts
  <2>5. /\ pc = "await" /\ pc' = "await"
        /\ UNCHANGED <<pending, stored, wanted, passStart, atStart>>
    BY <1>12 DEF Fail, pass
  <2>6. NoCaseTwice'
    BY <1>a, <2>1, <2>2, <2>4, <2>5
    DEF PoolInv, NoCaseTwice, QueueUnique, FlightUnique, QueueFlightDisjoint
  <2>7. OwedWork'
    <3>1. Unstored(s)
      BY <1>12 DEF Fail, Active, Unstored
    <3> QED
      BY <1>a, <2>1, <2>2, <2>4, <2>5, <3>1 DEF PoolInv, OwedWork, StillShort, Unstored
  <2>8. /\ \A d \in Cases : d # c => failures'[d] = failures[d]
        /\ failures'[c] = failures[c] + (IF text \in RefusalTexts THEN 0 ELSE 1)
    BY <1>12, <1>a, <2>1 DEF Fail, TypeOK
  <2>9. AttemptsCounted'
    <3>1. Counted(s) = 0 /\ Counted(s)' = IF text \in RefusalTexts THEN 0 ELSE 1
      BY <1>12, <2>2, <2>4 DEF Fail, Active, Counted, FailedItself, ConnectionRefused
    <3>2. failures[c] = running[s].attempts
      BY <1>a, <2>1, <3>1 DEF PoolInv, AttemptsCounted
    <3> HIDE DEF c
    <3>3. \A i \in DOMAIN pending : pending[i].case # c /\ pending[i].case \in Cases
      BY <1>a, <2>1, QueueTyped DEF PoolInv, NoCaseTwice, QueueFlightDisjoint, c
    <3>4. \A t \in Busy : t # s => running[t].case # c /\ running[t].case \in Cases
      BY <1>a, <2>1, BusyTask DEF PoolInv, NoCaseTwice, FlightUnique, c
    <3>5. \A t \in Busy : t # s => Counted(t)' = Counted(t)
      BY <2>4 DEF Counted, FailedItself, ConnectionRefused
    <3>6. \A i \in DOMAIN pending' :
            pending'[i].attempts = failures'[pending'[i].case] /\ pending'[i].attempts < MaxAttempts
      BY <1>a, <2>5, <2>8, <3>3 DEF PoolInv, AttemptsCounted
    <3>7. \A t \in Busy' : t # s =>
            /\ failures'[running'[t].case] = running'[t].attempts + Counted(t)'
            /\ running'[t].attempts < MaxAttempts
      BY <1>a, <2>4, <2>8, <3>4, <3>5 DEF PoolInv, AttemptsCounted
    <3>8. /\ failures'[running'[s].case] = running'[s].attempts + Counted(s)'
          /\ running'[s].attempts < MaxAttempts
      BY <1>a, <2>1, <2>2, <2>4, <2>8, <3>1, <3>2 DEF PoolInv, AttemptsCounted, c
    <3> QED
      BY <3>6, <3>7, <3>8 DEF AttemptsCounted
  <2> QED
    BY <1>a, <2>5, <2>6, <2>7, <2>9 DEF PoolInv, SurveyInv, NeverPastRepeats
<1>13. ASSUME NEW s \in Slots, RaiseError(s) PROVE PoolInv' /\ NeverPastRepeats'
  <2> DEFINE k == [running[s] EXCEPT !.out = "raised"]
  <2>1. s \in Busy /\ running[s] \in Task
    BY <1>13, <1>a, BusyTask DEF RaiseError, Active
  <2>2. /\ k \in Task /\ k.case = running[s].case /\ k.attempts = running[s].attempts
        /\ k.out = "raised"
    BY <2>1 DEF Task
  <2>3. running' = [running EXCEPT ![s] = k]
    BY <1>13 DEF RaiseError
  <2> HIDE DEF k
  <2>4. /\ Busy' = Busy
        /\ running'[s] = k
        /\ \A t \in Busy' : t # s => running'[t] = running[t]
    BY <1>a, <2>1, <2>2, <2>3, OutcomeFacts
  <2>5. /\ pc' = "await"
        /\ UNCHANGED <<pending, stored, wanted, failures, passStart, atStart>>
    BY <1>13 DEF RaiseError, pass, history
  <2>6. NoCaseTwice'
    BY <1>a, <2>1, <2>2, <2>4, <2>5
    DEF PoolInv, NoCaseTwice, QueueUnique, FlightUnique, QueueFlightDisjoint
  <2>7. OwedWork'
    <3>1. Unstored(s)
      BY <1>13 DEF RaiseError, Active, Unstored
    <3> QED
      BY <1>a, <2>1, <2>2, <2>4, <2>5, <3>1 DEF PoolInv, OwedWork, StillShort, Unstored
  <2>8. AttemptsCounted'
    <3>1. Counted(s) = 0 /\ Counted(s)' = 0
      BY <1>13, <2>2, <2>4 DEF RaiseError, Active, Counted, FailedItself
    <3>2. \A t \in Busy : t # s => Counted(t)' = Counted(t)
      BY <2>4 DEF Counted, FailedItself, ConnectionRefused
    <3> QED
      BY <1>a, <2>1, <2>2, <2>4, <2>5, <3>1, <3>2 DEF PoolInv, AttemptsCounted
  <2> QED
    BY <1>a, <2>5, <2>6, <2>7, <2>8 DEF PoolInv, SurveyInv, NeverPastRepeats
<1>14. CASE EndpointChanges \/ UNCHANGED vars
  <2>1. UNCHANGED <<pc, looked, pending, running, stored, wanted, failures, passStart, atStart>>
    BY <1>14 DEF EndpointChanges, vars, pass, pool, history
  <2>2. PoolInv' \/ pc = "survey"
    BY <1>a, <2>1, FrameKeeps
  <2>3. NeverPastRepeats'
    BY <1>a, <2>1 DEF NeverPastRepeats
  <2>4. Busy' = Busy
    BY <2>1 DEF Busy
  <2>5. NoCaseTwice' /\ OwedWork' /\ AttemptsCounted'
    BY <1>a, <2>1, <2>4
    DEF PoolInv, NoCaseTwice, QueueUnique, FlightUnique, QueueFlightDisjoint, OwedWork, StillShort,
        AttemptsCounted, Unstored, Counted, FailedItself, ConnectionRefused
  <2> QED
    BY <1>a, <2>1, <2>3, <2>5 DEF PoolInv, SurveyInv
<1>15. CASE Kill
  <2>1. Busy' = {} /\ pending' = <<>> /\ pc' = "killed"
    BY <1>15 DEF Kill, Busy, Empty
  <2> QED
    BY <1>15, <1>a, <2>1, EmptyKeeps DEF Kill, NeverPastRepeats, history
<1>16. CASE Restart
  <2>1. Busy' = {} /\ pending' = <<>> /\ pc' = "pass"
    BY <1>16 DEF Restart, Busy, Empty
  <2> QED
    BY <1>16, <1>a, <2>1, EmptyKeeps DEF Restart, NeverPastRepeats
<1> QED
  BY <1>1, <1>2, <1>3, <1>4, <1>5, <1>6, <1>7, <1>8, <1>9, <1>10, <1>11, <1>12, <1>13,
     <1>14, <1>15, <1>16
  DEF Next, Driver, Run, Complete

LEMMA InvAlways == ASSUME DistinctCases PROVE Spec => []Inv
<1>1. Inv /\ [Next]_vars => Inv'
  BY StepInv
<1> QED
  BY <1>1, InitInv, PTL DEF Spec

\* However the runs fail, finish together or are put back by the outage branch,
\* no case of the study is ever queued twice, in flight twice, or both.
THEOREM OnePlacePerCase == ASSUME DistinctCases PROVE Spec => []NoCaseTwice
<1>1. Inv => NoCaseTwice
  BY DEF Inv, PoolInv
<1> QED
  BY <1>1, InvAlways, PTL

\* The resume rule of the driver's text: killed and re-run at any step, any number
\* of times, it "can never push a case past its repeats" -- provided it was not
\* given a case twice.
THEOREM ResumeIsSafe == ASSUME DistinctCases PROVE Spec => []NeverPastRepeats
<1>1. Inv => NeverPastRepeats
  BY DEF Inv
<1> QED
  BY <1>1, InvAlways, PTL

\* The attempts a case carries through the queue are its failures in this pass.
THEOREM AttemptsAreFailures == ASSUME DistinctCases PROVE Spec => []AttemptsCounted
<1>1. Inv => AttemptsCounted
  BY DEF Inv, PoolInv
<1> QED
  BY <1>1, InvAlways, PTL

-----------------------------------------------------------------------------
(* No case falls out of a pass. *)

\* Every short case the survey has looked at is queued; a run that was stored has
\* settled what its pass owed.
Kept ==
  /\ NothingLost
  /\ pc = "survey" =>
       \A j \in 1..looked : stored[CaseList[j]] < wanted => Queued(CaseList[j])
  /\ \A s \in Busy : ~Unstored(s) => ~StillShort(running[s].case)

FullInv == Inv /\ Kept

LEMMA InitKept == Init => Kept
BY DEF Init, Kept, NothingLost, InPass, Stopped, Busy, Empty

\* Nothing changes but the driver's place in the pass.
LEMMA FrameKept ==
  ASSUME Kept, pc' # "survey", InPass' => InPass,
         UNCHANGED <<pending, running, stored, wanted, failures, passStart>>
  PROVE  Kept'
<1>1. Busy' = Busy
  BY DEF Busy
<1>2. \A c : Queued(c)' = Queued(c) /\ InFlight(c)' = InFlight(c)
  BY <1>1 DEF Queued, InFlight
<1>3. NothingLost'
  BY <1>2 DEF Kept, NothingLost, Owed, StillShort
<1> QED
  BY <1>1, <1>3 DEF Kept, Unstored, StillShort

\* A case put back, before the others or behind them, is queued; the rest stay.
LEMMA BackKept ==
  ASSUME TypeOK, Kept, pc # "survey", InPass, pc' # "survey", NEW s \in Busy,
         running' = PoppedFrom(s),
         pending' = PutBack(running[s]) \/ pending' = PutBehind(running[s]),
         UNCHANGED <<stored, wanted, failures, passStart>>
  PROVE  Kept'
<1>1. /\ Busy' = Busy \ {s}
      /\ \A t \in Busy' : t \in Busy /\ t # s /\ running'[t] = running[t]
  BY PopFacts
<1>2. /\ EntryOf(running[s]) \in Entry /\ Retried(running[s]) \in Entry
      /\ EntryOf(running[s]).case = running[s].case
      /\ Retried(running[s]).case = running[s].case
      /\ pending \in Seq(Entry)
  BY BusyTask DEF EntryOf, Retried, TypeOK
<1>3. Len(pending) \in Nat /\ DOMAIN pending = 1..Len(pending)
  BY <1>2, LenProperties
<1>4. /\ \E i \in DOMAIN pending' : pending'[i].case = running[s].case
      /\ \A i \in DOMAIN pending : \E k \in DOMAIN pending' : pending'[k] = pending[i]
  <2>1. CASE pending' = PutBack(running[s])
    <3> DEFINE e == EntryOf(running[s])
    <3>0. pending' = <<e>> \o pending
      BY <2>1 DEF PutBack
    <3>1. e \in Entry /\ e.case = running[s].case
      BY <1>2
    <3> HIDE DEF e
    <3>2. /\ DOMAIN pending' = 1..(Len(pending) + 1) /\ pending'[1] = e
          /\ \A i \in DOMAIN pending : pending'[i + 1] = pending[i]
      BY <1>2, <3>0, <3>1, Cons, SMTT(30)
    <3> QED
      BY <1>3, <3>1, <3>2
  <2>2. CASE pending' = PutBehind(running[s])
    <3> DEFINE e == Retried(running[s])
    <3>1. pending' = Append(pending, e) /\ e \in Entry /\ e.case = running[s].case
      BY <2>2, <1>2 DEF PutBehind
    <3> HIDE DEF e
    <3>2. /\ DOMAIN pending' = 1..(Len(pending) + 1) /\ pending'[Len(pending) + 1] = e
          /\ \A i \in DOMAIN pending : pending'[i] = pending[i]
      BY <1>2, <3>1, Snoc
    <3> QED
      BY <1>3, <3>1, <3>2
  <2> QED
    BY <2>1, <2>2
<1>5. \A c : Queued(c) \/ InFlight(c) => Queued(c)' \/ InFlight(c)'
  BY <1>1, <1>4 DEF Queued, InFlight
<1>6. NothingLost'
  BY <1>5 DEF Kept, NothingLost, Owed, StillShort
<1> QED
  BY <1>1, <1>6 DEF Kept, Unstored, StillShort

\* A run that changed its outcome keeps its place; nothing becomes owed.
LEMMA OutcomeKept ==
  ASSUME TypeOK, Kept, InPass, pc' = "await", NEW s \in Busy, NEW k \in Task,
         k.case = running[s].case, running' = [running EXCEPT ![s] = k],
         UNCHANGED <<pending, wanted, passStart>>,
         \A c \in Owed' : c \in Owed,
         \A c \in Cases : StillShort(c)' => StillShort(c),
         k.out \in {"passed", "failed"} => \A c \in Cases : c = k.case => ~StillShort(c)'
  PROVE  Kept'
<1>1. /\ Busy' = Busy
      /\ running'[s] = k
      /\ \A t \in Busy' : t # s => running'[t] = running[t]
  BY OutcomeFacts
<1>2. \A c : Queued(c)' = Queued(c) /\ InFlight(c)' = InFlight(c)
  BY <1>1 DEF Queued, InFlight
<1>3. NothingLost'
  BY <1>2 DEF Kept, NothingLost
<1>4. ASSUME NEW t \in Busy', ~Unstored(t)' PROVE ~StillShort(running[t].case)'
  <2>1. PICK c \in Cases : c = running[t].case
    BY <1>1, BusyTask
  <2>2. running'[t].case = c
    BY <1>1, <2>1
  <2>3. ~StillShort(c)'
    <3>1. CASE t = s
      BY <1>1, <1>4, <2>2, <3>1 DEF Unstored
    <3>2. CASE t # s
      BY <1>1, <1>4, <2>1, <3>2 DEF Kept, Unstored
    <3> QED
      BY <3>1, <3>2
  <2> QED
    BY <2>2, <2>3 DEF StillShort
<1> QED
  BY <1>3, <1>4 DEF Kept

LEMMA StepKept == DistinctCases /\ FullInv /\ [Next]_vars => FullInv'
<1> SUFFICES ASSUME DistinctCases, FullInv, [Next]_vars PROVE FullInv'
  OBVIOUS
<1>I. Inv'
  BY StepInv DEF FullInv
<1> SUFFICES Kept'
  BY <1>I DEF FullInv
<1>a. TypeOK /\ Shape /\ PoolInv /\ Kept
  BY DEF FullInv, Inv, TypeInv
<1> USE DEF InPass, Stopped
<1>1. CASE BeginPass
  <2>1. Busy' = {} /\ looked' = 0 /\ pc' = "survey"
    BY <1>1, <1>a DEF BeginPass, Shape, Empty, Busy, pool
  <2> QED
    BY <2>1 DEF Kept, NothingLost
<1>2. CASE Survey
  <2>0. PICK c : c = CaseList[looked + 1]
    OBVIOUS
  <2> DEFINE e == [case |-> c, attempts |-> 0]
  <2>1. /\ looked \in Nat /\ looked + 1 \in DOMAIN CaseList
        /\ \A j \in 1..(looked + 1) : j = looked + 1 \/ j \in 1..looked
    <3>1. Len(CaseList) \in Nat /\ DOMAIN CaseList = 1..Len(CaseList)
      BY CaseListAssumption, LenProperties
    <3>2. looked \in 0..Len(CaseList) /\ looked < Len(CaseList)
      BY <1>2, <1>a DEF Survey, TypeOK
    <3> QED
      BY <3>1, <3>2
  <2>2. c \in Cases /\ e \in Entry /\ e.case = c
    BY <2>0, <2>1 DEF Cases
  <2>3. Busy' = {}
    BY <1>2, <1>a DEF Survey, Shape, Empty, Busy
  <2>4. /\ pc = "survey" /\ pc' = "survey" /\ looked' = looked + 1
        /\ UNCHANGED <<stored, wanted>>
        /\ IsShort(c) => pending' = Append(pending, e)
        /\ ~IsShort(c) => pending' = pending
    BY <1>2, <2>0 DEF Survey
  <2>5. pending \in Seq(Entry) /\ Len(pending) \in Nat /\ DOMAIN pending = 1..Len(pending)
    <3>1. pending \in Seq(Entry)
      BY <1>a DEF TypeOK
    <3> QED
      BY <3>1, LenProperties
  <2> HIDE DEF e
  <2>6. /\ \A i \in DOMAIN pending : i \in DOMAIN pending' /\ pending'[i] = pending[i]
        /\ IsShort(c) => \E i \in DOMAIN pending' : pending'[i] = e
    <3>1. CASE ~IsShort(c)
      BY <2>4, <3>1
    <3>2. CASE IsShort(c)
      <4>1. /\ DOMAIN Append(pending, e) = 1..(Len(pending) + 1)
            /\ Append(pending, e)[Len(pending) + 1] = e
            /\ \A i \in DOMAIN pending : Append(pending, e)[i] = pending[i]
        BY <2>2, <2>5, Snoc
      <4> QED
        BY <2>4, <2>5, <3>2, <4>1
    <3> QED
      BY <3>1, <3>2
  <2>7. \A j \in 1..looked : stored[CaseList[j]] < wanted => Queued(CaseList[j])'
    BY <1>a, <2>4, <2>6 DEF Kept, Queued
  <2>8. stored[c] < wanted => Queued(c)'
    BY <2>2, <2>6 DEF Queued, IsShort
  <2>9. \A j \in 1..(looked + 1) : stored[CaseList[j]] < wanted => Queued(CaseList[j])'
    BY <2>0, <2>1, <2>7, <2>8
  <2> QED
    BY <2>3, <2>4, <2>9 DEF Kept, NothingLost
<1>3. CASE SurveyEnds
  <2>1. /\ pc = "survey" /\ looked = Len(CaseList)
        /\ UNCHANGED <<pending, running, stored, wanted, passStart>> /\ pc' = "fill"
    BY <1>3 DEF SurveyEnds, pass, pool, history
  <2>2. Len(CaseList) \in Nat /\ DOMAIN CaseList = 1..Len(CaseList)
    BY CaseListAssumption, LenProperties
  <2>3. \A d \in Cases : StillShort(d) => Queued(d)
    BY <1>a, <2>1, <2>2 DEF Cases, Kept, StillShort
  <2>4. \A d : StillShort(d)' = StillShort(d) /\ Queued(d)' = Queued(d)
    BY <2>1 DEF StillShort, Queued
  <2>5. NothingLost'
    BY <2>3, <2>4 DEF NothingLost, Owed
  <2> QED
    BY <1>a, <2>1, <2>5 DEF Kept, Busy, Unstored, StillShort
<1>4. CASE FinishStudy \/ Wait \/ Wake \/ DrainEnds \/ Requeued \/ Answered \/ GiveUp
  <2>1. /\ pc' # "survey" /\ (InPass' => InPass)
        /\ UNCHANGED <<pending, running, stored, wanted, failures, passStart>>
    BY <1>4 DEF FinishStudy, Wait, Wake, DrainEnds, Requeued, Answered, GiveUp,
                pass, pool, history
  <2> QED
    BY <1>a, <2>1, FrameKept
<1>5. CASE EndPass
  BY <1>5 DEF EndPass, Kept, NothingLost, Busy, pool
<1>6. ASSUME NEW s \in Slots, Start(s) PROVE Kept'
  <2> DEFINE h == Head(pending)
             k == Started(h)
  <2>1. pending \in Seq(Entry) /\ pending # <<>> /\ pending' = Tail(pending)
    BY <1>6, <1>a DEF Start, TypeOK
  <2>2. h \in Entry /\ h = pending[1]
    BY <2>1, Uncons
  <2>3. \A i \in DOMAIN pending : i # 1 => i - 1 \in DOMAIN pending' /\ pending'[i - 1] = pending[i]
    BY <2>1, Uncons
  <2>4. k \in Task /\ k.case = h.case /\ k.out = "active"
    BY <2>2 DEF Started, Task
  <2> HIDE DEF h, k
  <2>5. s \in Idle /\ running' = [running EXCEPT ![s] = k]
    BY <1>6 DEF Start, k, h
  <2>6. /\ Busy' = Busy \cup {s}
        /\ running'[s] = k
        /\ \A t \in Busy' : t # s => t \in Busy /\ running'[t] = running[t]
    BY <1>a, <2>4, <2>5, FillFacts
  <2>7. /\ pc = "fill" /\ pc' = "fill"
        /\ UNCHANGED <<stored, wanted, failures, passStart>>
    BY <1>6 DEF Start, pass, history
  <2>8. s \notin Busy
    BY <2>5 DEF Idle
  <2>9. \A c : InFlight(c) => InFlight(c)'
    BY <2>6, <2>8 DEF InFlight
  <2>10. \A c : Queued(c) => Queued(c)' \/ InFlight(c)'
    <3> SUFFICES ASSUME NEW c, NEW i \in DOMAIN pending, pending[i].case = c
                 PROVE  Queued(c)' \/ InFlight(c)'
      BY DEF Queued
    <3>1. CASE i = 1
      BY <2>2, <2>4, <2>6, <3>1 DEF InFlight
    <3>2. CASE i # 1
      BY <2>3, <3>2 DEF Queued
    <3> QED
      BY <3>1, <3>2
  <2>11. NothingLost'
    BY <1>a, <2>7, <2>9, <2>10 DEF Kept, NothingLost, Owed, StillShort
  <2>12. \A t \in Busy' : ~Unstored(t)' => ~StillShort(running[t].case)'
    BY <1>a, <2>4, <2>6, <2>7 DEF Kept, Unstored, StillShort
  <2> QED
    BY <2>7, <2>11, <2>12 DEF Kept
<1>7. ASSUME NEW s \in Slots, Count(s) \/ Abandon(s) PROVE Kept'
  <2>1. s \in Busy
    BY <1>7, <1>a DEF Count, Abandon, Pop, Shape
  <2>2. /\ Busy' = Busy \ {s}
        /\ \A t \in Busy' : t \in Busy /\ t # s /\ running'[t] = running[t]
    BY <1>7, <1>a, <2>1, PopFacts DEF Count, Abandon, Pop
  <2>3. /\ pc = "drain" /\ pc' = "drain"
        /\ UNCHANGED <<pending, stored, wanted, failures, passStart>>
    BY <1>7 DEF Count, Abandon, Pop, pass, history
  <2>4. running[s].case \notin Owed
    <3>1. CASE Count(s)
      BY <1>a, <2>1, <3>1 DEF Count, Kept, Unstored, Owed
    <3>2. CASE Abandon(s)
      <4>1. failures[running[s].case] = running[s].attempts + 1
        BY <1>a, <2>1, <3>2 DEF Abandon, PoolInv, AttemptsCounted, Counted
      <4>2. /\ running[s].attempts \in Nat
            /\ ~(running[s].attempts + 1 < MaxAttempts)
        BY <1>a, <2>1, <3>2, BusyTask DEF Abandon, HasAttemptsLeft
      <4> QED
        BY <4>1, <4>2, CountsAssumption DEF Owed
    <3> QED
      BY <1>7, <3>1, <3>2
  <2>5. \A c \in Owed : Queued(c) \/ InFlight(c) => Queued(c)' \/ InFlight(c)'
    BY <2>2, <2>3, <2>4 DEF Queued, InFlight
  <2>6. Owed' = Owed
    BY <2>3 DEF Owed, StillShort
  <2>7. NothingLost'
    BY <1>a, <2>3, <2>5, <2>6 DEF Kept, NothingLost
  <2> QED
    BY <1>a, <2>2, <2>3, <2>7 DEF Kept, Unstored, StillShort
<1>8. ASSUME NEW s \in Slots, Retry(s) \/ Refused(s) \/ Requeue(s) PROVE Kept'
  <2>1. s \in Busy
    BY <1>8, <1>a DEF Retry, Refused, Requeue, Pop, Shape, Unfinished, Active
  <2>2. /\ running' = PoppedFrom(s)
        /\ pending' = PutBack(running[s]) \/ pending' = PutBehind(running[s])
        /\ pc # "survey" /\ InPass /\ pc' # "survey"
        /\ UNCHANGED <<stored, wanted, failures, passStart>>
    BY <1>8 DEF Retry, Refused, Requeue, Pop, pass, history
  <2> QED
    BY <1>a, <2>1, <2>2, BackKept
<1>9. ASSUME NEW s \in Slots, Abort(s) PROVE Kept'
  BY <1>9 DEF Abort, Kept, NothingLost, Busy, Empty
<1>10. ASSUME NEW s \in Slots, NEW verdict \in {"passed", "failed"}, Store(s, verdict)
       PROVE  Kept'
  <2>1. s \in Busy /\ running[s] \in Task /\ running[s].case \in Cases /\ Unstored(s)
    BY <1>10, <1>a, BusyTask DEF Store, Active, Unstored
  <2>2. PICK c \in Cases : c = running[s].case
    BY <2>1
  <2> DEFINE k == [running[s] EXCEPT !.out = verdict]
  <2>3. k \in Task /\ k.case = running[s].case /\ k.out = verdict
    BY <2>1 DEF Task
  <2>4. running' = [running EXCEPT ![s] = k] /\ stored' = [stored EXCEPT ![c] = @ + 1]
    BY <1>10, <2>2 DEF Store
  <2>5. pc = "await" /\ pc' = "await" /\ UNCHANGED <<pending, wanted, failures, passStart>>
    BY <1>10 DEF Store, pass, history
  <2>6. StillShort(c)
    BY <1>a, <2>1, <2>2 DEF PoolInv, OwedWork
  <2>7. ~StillShort(c)' /\ \A d \in Cases : d # c => stored'[d] = stored[d]
    BY <1>a, <2>4, <2>5, <2>6 DEF StillShort, TypeOK
  <2>8. \A d \in Cases : StillShort(d)' => StillShort(d)
    BY <2>5, <2>6, <2>7 DEF StillShort
  <2>9. \A d \in Owed' : d \in Owed
    BY <2>5, <2>8 DEF Owed
  <2>10. \A d \in Cases : d = k.case => ~StillShort(d)'
    BY <2>2, <2>3, <2>7
  <2> HIDE DEF k
  <2> QED
    BY <1>a, <2>1, <2>3, <2>4, <2>5, <2>8, <2>9, <2>10, OutcomeKept
<1>11. ASSUME NEW s \in Slots, NEW cause \in {"own", "outage"}, NEW text \in Texts,
              Fail(s, cause, text)
       PROVE  Kept'
  <2> DEFINE k == [running[s] EXCEPT !.out = "infra", !.cause = cause, !.text = text]
  <2>1. s \in Busy /\ running[s] \in Task /\ running[s].case \in Cases
    BY <1>11, <1>a, BusyTask DEF Fail, Active
  <2>2. k \in Task /\ k.case = running[s].case /\ k.out = "infra"
    BY <2>1 DEF Task
  <2>3. /\ running' = [running EXCEPT ![s] = k]
        /\ pc = "await" /\ pc' = "await" /\ UNCHANGED <<pending, stored, wanted, passStart>>
    BY <1>11 DEF Fail, pass
  <2>4. \A d \in Cases : failures'[d] >= failures[d]
    BY <1>11, <1>a, <2>1, SMTT(30) DEF Fail, TypeOK
  <2>5. \A d \in Cases : StillShort(d)' => StillShort(d)
    BY <2>3 DEF StillShort
  <2>6. failures \in [Cases -> Nat] /\ failures' \in [Cases -> Nat]
    BY <1>a, <1>I DEF TypeOK, Inv, TypeInv
  <2>7. \A d \in Owed' : d \in Owed
    BY <2>4, <2>5, <2>6, CountsAssumption DEF Owed
  <2> HIDE DEF k
  <2> QED
    BY <1>a, <2>1, <2>2, <2>3, <2>5, <2>7, OutcomeKept
<1>12. ASSUME NEW s \in Slots, RaiseError(s) PROVE Kept'
  <2> DEFINE k == [running[s] EXCEPT !.out = "raised"]
  <2>1. s \in Busy /\ running[s] \in Task
    BY <1>12, <1>a, BusyTask DEF RaiseError, Active
  <2>2. k \in Task /\ k.case = running[s].case /\ k.out = "raised"
    BY <2>1 DEF Task
  <2>3. /\ running' = [running EXCEPT ![s] = k] /\ pc = "await" /\ pc' = "await"
        /\ UNCHANGED <<pending, stored, wanted, failures, passStart>>
    BY <1>12 DEF RaiseError, pass, history
  <2>4. Owed' = Owed /\ \A d \in Cases : StillShort(d)' => StillShort(d)
    BY <2>3 DEF Owed, StillShort
  <2> HIDE DEF k
  <2> QED
    BY <1>a, <2>1, <2>2, <2>3, <2>4, OutcomeKept
<1>13. CASE EndpointChanges \/ UNCHANGED vars
  <2>1. UNCHANGED <<pc, looked, pending, running, stored, wanted, failures, passStart>>
    BY <1>13 DEF EndpointChanges, vars, pass, pool, history
  <2>2. Busy' = Busy /\ \A c : Queued(c)' = Queued(c) /\ InFlight(c)' = InFlight(c)
    BY <2>1 DEF Busy, Queued, InFlight
  <2>3. NothingLost'
    BY <1>a, <2>1, <2>2 DEF Kept, NothingLost, Owed, StillShort
  <2> QED
    BY <1>a, <2>1, <2>2, <2>3 DEF Kept, Unstored, StillShort
<1>14. CASE Kill
  BY <1>14 DEF Kill, Kept, NothingLost, Busy, Empty
<1>15. CASE Restart
  BY <1>15 DEF Restart, Kept, NothingLost, Busy, Empty
<1> QED
  BY <1>1, <1>2, <1>3, <1>4, <1>5, <1>6, <1>7, <1>8, <1>9, <1>10, <1>11, <1>12, <1>13,
     <1>14, <1>15
  DEF Next, Driver, Run, Complete

LEMMA FullInvAlways == ASSUME DistinctCases PROVE Spec => []FullInv
<1>1. Init => FullInv
  BY InitInv, InitKept DEF FullInv
<1>2. FullInv /\ [Next]_vars => FullInv'
  BY StepKept
<1> QED
  BY <1>1, <1>2, PTL DEF Spec

\* What a pass owes is never dropped on the way between the queue, the slots and
\* the outage branch.
THEOREM NothingIsLost == ASSUME DistinctCases PROVE Spec => []NothingLost
<1>1. FullInv => NothingLost
  BY DEF FullInv, Kept
<1> QED
  BY <1>1, FullInvAlways, PTL

\* The whole account: one place a case, work only while it is owed, its own
\* failures and no others, and no case dropped.
THEOREM CasesAreAccounted == ASSUME DistinctCases PROVE Spec => []CasesAccounted
<1>1. FullInv => CasesAccounted
  BY DEF FullInv, Inv, PoolInv, Kept, CasesAccounted
<1> QED
  BY <1>1, FullInvAlways, PTL

-----------------------------------------------------------------------------
(* The summary: what has been counted, and what is still to be. *)

\* The runs in the pool that have stored theirs, and those that have stored nothing.
Settled == {s \in Busy : ~Unstored(s)}
Owing == {s \in Busy : Unstored(s)}

\* The count the passes so far bring a case to, the one under way with it where the
\* survey has looked at the case; and the runs missing below that count.
Level(c) ==
  IF InPass \/ (pc = "survey" /\ \E j \in 1..looked : CaseList[j] = c) THEN wanted ELSE wanted - 1
Due == {p \in Cases \X (1..Repeats) : stored[p[1]] < p[2] /\ p[2] <= Level(p[1])}

\* Every run stored here is counted or in the pool; every run missing is abandoned,
\* queued or in flight.
SummaryInv ==
  /\ IsFiniteSet(StoredHere) /\ \A c \in Cases : atStart[c] <= stored[c]
  /\ pc \notin {"killed", "aborted"} => totals.run + Cardinality(Settled) = Cardinality(StoredHere)
  /\ pc \notin {"killed", "aborted", "gaveup"} =>
       totals.abandoned + Len(pending) + Cardinality(Owing) = Cardinality(Due)
  /\ pc = "finished" => wanted = Repeats + 1 /\ pending = <<>> /\ running = Empty

LEMMA CasesFinite == IsFiniteSet(Cases)
<1>1. Len(CaseList) \in Nat /\ DOMAIN CaseList = 1..Len(CaseList)
  BY CaseListAssumption, LenProperties
<1>2. IsFiniteSet(1..Len(CaseList))
  BY <1>1, FS_Interval
<1>3. CaseList \in [1..Len(CaseList) -> Cases] /\ \A c \in Cases : \E i \in 1..Len(CaseList) : CaseList[i] = c
  BY <1>1, CaseListAssumption DEF Cases
<1>4. CaseList \in Surjection(1..Len(CaseList), Cases)
  BY <1>3 DEF Surjection
<1> QED
  BY <1>2, <1>4, FS_Surjection

LEMMA Counts ==
  /\ IsFiniteSet(Settled) /\ Cardinality(Settled) \in Nat
  /\ IsFiniteSet(Owing) /\ Cardinality(Owing) \in Nat
  /\ IsFiniteSet(Due) /\ Cardinality(Due) \in Nat
<1>1. IsFiniteSet(Slots)
  BY CountsAssumption, FS_Interval DEF Slots
<1>2. Settled \subseteq Slots /\ Owing \subseteq Slots
  BY DEF Settled, Owing, Busy
<1>3. IsFiniteSet(Settled) /\ IsFiniteSet(Owing)
  BY <1>1, <1>2, FS_Subset
<1>4. IsFiniteSet(Cases \X (1..Repeats))
  <2>1. IsFiniteSet(1..Repeats)
    BY CountsAssumption, FS_Interval
  <2> QED
    BY <2>1, CasesFinite, FS_Product
<1>5. Due \subseteq Cases \X (1..Repeats)
  BY DEF Due
<1>6. IsFiniteSet(Due)
  BY <1>4, <1>5, FS_Subset
<1> QED
  BY <1>3, <1>6, FS_CardinalityType

LEMMA CountsNext ==
  /\ IsFiniteSet(Settled') /\ Cardinality(Settled') \in Nat
  /\ IsFiniteSet(Owing') /\ Cardinality(Owing') \in Nat
  /\ IsFiniteSet(Due') /\ Cardinality(Due') \in Nat
<1>1. (/\ IsFiniteSet(Settled) /\ Cardinality(Settled) \in Nat
       /\ IsFiniteSet(Owing) /\ Cardinality(Owing) \in Nat
       /\ IsFiniteSet(Due) /\ Cardinality(Due) \in Nat)'
  BY Counts, PTL
<1> QED
  BY <1>1

\* A set that loses an element, or gains one.
LEMMA OneLess ==
  ASSUME NEW S, NEW T, NEW x \in S, IsFiniteSet(S), T = S \ {x}
  PROVE  IsFiniteSet(T) /\ Cardinality(T) \in Nat /\ Cardinality(S) = Cardinality(T) + 1
<1>1. IsFiniteSet(T) /\ Cardinality(T) \in Nat
  BY FS_RemoveElement, FS_CardinalityType
<1>2. S = T \cup {x} /\ x \notin T
  OBVIOUS
<1> QED
  BY <1>1, <1>2, FS_AddElement

\* Sums in which a one moves from one term to another, or is on both sides.
LEMMA FromThirdToSecond ==
  ASSUME NEW m \in Nat, NEW n, NEW k, NEW l \in Nat, NEW o \in Nat, n = l + 1, k = o + 1
  PROVE  m + n + o = m + l + k
OBVIOUS

LEMMA FromSecondToFirst ==
  ASSUME NEW m \in Nat, NEW n, NEW k, NEW l \in Nat, n = m + 1, k = l + 1
  PROVE  n + l = m + k
OBVIOUS

LEMMA FromThirdToFirst ==
  ASSUME NEW m \in Nat, NEW n, NEW k, NEW l \in Nat, NEW o \in Nat, n = m + 1, k = l + 1
  PROVE  n + o + l = m + o + k
OBVIOUS

LEMMA OneMoreEach ==
  ASSUME NEW m \in Nat, NEW n, NEW k \in Nat, NEW d \in Nat, NEW e, m + k = d, n = k + 1, e = d + 1
  PROVE  m + n = e
OBVIOUS

LEMMA OneLessEach ==
  ASSUME NEW m \in Nat, NEW l \in Nat, NEW n, NEW k \in Nat, NEW d, NEW e \in Nat,
         m + l + n = d, n = k + 1, d = e + 1
  PROVE  m + l + k = e
OBVIOUS

\* A place left by a run that had stored nothing, and by one that had.
LEMMA PopCounts ==
  ASSUME TypeOK, NEW s \in Busy, running' = PoppedFrom(s)
  PROVE  /\ Unstored(s) => Settled' = Settled /\ Cardinality(Owing) = Cardinality(Owing') + 1
         /\ ~Unstored(s) => Owing' = Owing /\ Cardinality(Settled) = Cardinality(Settled') + 1
<1>1. Busy' = Busy \ {s} /\ \A t \in Busy' : t \in Busy /\ t # s /\ running'[t] = running[t]
  BY PopFacts
<1>2. \A t \in Busy' : Unstored(t)' <=> Unstored(t)
  BY <1>1 DEF Unstored
<1>3. CASE Unstored(s)
  <2>1. Settled' = Settled /\ Owing' = Owing \ {s} /\ s \in Owing
    BY <1>1, <1>2, <1>3 DEF Settled, Owing
  <2> QED
    BY <1>3, <2>1, Counts, OneLess
<1>4. CASE ~Unstored(s)
  <2>1. Owing' = Owing /\ Settled' = Settled \ {s} /\ s \in Settled
    BY <1>1, <1>2, <1>4 DEF Settled, Owing
  <2> QED
    BY <1>4, <2>1, Counts, OneLess
<1> QED
  BY <1>3, <1>4

LEMMA SameStored == ASSUME UNCHANGED <<stored, atStart>> PROVE StoredHere' = StoredHere
BY DEF StoredHere

LEMMA SameDue == ASSUME UNCHANGED stored, \A c \in Cases : Level(c)' = Level(c) PROVE Due' = Due
<1>1. \A p \in Cases \X (1..Repeats) : Level(p[1])' = Level(p[1])
  OBVIOUS
<1> QED
  BY <1>1 DEF Due

LEMMA SameSlots == ASSUME UNCHANGED running PROVE Settled' = Settled /\ Owing' = Owing
BY DEF Settled, Owing, Busy, Unstored

\* The runs stored under a case of which one more is stored.
LEMMA OneMoreStored ==
  ASSUME TypeOK, TypeOK', NEW c \in Cases, stored' = [stored EXCEPT ![c] = stored[c] + 1],
         UNCHANGED atStart, atStart[c] <= stored[c], IsFiniteSet(StoredHere)
  PROVE  IsFiniteSet(StoredHere') /\ Cardinality(StoredHere') = Cardinality(StoredHere) + 1
<1> DEFINE p == <<c, stored[c] + 1>>
<1>1. stored \in [Cases -> Nat] /\ atStart \in [Cases -> Nat]
  BY DEF TypeOK
<1>2. stored'[c] = stored[c] + 1 /\ \A d \in Cases : d # c => stored'[d] = stored[d]
  BY <1>1
<1>3. p \notin StoredHere
  BY <1>1 DEF StoredHere
<1>4. (atStart[c] + 1)..(stored[c] + 1) = ((atStart[c] + 1)..stored[c]) \cup {stored[c] + 1}
  BY <1>1
<1>5. StoredHere' = StoredHere \cup {p}
  <2>1. ASSUME NEW q, q \in StoredHere' PROVE q \in StoredHere \/ q = p
    <3>1. PICK d \in Cases : q \in {d} \X ((atStart[d] + 1)..stored'[d])
      BY <2>1 DEF StoredHere
    <3>2. CASE d = c
      <4>1. q \in {c} \X ((atStart[c] + 1)..stored[c]) \/ q = p
        BY <1>2, <1>4, <3>1, <3>2
      <4> QED
        BY <4>1 DEF StoredHere
    <3>3. CASE d # c
      BY <1>2, <3>1, <3>3 DEF StoredHere
    <3> QED
      BY <3>2, <3>3
  <2>2. ASSUME NEW q, q \in StoredHere PROVE q \in StoredHere'
    <3>1. PICK d \in Cases : q \in {d} \X ((atStart[d] + 1)..stored[d])
      BY <2>2 DEF StoredHere
    <3>2. (atStart[d] + 1)..stored[d] \subseteq (atStart[d] + 1)..stored'[d]
      BY <1>2, <1>4
    <3> QED
      BY <3>1, <3>2 DEF StoredHere
  <2>3. p \in StoredHere'
    BY <1>2, <1>4 DEF StoredHere
  <2> QED
    BY <2>1, <2>2, <2>3
<1> QED
  BY <1>3, <1>5, FS_AddElement

\* The runs missing when a case that was short stores one.
LEMMA OneLessDue ==
  ASSUME TypeOK, NEW c \in Cases, stored' = [stored EXCEPT ![c] = stored[c] + 1],
         stored[c] < wanted, wanted <= Repeats,
         \A d \in Cases : Level(d) = wanted /\ Level(d)' = wanted
  PROVE  Cardinality(Due) = Cardinality(Due') + 1
<1> DEFINE p == <<c, stored[c] + 1>>
<1>1. stored \in [Cases -> Nat] /\ wanted \in Nat
  BY DEF TypeOK
<1>2. stored'[c] = stored[c] + 1 /\ \A d \in Cases : d # c => stored'[d] = stored[d]
  BY <1>1
<1>3. p \in Due
  <2>1. stored[c] + 1 \in 1..Repeats /\ stored[c] < stored[c] + 1 /\ stored[c] + 1 <= wanted
    BY <1>1, CountsAssumption
  <2> QED
    BY <2>1 DEF Due
<1>4. \A d \in Cases, n \in 1..Repeats : stored'[d] < n <=> stored[d] < n /\ <<d, n>> # p
  BY <1>1, <1>2
<1>5. \A q \in Cases \X (1..Repeats) :
        q[1] \in Cases /\ q[2] \in 1..Repeats /\ q = <<q[1], q[2]>>
  OBVIOUS
<1> HIDE DEF p
<1>6. \A q \in Cases \X (1..Repeats) : stored'[q[1]] < q[2] <=> stored[q[1]] < q[2] /\ q # p
  BY <1>4, <1>5
<1>7. \A q \in Cases \X (1..Repeats) : Level(q[1])' = Level(q[1])
  BY <1>5
<1>8. Due' = Due \ {p}
  BY <1>6, <1>7 DEF Due
<1> QED
  BY <1>3, <1>8, Counts, OneLess

\* The runs missing when the survey has looked at one case more.
LEMMA OneMoreDue ==
  ASSUME TypeOK, NEW c \in Cases, UNCHANGED <<stored, wanted>>, wanted <= Repeats,
         \A d \in Cases : d # c => Level(d)' = Level(d),
         Level(c) = wanted - 1, Level(c)' = wanted
  PROVE  /\ IsShort(c) => Cardinality(Due') = Cardinality(Due) + 1
         /\ ~IsShort(c) => Due' = Due
<1> DEFINE p == <<c, wanted>>
<1>1. stored \in [Cases -> Nat] /\ wanted \in 1..Repeats
  BY CountsAssumption DEF TypeOK
<1>2. \A q \in Cases \X (1..Repeats) :
        q[1] \in Cases /\ q[2] \in 1..Repeats /\ q = <<q[1], q[2]>>
  OBVIOUS
<1>3. \A n \in 1..Repeats : n <= wanted <=> n <= wanted - 1 \/ n = wanted
  BY <1>1, CountsAssumption
<1>4. \A q \in Cases \X (1..Repeats) :
        q[2] <= Level(q[1])' <=> q[2] <= Level(q[1]) \/ q = p
  <2> SUFFICES ASSUME NEW q \in Cases \X (1..Repeats)
               PROVE  q[2] <= Level(q[1])' <=> q[2] <= Level(q[1]) \/ q = p
    OBVIOUS
  <2>1. CASE q[1] = c
    BY <1>2, <1>3, <2>1
  <2>2. CASE q[1] # c
    <3>1. q # p /\ Level(q[1])' = Level(q[1])
      BY <1>2, <2>2
    <3> QED
      BY <3>1
  <2> QED
    BY <2>1, <2>2
<1>5. p \in Cases \X (1..Repeats) /\ p[1] = c /\ p[2] = wanted
  BY <1>1
<1>6. p \notin Due
  BY <1>1, <1>5 DEF Due
<1>7. IsShort(c) <=> stored[p[1]] < p[2]
  BY <1>5 DEF IsShort
<1> HIDE DEF p
<1>8. CASE IsShort(c)
  <2>1. Due' = Due \cup {p}
    BY <1>4, <1>5, <1>7, <1>8 DEF Due
  <2> QED
    BY <1>6, <1>8, <2>1, Counts, FS_AddElement
<1>9. CASE ~IsShort(c)
  <2>1. Due' = Due
    BY <1>4, <1>5, <1>7, <1>9 DEF Due
  <2> QED
    BY <1>9, <2>1
<1> QED
  BY <1>8, <1>9

\* A run in the pool whose outcome changes without anything stored.
LEMMA SameOutcome ==
  ASSUME TypeOK, NEW s \in Busy, NEW k \in Task, running' = [running EXCEPT ![s] = k],
         Unstored(s), k.out \notin {"passed", "failed"}
  PROVE  Settled' = Settled /\ Owing' = Owing
<1>1. Busy' = Busy /\ running'[s] = k /\ \A t \in Busy' : t # s => running'[t] = running[t]
  BY OutcomeFacts
<1>2. \A t \in Busy' : Unstored(t)' <=> Unstored(t)
  BY <1>1 DEF Unstored
<1> QED
  BY <1>1, <1>2 DEF Settled, Owing

\* A step that leaves the summary, the pool and what is missing alone.
LEMMA FrameSummary ==
  ASSUME SummaryInv, UNCHANGED <<stored, atStart, running, pending, totals>>, pc' # "finished",
         pc \notin {"killed", "aborted", "gaveup"},
         Due' = Due \/ pc' \in {"killed", "aborted", "gaveup"}
  PROVE  SummaryInv'
<1>1. StoredHere' = StoredHere /\ Settled' = Settled /\ Owing' = Owing
  BY SameStored, SameSlots
<1> QED
  BY <1>1 DEF SummaryInv

\* An empty pool has no places taken.
LEMMA NoSlots == Busy = {} => Cardinality(Settled) = 0 /\ Cardinality(Owing) = 0
<1>1. Busy = {} => Settled = {} /\ Owing = {}
  BY DEF Settled, Owing
<1> QED
  BY <1>1, FS_EmptySet

\* Nothing is stored here yet when an invocation begins, and nothing missing.
LEMMA NothingYet ==
  ASSUME TypeOK, atStart = stored, totals = NoTotals, pending = <<>>, running = Empty,
         pc = "pass", wanted = 1
  PROVE  SummaryInv
<1>1. stored \in [Cases -> Nat]
  BY DEF TypeOK
<1>2. \A c \in Cases : (atStart[c] + 1)..stored[c] = {}
  BY <1>1
<1>3. StoredHere = {}
  BY <1>2 DEF StoredHere
<1>4. Due = {}
  BY CountsAssumption DEF Due, Level, InPass, Stopped
<1>5. Busy = {}
  BY DEF Busy, Empty
<1>6. Cardinality(StoredHere) = 0 /\ IsFiniteSet(StoredHere) /\ Cardinality(Due) = 0
  BY <1>3, <1>4, FS_EmptySet
<1>7. \A c \in Cases : atStart[c] <= stored[c]
  BY <1>1
<1>8. totals.run = 0 /\ totals.abandoned = 0 /\ Len(pending) = 0
  BY DEF NoTotals
<1> QED
  BY <1>5, <1>6, <1>7, <1>8, NoSlots DEF SummaryInv

LEMMA StepSummary ==
  DistinctCases /\ Inv /\ Inv' /\ SummaryInv /\ [Next]_vars => SummaryInv'
<1> SUFFICES ASSUME DistinctCases, Inv, Inv', SummaryInv, [Next]_vars PROVE SummaryInv'
  OBVIOUS
<1>a. TypeOK /\ Shape /\ PoolInv /\ TypeOK' /\ Shape'
  BY DEF Inv, TypeInv
<1>b. /\ totals.run \in Nat /\ totals.abandoned \in Nat /\ Len(pending) \in Nat
      /\ wanted \in Nat /\ pending \in Seq(Entry)
  BY <1>a, LenProperties DEF TypeOK
<1>c. ASSUME NEW s \in Busy, running' = PoppedFrom(s), UNCHANGED <<stored, atStart, totals, wanted>>,
             Unstored(s), Len(pending') = Len(pending) + 1, InPass, InPass'
      PROVE  SummaryInv'
  <2>1. Settled' = Settled /\ Cardinality(Owing) = Cardinality(Owing') + 1
    BY <1>a, <1>c, PopCounts
  <2>2. Due' = Due /\ StoredHere' = StoredHere
    BY <1>c, SameDue, SameStored DEF Level
  <2>3. pc # "finished" /\ pc' # "finished"
        /\ pc \notin {"killed", "aborted", "gaveup"} /\ pc' \notin {"killed", "aborted", "gaveup"}
    BY <1>c DEF InPass, Stopped
  <2>4. totals.abandoned + Len(pending') + Cardinality(Owing') = totals.abandoned + Len(pending) + Cardinality(Owing)
    BY <1>b, <1>c, <2>1, CountsNext, FromThirdToSecond
  <2> QED
    BY <1>c, <2>1, <2>2, <2>3, <2>4 DEF SummaryInv
<1>1. CASE BeginPass
  <2>1. Due' = Due
    <3>1. \A c \in Cases : Level(c)' = Level(c)
      BY <1>1 DEF BeginPass, Level, InPass, Stopped
    <3> QED
      BY <1>1, <3>1, SameDue DEF BeginPass
  <2> QED
    BY <1>1, <2>1, FrameSummary DEF BeginPass, pool
<1>2. CASE Survey
  <2>1. looked \in Nat /\ looked + 1 \in DOMAIN CaseList /\ 1..looked \subseteq DOMAIN CaseList
    <3>1. Len(CaseList) \in Nat /\ DOMAIN CaseList = 1..Len(CaseList)
      BY CaseListAssumption, LenProperties
    <3>2. looked \in 0..Len(CaseList) /\ looked < Len(CaseList)
      BY <1>2, <1>a DEF Survey, TypeOK
    <3> QED
      BY <3>1, <3>2
  <2>2. PICK c \in Cases : c = CaseList[looked + 1]
    BY <2>1 DEF Cases
  <2> DEFINE e == [case |-> c, attempts |-> 0]
  <2>0. e \in Entry
    OBVIOUS
  <2>3. pc = "survey" /\ pc' = "survey" /\ looked' = looked + 1 /\ wanted <= Repeats
        /\ UNCHANGED <<stored, wanted, running, totals, atStart>>
    BY <1>2, <1>a DEF Survey, Shape, history
  <2>4. ~\E j \in 1..looked : CaseList[j] = c
    BY <2>1, <2>2 DEF DistinctCases
  <2>5. Level(c) = wanted - 1 /\ Level(c)' = wanted
    <3>1. looked + 1 \in 1..(looked + 1)
      BY <2>1
    <3>2. \E j \in 1..looked' : CaseList[j] = c
      BY <2>2, <2>3, <3>1
    <3> QED
      BY <2>3, <2>4, <3>2 DEF Level, InPass, Stopped
  <2>6. \A d \in Cases : d # c => Level(d)' = Level(d)
    <3> SUFFICES ASSUME NEW d \in Cases, d # c PROVE Level(d)' = Level(d)
      OBVIOUS
    <3>1. 1..(looked + 1) = (1..looked) \cup {looked + 1}
      BY <2>1
    <3>2. (\E j \in 1..(looked + 1) : CaseList[j] = d) <=> \E j \in 1..looked : CaseList[j] = d
      BY <2>2, <3>1
    <3> QED
      BY <2>3, <3>2 DEF Level, InPass, Stopped
  <2>7. StoredHere' = StoredHere /\ Settled' = Settled /\ Owing' = Owing
    BY <2>3, SameStored, SameSlots
  <2>8. \/ Len(pending') = Len(pending) + 1 /\ Cardinality(Due') = Cardinality(Due) + 1
        \/ Len(pending') = Len(pending) /\ Cardinality(Due') = Cardinality(Due)
    <3> HIDE DEF e
    <3>1. CASE IsShort(c)
      <4>1. pending' = Append(pending, e)
        BY <1>2, <2>2, <3>1 DEF Survey, e
      <4>2. Len(pending') = Len(pending) + 1
        BY <1>b, <2>0, <4>1, AppendProperties
      <4>3. Cardinality(Due') = Cardinality(Due) + 1
        BY <1>a, <2>2, <2>3, <2>5, <2>6, <3>1, OneMoreDue
      <4> QED
        BY <4>2, <4>3
    <3>2. CASE ~IsShort(c)
      <4>1. pending' = pending
        BY <1>2, <2>2, <3>2 DEF Survey
      <4>2. Due' = Due
        BY <1>a, <2>2, <2>3, <2>5, <2>6, <3>2, OneMoreDue
      <4> QED
        BY <4>1, <4>2
    <3> QED
      BY <3>1, <3>2
  <2>9. totals.abandoned + Len(pending) + Cardinality(Owing) = Cardinality(Due)
    BY <2>3 DEF SummaryInv
  <2>10. totals.abandoned + Len(pending') + Cardinality(Owing) = Cardinality(Due')
    <3>1. totals.abandoned \in Nat /\ Len(pending) \in Nat
          /\ Cardinality(Owing) \in Nat /\ Cardinality(Due) \in Nat
      BY <1>b, Counts
    <3>2. CASE Len(pending') = Len(pending) + 1 /\ Cardinality(Due') = Cardinality(Due) + 1
      <4> DEFINE m == totals.abandoned
                 l == Len(pending)
                 n == Len(pending')
                 k == Cardinality(Owing)
                 d == Cardinality(Due)
                 total == Cardinality(Due')
      <4>1. m \in Nat /\ l \in Nat /\ k \in Nat /\ d \in Nat /\ m + l + k = d
            /\ n = l + 1 /\ total = d + 1
        BY <2>9, <3>1, <3>2
      <4> HIDE DEF m, l, n, k, d, total
      <4>2. m + n + k = total
        BY <4>1
      <4> QED
        BY <4>2 DEF m, n, k, total
    <3>3. CASE Len(pending') = Len(pending) /\ Cardinality(Due') = Cardinality(Due)
      BY <2>9, <3>3
    <3> QED
      BY <2>8, <3>2, <3>3
  <2> QED
    BY <2>3, <2>7, <2>10 DEF SummaryInv
<1>3. CASE SurveyEnds
  <2>1. \A c \in Cases : \E j \in 1..looked : CaseList[j] = c
    <3>1. looked = Len(CaseList) /\ DOMAIN CaseList = 1..Len(CaseList)
      BY <1>3, CaseListAssumption, LenProperties DEF SurveyEnds
    <3> QED
      BY <3>1 DEF Cases
  <2>2. \A c \in Cases : Level(c)' = Level(c)
    BY <1>3, <2>1 DEF SurveyEnds, Level, InPass, Stopped, pass
  <2>3. Due' = Due
    BY <1>3, <2>2, SameDue DEF SurveyEnds
  <2> QED
    BY <1>3, <2>3, FrameSummary DEF SurveyEnds, pool, history
<1>4. CASE FinishStudy
  <2>1. pc = "pass" /\ pc' = "finished" /\ wanted = Repeats + 1 /\ pending = <<>> /\ running = Empty
    BY <1>4, <1>a, CountsAssumption DEF FinishStudy, LastPass, TypeOK, Shape
  <2>2. UNCHANGED <<stored, atStart, running, pending, totals, wanted>>
    BY <1>4 DEF FinishStudy, pass, pool, history
  <2>3. \A c \in Cases : Level(c)' = Level(c)
    BY <2>1, <2>2 DEF Level, InPass, Stopped
  <2>4. StoredHere' = StoredHere /\ Settled' = Settled /\ Owing' = Owing /\ Due' = Due
    BY <2>2, <2>3, SameStored, SameSlots, SameDue
  <2> QED
    BY <2>1, <2>2, <2>4 DEF SummaryInv
<1>5. CASE Wait \/ Wake \/ DrainEnds \/ Requeued \/ Answered
  <2>1. InPass /\ InPass' /\ UNCHANGED <<stored, wanted, atStart, running, pending, totals>>
    BY <1>5 DEF Wait, Wake, DrainEnds, Requeued, Answered, InPass, Stopped, pass, pool, history
  <2>2. Due' = Due
    BY <2>1, SameDue DEF Level
  <2> QED
    BY <2>1, <2>2, FrameSummary DEF InPass, Stopped
<1>6. CASE GiveUp
  BY <1>6, FrameSummary DEF GiveUp, pool, history
<1>7. CASE EndPass
  <2>1. \A c \in Cases : Level(c)' = Level(c)
    BY <1>7, <1>b DEF EndPass, Level, InPass, Stopped
  <2>2. Due' = Due
    BY <1>7, <2>1, SameDue DEF EndPass
  <2> QED
    BY <1>7, <2>2, FrameSummary DEF EndPass, pool, history
<1>8. ASSUME NEW s \in Slots, Start(s) PROVE SummaryInv'
  <2> DEFINE k == Started(Head(pending))
  <2>1. pending # <<>> /\ pending' = Tail(pending) /\ s \in Idle /\ running' = [running EXCEPT ![s] = k]
        /\ pc = "fill" /\ pc' = "fill" /\ UNCHANGED <<stored, wanted, atStart, totals>>
    BY <1>8 DEF Start, pass, history
  <2>2. Head(pending) \in Entry /\ Len(pending) = Len(pending') + 1 /\ Len(pending') \in Nat
    <3>1. pending \in Seq(Entry) /\ pending # <<>>
      BY <1>b, <2>1
    <3>2. Head(pending) \in Entry /\ Tail(pending) \in Seq(Entry) /\ Len(Tail(pending)) = Len(pending) - 1
      BY <3>1, HeadTailProperties
    <3>3. Len(Tail(pending)) \in Nat
      BY <3>2, LenProperties
    <3> QED
      BY <1>b, <2>1, <3>2, <3>3
  <2>3. k \in Task /\ k.out = "active"
    BY <2>2 DEF Started, Task
  <2> HIDE DEF k
  <2>4. /\ Busy' = Busy \cup {s} /\ running'[s] = k
        /\ \A t \in Busy' : t # s => t \in Busy /\ running'[t] = running[t]
    BY <1>a, <2>1, <2>3, FillFacts
  <2>5. s \notin Busy
    BY <2>1 DEF Idle
  <2>6. Unstored(s)' /\ \A t \in Busy : running'[t] = running[t] /\ (Unstored(t)' <=> Unstored(t))
    BY <2>3, <2>4, <2>5 DEF Unstored
  <2>7. Settled' = Settled /\ Owing' = Owing \cup {s} /\ s \notin Owing
    BY <2>4, <2>5, <2>6 DEF Settled, Owing
  <2>8. Cardinality(Owing') = Cardinality(Owing) + 1
    BY <2>7, Counts, FS_AddElement
  <2>9. Due' = Due /\ StoredHere' = StoredHere
    BY <2>1, SameDue, SameStored DEF Level, InPass, Stopped
  <2>10. totals.abandoned + Len(pending) + Cardinality(Owing) = totals.abandoned + Len(pending') + Cardinality(Owing')
    <3>1. totals.abandoned \in Nat /\ Len(pending') \in Nat /\ Cardinality(Owing) \in Nat
      BY <1>b, <2>2, Counts, Zenon
    <3>2. Len(pending) = Len(pending') + 1 /\ Cardinality(Owing') = Cardinality(Owing) + 1
      BY <2>2, <2>8, Zenon
    <3> QED BY <3>1, <3>2
  <2> QED
    BY <2>1, <2>7, <2>9, <2>10 DEF SummaryInv
<1>9. ASSUME NEW s \in Slots, Count(s) PROVE SummaryInv'
  <2>1. s \in Busy /\ ~Unstored(s) /\ running' = PoppedFrom(s) /\ pc = "drain" /\ pc' = "drain"
        /\ UNCHANGED <<stored, wanted, atStart, pending>>
    BY <1>9, <1>a DEF Count, Pop, Shape, Unstored, pass, history
  <2>2. totals'.run = totals.run + 1 /\ totals'.abandoned = totals.abandoned
    BY <1>9 DEF Count, CountedRun
  <2>3. Owing' = Owing /\ Cardinality(Settled) = Cardinality(Settled') + 1
    BY <1>a, <2>1, PopCounts
  <2>4. Due' = Due /\ StoredHere' = StoredHere
    BY <2>1, SameDue, SameStored DEF Level, InPass, Stopped
  <2>5. totals'.run + Cardinality(Settled') = totals.run + Cardinality(Settled)
    <3>1. totals.run \in Nat /\ totals'.run = totals.run + 1
      BY <1>b, <2>2
    <3>2. Cardinality(Settled') \in Nat /\ Cardinality(Settled) = Cardinality(Settled') + 1
      BY <2>3, CountsNext
    <3> QED
      BY <3>1, <3>2, FromSecondToFirst
  <2> QED
    BY <2>1, <2>2, <2>3, <2>4, <2>5 DEF SummaryInv
<1>10. ASSUME NEW s \in Slots, Retry(s) PROVE SummaryInv'
  <2>1. s \in Busy /\ Unstored(s) /\ running' = PoppedFrom(s) /\ InPass /\ InPass'
        /\ UNCHANGED <<stored, wanted, atStart, totals>> /\ pending' = PutBehind(running[s])
    BY <1>10, <1>a DEF Retry, Pop, Shape, FailedItself, Unstored, InPass, Stopped, pass, history
  <2>2. Len(pending') = Len(pending) + 1
    BY <1>a, <1>b, <2>1, BusyTask, AppendProperties DEF PutBehind
  <2> QED
    BY <1>c, <2>1, <2>2
<1>11. ASSUME NEW s \in Slots, Refused(s) \/ Requeue(s) PROVE SummaryInv'
  <2>1. s \in Busy /\ Unstored(s) /\ running' = PoppedFrom(s) /\ InPass /\ InPass'
        /\ UNCHANGED <<stored, wanted, atStart, totals>> /\ pending' = PutBack(running[s])
    BY <1>11, <1>a DEF Refused, Requeue, Unfinished, Active, Shape, Unstored, InPass, Stopped, pass, history
  <2>2. EntryOf(running[s]) \in Entry
    BY <1>a, <2>1, BusyTask
  <2>3. DOMAIN pending' = 1..(Len(pending) + 1) /\ pending' \in Seq(Entry)
    BY <1>b, <2>1, <2>2, Cons DEF PutBack
  <2>4. Len(pending') = Len(pending) + 1
    BY <1>b, <2>3, LenProperties
  <2> QED
    BY <1>c, <2>1, <2>4
<1>12. ASSUME NEW s \in Slots, Abandon(s) PROVE SummaryInv'
  <2>1. s \in Busy /\ Unstored(s) /\ running' = PoppedFrom(s) /\ pc = "drain" /\ pc' = "drain"
        /\ UNCHANGED <<stored, wanted, atStart, pending>>
    BY <1>12, <1>a DEF Abandon, Pop, Shape, FailedItself, Unstored, pass, history
  <2>2. totals'.run = totals.run /\ totals'.abandoned = totals.abandoned + 1
    BY <1>12, <1>a DEF Abandon, ReportedAbandoned, TypeOK
  <2>3. Settled' = Settled /\ Cardinality(Owing) = Cardinality(Owing') + 1
    BY <1>a, <2>1, PopCounts
  <2>4. Due' = Due /\ StoredHere' = StoredHere
    BY <2>1, SameDue, SameStored DEF Level, InPass, Stopped
  <2>5. totals'.abandoned + Len(pending) + Cardinality(Owing') = totals.abandoned + Len(pending) + Cardinality(Owing)
    BY <1>b, <2>2, <2>3, CountsNext, FromThirdToFirst
  <2> QED
    BY <2>1, <2>2, <2>3, <2>4, <2>5 DEF SummaryInv
<1>13. CASE Kill \/ \E s \in Slots : Abort(s)
  <2>1. pc' \in {"killed", "aborted"} /\ UNCHANGED <<stored, atStart>>
    BY <1>13 DEF Kill, Abort, history
  <2>2. StoredHere' = StoredHere
    BY <2>1, SameStored
  <2> QED
    BY <2>1, <2>2 DEF SummaryInv
<1>14. ASSUME NEW s \in Slots, NEW verdict \in {"passed", "failed"}, Store(s, verdict)
       PROVE  SummaryInv'
  <2> DEFINE k == [running[s] EXCEPT !.out = verdict]
             c == running[s].case
  <2>1. s \in Busy /\ running[s] \in Task /\ c \in Cases /\ Unstored(s)
    BY <1>14, <1>a, BusyTask DEF Store, Active, Unstored
  <2>2. k \in Task /\ k.out = verdict
    BY <2>1 DEF Task
  <2>3. /\ running' = [running EXCEPT ![s] = k] /\ stored' = [stored EXCEPT ![c] = stored[c] + 1]
        /\ pc = "await" /\ pc' = "await" /\ UNCHANGED <<wanted, pending, totals, atStart>>
    BY <1>14 DEF Store, history
  <2>4. stored[c] < wanted /\ wanted <= Repeats
    BY <1>a, <2>1, <2>3 DEF PoolInv, OwedWork, StillShort, Shape, InPass, Stopped
  <2> HIDE DEF c, k
  <2>5. \A d \in Cases : Level(d) = wanted /\ Level(d)' = wanted
    BY <2>3 DEF Level, InPass, Stopped
  <2>6. Cardinality(Due) = Cardinality(Due') + 1
    BY <1>a, <2>1, <2>3, <2>4, <2>5, OneLessDue
  <2>7. IsFiniteSet(StoredHere') /\ Cardinality(StoredHere') = Cardinality(StoredHere) + 1
    BY <1>a, <2>1, <2>3, OneMoreStored DEF SummaryInv
  <2>8. Busy' = Busy /\ running'[s] = k /\ \A t \in Busy' : t # s => running'[t] = running[t]
    BY <1>a, <2>1, <2>2, <2>3, OutcomeFacts
  <2>9. ~Unstored(s)' /\ \A t \in Busy : t # s => (Unstored(t)' <=> Unstored(t))
    BY <2>2, <2>8 DEF Unstored
  <2>10. /\ s \in Owing /\ Owing' = Owing \ {s}
         /\ s \notin Settled /\ Settled' = Settled \cup {s}
    BY <2>1, <2>8, <2>9 DEF Settled, Owing
  <2>11. Cardinality(Owing) = Cardinality(Owing') + 1
    BY <2>10, Counts, OneLess
  <2>12. Cardinality(Settled') = Cardinality(Settled) + 1
    BY <2>10, Counts, FS_AddElement
  <2>13. \A d \in Cases : atStart[d] <= stored'[d]
    <3> SUFFICES ASSUME NEW d \in Cases PROVE atStart[d] <= stored'[d]
      OBVIOUS
    <3>1. stored \in [Cases -> Nat] /\ atStart \in [Cases -> Nat]
      BY <1>a DEF TypeOK
    <3>2. stored[d] \in Nat /\ atStart[d] \in Nat /\ atStart[d] <= stored[d]
      BY <3>1 DEF SummaryInv
    <3>3. stored'[d] = stored[d] \/ stored'[d] = stored[d] + 1
      BY <2>3, <3>1
    <3> QED BY <3>2, <3>3
  <2>14. totals.run + Cardinality(Settled') = Cardinality(StoredHere')
    <3>1. totals.run + Cardinality(Settled) = Cardinality(StoredHere)
      BY <2>3 DEF SummaryInv
    <3>2. Cardinality(StoredHere) \in Nat
      BY FS_CardinalityType DEF SummaryInv
    <3>3. Cardinality(Settled') = Cardinality(Settled) + 1 /\ Cardinality(Settled) \in Nat
          /\ Cardinality(StoredHere') = Cardinality(StoredHere) + 1 /\ totals.run \in Nat
      BY <1>b, <2>7, <2>12, Counts
    <3> QED
      BY <3>1, <3>2, <3>3, OneMoreEach
  <2>15. totals.abandoned + Len(pending) + Cardinality(Owing') = Cardinality(Due')
    <3>1. totals.abandoned + Len(pending) + Cardinality(Owing) = Cardinality(Due)
      BY <2>3 DEF SummaryInv
    <3> QED
      BY <1>b, <2>6, <2>11, <3>1, CountsNext, OneLessEach
  <2> QED
    BY <2>3, <2>7, <2>13, <2>14, <2>15 DEF SummaryInv
<1>15. ASSUME NEW s \in Slots, NEW k \in Task, s \in Active,
              pc = "await", pc' = "await", running' = [running EXCEPT ![s] = k],
              k.out \in {"infra", "raised"}, UNCHANGED <<wanted, stored, pending, totals, atStart>>
       PROVE  SummaryInv'
  <2>1. s \in Busy /\ Unstored(s)
    BY <1>15 DEF Active, Unstored
  <2>2. Settled' = Settled /\ Owing' = Owing
    BY <1>a, <1>15, <2>1, SameOutcome
  <2>3. Due' = Due /\ StoredHere' = StoredHere
    BY <1>15, SameDue, SameStored DEF Level, InPass, Stopped
  <2> QED
    BY <1>15, <2>2, <2>3 DEF SummaryInv
<1>16. ASSUME NEW s \in Slots, NEW cause \in {"own", "outage"}, NEW text \in Texts,
              Fail(s, cause, text)
       PROVE  SummaryInv'
  <2> DEFINE k == [running[s] EXCEPT !.out = "infra", !.cause = cause, !.text = text]
  <2>1. s \in Busy /\ running[s] \in Task
    BY <1>16, <1>a, BusyTask DEF Fail, Active
  <2>2. k \in Task /\ k.out = "infra"
    BY <2>1 DEF Task
  <2>3. /\ s \in Active /\ pc = "await" /\ pc' = "await" /\ running' = [running EXCEPT ![s] = k]
        /\ UNCHANGED <<wanted, stored, pending, totals, atStart>>
    BY <1>16 DEF Fail, pass
  <2> HIDE DEF k
  <2> QED
    BY <1>15, <2>2, <2>3
<1>17. ASSUME NEW s \in Slots, RaiseError(s) PROVE SummaryInv'
  <2> DEFINE k == [running[s] EXCEPT !.out = "raised"]
  <2>1. s \in Busy /\ running[s] \in Task
    BY <1>17, <1>a, BusyTask DEF RaiseError, Active
  <2>2. k \in Task /\ k.out = "raised"
    BY <2>1 DEF Task
  <2>3. /\ s \in Active /\ pc = "await" /\ pc' = "await" /\ running' = [running EXCEPT ![s] = k]
        /\ UNCHANGED <<wanted, stored, pending, totals, atStart>>
    BY <1>17 DEF RaiseError, pass, history
  <2> HIDE DEF k
  <2> QED
    BY <1>15, <2>2, <2>3
<1>18. CASE EndpointChanges \/ UNCHANGED vars
  <2>1. UNCHANGED <<pc, wanted, looked, stored, atStart, running, pending, totals>>
    BY <1>18 DEF EndpointChanges, vars, pass, pool, history
  <2>2. Due' = Due /\ StoredHere' = StoredHere /\ Settled' = Settled /\ Owing' = Owing
    BY <2>1, SameDue, SameStored, SameSlots DEF Level, InPass
  <2> QED
    BY <2>1, <2>2 DEF SummaryInv
<1>19. CASE Restart
  <2>1. (SummaryInv)'
    <3>1. TypeOK' /\ atStart' = stored' /\ totals' = NoTotals /\ pending' = <<>> /\ running' = Empty
          /\ pc' = "pass" /\ wanted' = 1
      BY <1>19, <1>a DEF Restart
    <3>2. (TypeOK /\ atStart = stored /\ totals = NoTotals /\ pending = <<>> /\ running = Empty
           /\ pc = "pass" /\ wanted = 1)'
      BY <3>1
    <3>3. (TypeOK /\ atStart = stored /\ totals = NoTotals /\ pending = <<>> /\ running = Empty
           /\ pc = "pass" /\ wanted = 1 => SummaryInv)'
      BY NothingYet, PTL
    <3> QED
      BY <3>2, <3>3
  <2> QED
    BY <2>1
<1> QED
  BY <1>1, <1>2, <1>3, <1>4, <1>5, <1>6, <1>7, <1>8, <1>9, <1>10, <1>11, <1>12, <1>13,
     <1>14, <1>16, <1>17, <1>18, <1>19
  DEF Next, Driver, Run, Complete

\* What a run of the driver prints agrees with the disk: the runs it counted are the
\* ones it stored, and the ones it reports abandoned are those the study is short of.
THEOREM SummaryTellsTheTruth == ASSUME DistinctCases PROVE Spec => []SummaryIsTrue
<1>1. Init => SummaryInv
  <2> SUFFICES ASSUME Init PROVE SummaryInv
    OBVIOUS
  <2>1. TypeOK
    BY InitType DEF TypeInv
  <2> QED
    BY <2>1, NothingYet DEF Init
<1>2. FullInv => Inv
  BY DEF FullInv
<1>3. DistinctCases /\ Inv /\ Inv' /\ SummaryInv /\ [Next]_vars => SummaryInv'
  BY StepSummary
<1>4. Inv /\ SummaryInv => SummaryIsTrue
  <2> SUFFICES ASSUME Inv, SummaryInv PROVE SummaryIsTrue
    OBVIOUS
  <2>1. TypeOK
    BY DEF Inv, TypeInv
  <2>2. {s \in Finished : ~Unstored(s)} = Settled
    BY DEF Finished, Active, Settled, Unstored
  <2>3. CountsWhatItStored
    BY <2>2 DEF CountsWhatItStored, SummaryInv
  <2>4. ShortByWhatItAbandoned
    <3> SUFFICES ASSUME pc = "finished" PROVE totals.abandoned = Cardinality(ShortBy)
      BY DEF ShortByWhatItAbandoned
    <3>1. wanted = Repeats + 1 /\ pending = <<>> /\ Busy = {} /\ Len(pending) = 0
      BY DEF SummaryInv, Busy, Empty
    <3>2. stored \in [Cases -> Nat] /\ totals.abandoned \in Nat /\ Repeats \in Nat
      BY <2>1, CountsAssumption DEF TypeOK
    <3>3. \A c \in Cases : Level(c) = Repeats
      BY <3>1, <3>2 DEF Level, InPass, Stopped
    <3>4. \A c \in Cases, n \in 1..Repeats : stored[c] < n <=> n \in (stored[c] + 1)..Repeats
      BY <3>2
    <3>5. \A c \in Cases : (stored[c] + 1)..Repeats \subseteq 1..Repeats
      BY <3>2
    <3>6. Due = ShortBy
      <4>1. ASSUME NEW p \in Due PROVE p \in ShortBy
        <5>1. PICK c \in Cases, n \in 1..Repeats : p = <<c, n>>
          BY <4>1 DEF Due
        <5>2. n \in (stored[c] + 1)..Repeats
          BY <3>4, <4>1, <5>1 DEF Due
        <5> QED
          BY <5>1, <5>2 DEF ShortBy
      <4>2. ASSUME NEW p \in ShortBy PROVE p \in Due
        <5>1. PICK c \in Cases : p \in {c} \X ((stored[c] + 1)..Repeats)
          BY <4>2 DEF ShortBy
        <5>2. PICK n \in (stored[c] + 1)..Repeats : p = <<c, n>>
          BY <5>1
        <5>3. n \in 1..Repeats /\ stored[c] < n /\ n <= Level(c)
          BY <3>2, <3>3, <3>5, <5>2
        <5> QED
          BY <5>2, <5>3 DEF Due
      <4> QED
        BY <4>1, <4>2
    <3>7. totals.abandoned + Len(pending) + Cardinality(Owing) = Cardinality(Due)
      BY DEF SummaryInv
    <3> QED
      BY <3>1, <3>2, <3>6, <3>7, NoSlots
  <2> QED
    BY <2>3, <2>4 DEF SummaryIsTrue
<1> QED
  BY <1>1, <1>2, <1>3, <1>4, FullInvAlways, PTL DEF Spec

-----------------------------------------------------------------------------
(* The pool keeps the study's promise. *)

LEMMA InitRefines == Init => Promise!Init
BY CountsAssumption DEF Init, Promise!Init, PassesBegun, StillOwed, InPass, Stopped

\* A step that changes neither what is stored, nor the pass, nor what is owed.
LEMMA StutterRefines ==
  ASSUME UNCHANGED <<stored, wanted, failures, passStart>>,
         InPass' = InPass, PassesBegun' = PassesBegun
  PROVE  UNCHANGED Promise!promised
<1>1. Owed' = Owed
  BY DEF Owed, StillShort
<1>2. StillOwed' = StillOwed
  BY <1>1 DEF StillOwed
<1> QED
  BY <1>2 DEF Promise!promised

\* A step after which no invocation has anything begun or owed.
LEMMA OverRefines ==
  ASSUME UNCHANGED stored, ~InPass', PassesBegun' = 0
  PROVE  Promise!Next
BY DEF Promise!Next, Promise!Over, StillOwed

LEMMA StepRefines ==
  DistinctCases /\ FullInv /\ FullInv' /\ [Next]_vars => [Promise!Next]_(Promise!promised)
<1> SUFFICES ASSUME DistinctCases, FullInv, FullInv', [Next]_vars
             PROVE  Promise!Next \/ UNCHANGED Promise!promised
  OBVIOUS
<1>a. TypeOK /\ Shape /\ PoolInv /\ Kept /\ TypeOK' /\ Kept'
  BY DEF FullInv, Inv, TypeInv
<1> USE DEF InPass, Stopped
<1>1. CASE BeginPass
  <2>1. PassesBegun' = PassesBegun
    BY <1>1 DEF BeginPass, PassesBegun
  <2>2. StillOwed' = {} /\ StillOwed = {} /\ stored' = stored
    BY <1>1 DEF BeginPass, StillOwed
  <2> QED
    BY <2>1, <2>2 DEF Promise!promised
<1>2. CASE SurveyEnds
  <2>1. /\ pc = "survey" /\ pc' = "fill"
        /\ UNCHANGED <<stored, wanted, failures, passStart>>
        /\ wanted <= Repeats /\ wanted \in Nat
    BY <1>2, <1>a DEF SurveyEnds, pass, history, Shape, TypeOK
  <2>2. PassesBegun = wanted - 1 /\ PassesBegun' = wanted
    BY <2>1 DEF PassesBegun
  <2>3. StillOwed = {} /\ StillOwed' = Owed'
    BY <2>1 DEF StillOwed
  <2>4. Owed' = {c \in Cases : stored[c] < PassesBegun + 1}
    <3>1. \A c \in Cases : failures[c] = 0 /\ stored[c] = passStart[c]
      BY <1>a, <2>1 DEF PoolInv, SurveyInv
    <3>2. PassesBegun + 1 = wanted
      BY <2>1, <2>2
    <3> QED
      BY <2>1, <3>1, <3>2, CountsAssumption DEF Owed, StillShort
  <2> QED
    <3>1. PassesBegun < Repeats /\ PassesBegun' = PassesBegun + 1
      BY <2>1, <2>2, CountsAssumption
    <3>2. Promise!NextPass
      BY <2>1, <2>3, <2>4, <3>1, Zenon DEF Promise!NextPass
    <3> QED
      BY <3>2 DEF Promise!Next
<1>3. CASE Survey \/ FinishStudy \/ Wait \/ Wake \/ DrainEnds \/ Requeued \/ Answered
  <2>1. UNCHANGED <<stored, wanted, failures, passStart>> /\ InPass' = InPass
    BY <1>3 DEF Survey, FinishStudy, Wait, Wake, DrainEnds, Requeued, Answered, pass, history
  <2>2. PassesBegun' = PassesBegun
    BY <1>3, <2>1 DEF Survey, FinishStudy, Wait, Wake, DrainEnds, Requeued, Answered, PassesBegun
  <2> QED
    BY <2>1, <2>2, StutterRefines
<1>4. CASE EndPass
  <2>1. /\ pc = "fill" /\ pc' = "pass" /\ wanted' = wanted + 1 /\ wanted \in Nat
        /\ pending = <<>> /\ Busy = {} /\ stored' = stored
    BY <1>4, <1>a DEF EndPass, TypeOK
  <2>2. Owed = {}
    BY <1>a, <2>1 DEF Kept, NothingLost, Queued, InFlight
  <2>3. PassesBegun' = PassesBegun
    BY <2>1 DEF PassesBegun
  <2>4. StillOwed = {} /\ StillOwed' = {}
    BY <2>1, <2>2 DEF StillOwed
  <2> QED
    BY <2>1, <2>3, <2>4 DEF Promise!promised
<1>5. CASE GiveUp \/ Kill \/ \E s \in Slots : Abort(s)
  <2>1. stored' = stored /\ ~InPass' /\ pc' \in {"gaveup", "killed", "aborted"}
    BY <1>5 DEF GiveUp, Kill, Abort
  <2>2. PassesBegun' = 0
    BY <2>1 DEF PassesBegun
  <2> QED
    BY <2>1, <2>2, OverRefines
<1>6. CASE Restart
  <2>1. stored' = stored /\ ~InPass' /\ pc' = "pass" /\ wanted' = 1
    BY <1>6 DEF Restart
  <2>2. PassesBegun' = 0
    BY <2>1 DEF PassesBegun
  <2> QED
    BY <2>1, <2>2, OverRefines
<1>7. CASE \E s \in Slots : \/ Start(s) \/ Count(s) \/ Retry(s) \/ Abandon(s)
                            \/ Refused(s) \/ Requeue(s) \/ RaiseError(s)
  <2>1. UNCHANGED <<stored, wanted, failures, passStart>> /\ InPass' /\ InPass
    BY <1>7 DEF Start, Count, Retry, Abandon, Refused, Requeue, RaiseError, Pop, pass, history
  <2>2. PassesBegun' = PassesBegun
    BY <2>1 DEF PassesBegun
  <2> QED
    BY <2>1, <2>2, StutterRefines
<1>8. ASSUME NEW s \in Slots, NEW verdict \in {"passed", "failed"}, Store(s, verdict)
      PROVE  Promise!Next
  <2>1. s \in Busy /\ running[s].case \in Cases /\ Unstored(s) /\ ~FailedItself(running[s])
    BY <1>8, <1>a, BusyTask DEF Store, Active, Unstored, FailedItself
  <2>2. PICK c \in Cases : c = running[s].case
    BY <2>1
  <2>3. /\ stored' = [stored EXCEPT ![c] = @ + 1] /\ pc = "await" /\ pc' = "await"
        /\ UNCHANGED <<wanted, failures, passStart>>
    BY <1>8, <2>2 DEF Store, pass, history
  <2>4. StillShort(c) /\ failures[c] < MaxAttempts
    BY <1>a, <2>1, <2>2, BusyTask DEF PoolInv, OwedWork, AttemptsCounted, Counted
  <2>5. \A d \in Cases : d # c => stored'[d] = stored[d]
    BY <1>a, <2>3 DEF TypeOK
  <2>6. ~StillShort(c)'
    BY <1>a, <2>3, <2>4, SMTT(30) DEF StillShort, TypeOK
  <2>7. Owed' = Owed \ {c}
    BY <2>3, <2>5, <2>6 DEF Owed, StillShort
  <2>8. c \in StillOwed /\ StillOwed' = StillOwed \ {c} /\ PassesBegun' = PassesBegun
    BY <2>3, <2>4, <2>7 DEF StillOwed, Owed, PassesBegun
  <2> QED
    BY <2>3, <2>8 DEF Promise!Next, Promise!StoreRun
<1>9. ASSUME NEW s \in Slots, NEW cause \in {"own", "outage"}, NEW text \in Texts,
             Fail(s, cause, text)
      PROVE  Promise!Next \/ UNCHANGED Promise!promised
  <2>1. s \in Busy /\ running[s].case \in Cases /\ Unstored(s) /\ ~FailedItself(running[s])
    BY <1>9, <1>a, BusyTask DEF Fail, Active, Unstored, FailedItself
  <2>2. PICK c \in Cases : c = running[s].case
    BY <2>1
  <2>3. /\ UNCHANGED <<stored, wanted, passStart>> /\ pc = "await" /\ pc' = "await"
        /\ \/ failures' = failures
           \/ failures' = [failures EXCEPT ![c] = @ + 1]
    BY <1>9, <2>2 DEF Fail, pass
  <2>4. PassesBegun' = PassesBegun /\ StillOwed = Owed /\ StillOwed' = Owed'
    BY <2>3 DEF PassesBegun, StillOwed
  <2>5. StillShort(c) /\ failures[c] < MaxAttempts
    BY <1>a, <2>1, <2>2, BusyTask DEF PoolInv, OwedWork, AttemptsCounted, Counted
  <2>6. c \in Owed
    BY <2>5 DEF Owed
  <2>7. \A d \in Cases : StillShort(d)' = StillShort(d)
    BY <2>3 DEF StillShort
  <2>8. \A d \in Cases : d # c => failures'[d] = failures[d]
    BY <1>a, <2>3 DEF TypeOK
  <2>9. Owed' = Owed \/ Owed' = Owed \ {c}
    BY <2>6, <2>7, <2>8 DEF Owed
  <2>10. CASE Owed' = Owed
    BY <2>3, <2>4, <2>10 DEF Promise!promised
  <2>11. CASE Owed' = Owed \ {c}
    BY <2>3, <2>4, <2>6, <2>11 DEF Promise!Next, Promise!GiveUpOn
  <2> QED
    BY <2>9, <2>10, <2>11
<1>10. CASE EndpointChanges \/ UNCHANGED vars
  <2>1. UNCHANGED <<pc, stored, wanted, failures, passStart>>
    BY <1>10 DEF EndpointChanges, vars, pass, history
  <2>2. PassesBegun' = PassesBegun
    BY <2>1 DEF PassesBegun
  <2> QED
    BY <2>1, <2>2, StutterRefines
<1> QED
  BY <1>1, <1>2, <1>3, <1>4, <1>5, <1>6, <1>7, <1>8, <1>9, <1>10
  DEF Next, Driver, Run, Complete

\* The pool with its queue, its slots, retries, outages, kills and re-runs
\* implements the study: each pass owes one run to each case short of its count,
\* and stores exactly those, or gives up on them.
THEOREM PoolKeepsPromise == ASSUME DistinctCases PROVE Spec => KeepsPromise
<1>1. FullInv /\ FullInv' /\ [Next]_vars => [Promise!Next]_(Promise!promised)
  BY StepRefines
<1> QED
  BY <1>1, InitRefines, FullInvAlways, PTL DEF Spec, KeepsPromise, Promise!Spec
=============================================================================
