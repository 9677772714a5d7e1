--------------------------- MODULE CasePool_proofs ---------------------------
(***************************************************************************)
(* Theorems about CasePool, for every registry, any concurrencies, and any *)
(* number of invocations and failures: no case is lost or run twice at     *)
(* once, what is on disk can be trusted, and nothing stored is paid for    *)
(* again.  Each rests on one invariant, which says of a case that waits,   *)
(* of a run in flight and of a case that is through what its files hold.   *)
(***************************************************************************)
EXTENDS CasePool, FiniteSetTheorems, SequenceTheorems, WellFoundedInduction, TLAPS

\* From the call of run_cases to its return, its tasks and its summary account for all.
Live == pc \in {"fill", "wait", "handle", "ended"}

Shape ==
  /\ pc \in {"fill", "wait", "ended"} => batch = {}
  /\ pc = "ended" => pending = <<>> /\ running = {}

\* A case waits or is in flight once.
Unique ==
  /\ \A i, j \in DOMAIN pending : pending[i].case = pending[j].case => i = j
  /\ \A t, u \in running : t.case = u.case => t = u
  /\ \A i \in DOMAIN pending : \A t \in running : pending[i].case # t.case

Errors == {c \in Cases : files[c].error # 0}

Counted ==
  /\ IsFiniteSet(running)
  /\ Live => /\ Len(pending) + Cardinality(running) + totals.completed = Cardinality(specs)
             /\ totals.failedAfterRetry = Cardinality(Errors)

\* A case that is to be tried: what stands in its files is of attempts before, and a
\* record of them is one whose scoring was lost.
ToBeTried(c, failed) ==
  /\ c \in specs /\ failed = failures[c] /\ files[c].error = 0
  /\ files[c].run <= failed
  /\ files[c].run # 0 => c \in unscored

\* A run in flight: how far its files are is how far it is.
UnderWay(t) ==
  /\ t.case \in specs /\ t.failed = failures[t.case] /\ files[t.case].error = 0
  /\ files[t.case].run <= t.failed + 1
  /\ t.at \in {"evaluating", "transcribed"} => files[t.case].run <= t.failed
  /\ t.at = "transcribed" => files[t.case].transcript = t.failed + 1
  /\ t.at \in {"recorded", "returned"} => files[t.case].run = t.failed + 1
  /\ t.at \notin {"recorded", "returned"} /\ files[t.case].run # 0 => t.case \in unscored

\* A case that is through has one of the two files.
Through(c) == c \in unscored \/ ((files[c].run # 0) # (files[c].error # 0))

WaitingTraced == \A i \in DOMAIN pending : ToBeTried(pending[i].case, pending[i].failed)
FlightTraced == \A t \in running : UnderWay(t)
CasesTraced == Live => \A c \in specs : c \in Waiting \/ c \in InFlight \/ Through(c)

Traced == WaitingTraced /\ FlightTraced /\ CasesTraced

\* A case on disk, wherever it is.
OnDisk(c) ==
  /\ c \notin specs => files[c] = NoFiles
  /\ ~again /\ kept[c] => c \notin specs
  /\ files[c].run # 0 => files[c].transcript >= files[c].run
  /\ c \notin unscored => /\ files[c].run # 0 => files[c].run = failures[c] + 1
                          /\ files[c].error # 0 => files[c].error = failures[c]

Inv ==
  /\ TypeOK /\ Shape /\ Unique /\ Counted /\ Traced
  /\ \A c \in Cases : OnDisk(c)
  /\ RecoveryNotForgotten

USE RegistryAssumption, BoundsAssumption
USE DEF WaitingTraced, FlightTraced, CasesTraced

---------------------------------------------------------------------------
(* Queues and counts *)

\* An element put before a queue moves the others one place on.
LEMMA Cons ==
  ASSUME NEW S, NEW e \in S, NEW q \in Seq(S)
  PROVE  /\ <<e>> \o q \in Seq(S)
         /\ DOMAIN (<<e>> \o q) = 1..(Len(q) + 1) /\ Len(<<e>> \o q) = Len(q) + 1
         /\ (<<e>> \o q)[1] = e
         /\ \A i \in DOMAIN q : i + 1 \in DOMAIN (<<e>> \o q) /\ (<<e>> \o q)[i + 1] = q[i]
         /\ \A i \in DOMAIN (<<e>> \o q) :
              i = 1 \/ (i - 1 \in DOMAIN q /\ (<<e>> \o q)[i] = q[i - 1])
  OBVIOUS

\* The head taken off moves them one place down.
LEMMA Uncons ==
  ASSUME NEW S, NEW q \in Seq(S), q # <<>>
  PROVE  /\ Head(q) \in S /\ Head(q) = q[1] /\ 1 \in DOMAIN q
         /\ Tail(q) \in Seq(S) /\ Len(Tail(q)) = Len(q) - 1 /\ Len(q) \in Nat
         /\ \A i \in DOMAIN Tail(q) : i + 1 \in DOMAIN q /\ i + 1 # 1 /\ Tail(q)[i] = q[i + 1]
         /\ \A i \in DOMAIN q : i = 1 \/ (i - 1 \in DOMAIN Tail(q) /\ Tail(q)[i - 1] = q[i])
  OBVIOUS

\* There are finitely many cases.
LEMMA CasesFinite == IsFiniteSet(Cases)
<1>1. DOMAIN Registry = 1..Len(Registry) /\ Len(Registry) \in Nat
  OBVIOUS
<1>2. IsFiniteSet(DOMAIN Registry)
  BY <1>1, FS_Interval
<1>3. Registry \in Surjection(DOMAIN Registry, Cases)
  BY <1>1 DEF Surjection, Cases
<1> QED BY <1>2, <1>3, FS_Surjection

LEMMA SomeCases ==
  ASSUME NEW S \in SUBSET Cases
  PROVE  IsFiniteSet(S) /\ Cardinality(S) \in Nat
  BY CasesFinite, FS_Subset, FS_CardinalityType

\* A case has a place in the registry, and another one another.
LEMMA Placed ==
  ASSUME NEW c \in Cases
  PROVE  Place(c) \in Nat /\ Registry[Place(c)] = c
<1>1. \E k \in DOMAIN Registry : Registry[k] = c
  BY DEF Cases
<1>2. Place(c) \in DOMAIN Registry /\ Registry[Place(c)] = c
  BY <1>1 DEF Place
<1> QED BY <1>2

\* An order of some cases has each of them once.
LEMMA OrderIsWhole ==
  ASSUME NEW left \in SUBSET Cases, NEW order \in [1..Cardinality(left) -> left], Ordered(order)
  PROVE  /\ \A i, j \in 1..Cardinality(left) : order[i] = order[j] => i = j
         /\ \A c \in left : \E i \in 1..Cardinality(left) : order[i] = c
<1> DEFINE n == Cardinality(left)
<1>1. IsFiniteSet(left) /\ n \in Nat
  BY SomeCases
<1>2. ASSUME NEW i \in 1..n, NEW j \in 1..n, order[i] = order[j] PROVE i = j
  <2>1. order[i] \in Cases /\ Place(order[i]) \in Nat
    BY Placed
  <2>2. ~(i < j) /\ ~(j < i)
    BY <1>1, <1>2, <2>1 DEF Ordered
  <2> QED BY <1>1, <2>2
<1>3. order \in Injection(1..n, left)
  <2>1. \A a, b \in 1..n : order[a] = order[b] => a = b
    BY <1>2
  <2>2. order \in [1..n -> left] /\ DOMAIN order = 1..n
    OBVIOUS
  <2> HIDE DEF n
  <2> QED BY <2>1, <2>2 DEF Injection, IsInjective
<1>4. Cardinality(1..n) = n
  BY <1>1, FS_Interval
<1>5. order \in Surjection(1..n, left)
  BY <1>1, <1>3, <1>4, FS_Injection
<1> QED BY <1>2, <1>5 DEF Surjection

---------------------------------------------------------------------------
(* Types *)

LEMMA TaskTyped ==
  ASSUME TypeOK, NEW t \in running
  PROVE  /\ t \in Task /\ t.case \in Cases /\ t.failed \in {0, 1}
         /\ files[t.case] \in [transcript: 0..2, run: 0..2, verdict: 0..2, error: {0, 2}]
         /\ failures[t.case] \in 0..2
         /\ \A at \in {"evaluating", "transcribed", "recorded", "returned", "raised", "broken"} :
              LET u == [t EXCEPT !.at = at]
              IN  u \in Task /\ u.case = t.case /\ u.failed = t.failed /\ u.at = at
<1>1. t \in Task
  BY DEF TypeOK
<1>2. t.case \in Cases /\ t.failed \in {0, 1}
  BY <1>1 DEF Task
<1>3. /\ files[t.case] \in [transcript: 0..2, run: 0..2, verdict: 0..2, error: {0, 2}]
      /\ failures[t.case] \in 0..2
  BY <1>2 DEF TypeOK
<1>4. ASSUME NEW at \in {"evaluating", "transcribed", "recorded", "returned", "raised", "broken"},
             NEW u, u = [t EXCEPT !.at = at]
      PROVE  u \in Task /\ u.case = t.case /\ u.failed = t.failed /\ u.at = at
  BY <1>1, <1>4 DEF Task
<1> QED BY <1>1, <1>2, <1>3, <1>4

LEMMA EntryTyped ==
  ASSUME TypeOK, NEW i \in DOMAIN pending
  PROVE  /\ pending[i] \in Entry /\ pending[i].case \in Cases /\ pending[i].failed \in {0, 1}
         /\ files[pending[i].case] \in [transcript: 0..2, run: 0..2, verdict: 0..2, error: {0, 2}]
<1>1. pending \in Seq(Entry) /\ DOMAIN pending = 1..Len(pending)
  BY DEF TypeOK
<1>2. pending[i] \in Entry
  BY <1>1, ElementOfSeq
<1>3. pending[i].case \in Cases /\ pending[i].failed \in {0, 1}
  BY <1>2 DEF Entry
<1> QED BY <1>2, <1>3 DEF TypeOK

LEMMA InitInv == Init => Inv
<1> SUFFICES ASSUME Init PROVE Inv
  OBVIOUS
<1>1. TypeOK
  <2>1. pending \in Seq(Entry)
    BY DEF Init
  <2>2. again \in BOOLEAN /\ [c \in Cases |-> FALSE] \in [Cases -> BOOLEAN]
    BY Zenon DEF Init
  <2> QED BY <2>1, <2>2 DEF Init, TypeOK, PCs, NoFiles, NoTotals
<1>2. Shape /\ Unique /\ Counted /\ Traced
  BY FS_EmptySet DEF Init, Shape, Unique, Counted, Traced, Live
<1>3. \A c \in Cases : OnDisk(c)
  BY DEF Init, OnDisk, NoFiles
<1>4. RecoveryNotForgotten
  BY DEF Init, RecoveryNotForgotten
<1> QED BY <1>1, <1>2, <1>3, <1>4 DEF Inv

---------------------------------------------------------------------------
(* Steps of the driver that move no case *)

\* The driver goes from one part of its loop to the next.
LEMMA FrameKeeps ==
  ASSUME Inv, UNCHANGED <<args, pace, pending, running, totals, disk, writeFailures, failures>>,
         pc' \in PCs, Live' => Live, batch' \subseteq running,
         Shape'
  PROVE  Inv'
<1> USE DEF args, pace, disk
<1>1. TypeOK'
  BY DEF Inv, TypeOK
<1>2. Unique' /\ RecoveryNotForgotten'
  BY DEF Inv, Unique, RecoveryNotForgotten
<1>3. Counted'
  BY DEF Inv, Counted, Errors
<1>4. Traced'
  BY DEF Inv, Traced, ToBeTried, UnderWay, Waiting, InFlight, Through
<1>5. \A c \in Cases : OnDisk(c)'
  BY DEF Inv, OnDisk
<1> QED BY <1>1, <1>2, <1>3, <1>4, <1>5 DEF Inv

\* The driver stops with what is in flight cancelled, or the process is killed.
LEMMA NothingLeftKeeps ==
  ASSUME Inv, pc' \in {"stopped", "idle"}, running' = {}, batch' = {},
         pending' = pending \/ pending' = <<>>,
         UNCHANGED <<args, pace, totals, disk, writeFailures, failures>>
  PROVE  Inv'
<1> USE DEF args, pace, disk
<1>1. TypeOK' /\ Shape'
  <2>1. pending' \in Seq(Entry)
    <3>1. <<>> \in Seq(Entry)
      BY EmptySeq
    <3>2. pending \in Seq(Entry)
      BY DEF Inv, TypeOK
    <3> QED BY <3>1, <3>2
  <2> QED BY <2>1 DEF Inv, TypeOK, Shape, PCs
<1>2. Unique' /\ RecoveryNotForgotten'
  BY DEF Inv, Unique, RecoveryNotForgotten
<1>3. Counted'
  BY FS_EmptySet DEF Inv, Counted, Live
<1>4. Traced'
  BY DEF Inv, Traced, ToBeTried, Live
<1>5. \A c \in Cases : OnDisk(c)'
  BY DEF Inv, OnDisk
<1> QED BY <1>1, <1>2, <1>3, <1>4, <1>5 DEF Inv

\* An invocation queues the cases it is left with, each once, with nothing on disk.
LEMMA InvokeKeeps ==
  ASSUME Inv, NEW requested \in SUBSET Cases, NEW noSkip \in BOOLEAN, NEW n \in Concurrencies,
         Invoke(requested, noSkip, n)
  PROVE  Inv'
<1> DEFINE left == {c \in requested : noSkip \/ ~Skipped(c)}
<1>1. PICK order \in [1..Cardinality(left) -> left] : Ordered(order) /\ pending' = Queue(order)
  BY DEF Invoke
<1>2. left \in SUBSET Cases /\ Cardinality(left) \in Nat
  BY SomeCases
<1>3. /\ \A i, j \in 1..Cardinality(left) : order[i] = order[j] => i = j
      /\ \A c \in left : \E i \in 1..Cardinality(left) : order[i] = c
  <2> HIDE DEF left
  <2> QED BY <1>1, <1>2, OrderIsWhole
<1>4. /\ specs' = left /\ again' = noSkip /\ initial' = n /\ target' = n /\ streak' = 0
      /\ running' = {} /\ batch' = {} /\ totals' = NoTotals /\ pc' = "fill"
      /\ kept' = [c \in Cases |-> Complete(c)] /\ files' = [c \in Cases |-> NoFiles]
      /\ unscored' = {} /\ failures' = [c \in Cases |-> 0]
      /\ writeFailures' = writeFailures /\ invocations < MaxInvocations
      /\ invocations' = invocations + 1
  BY DEF Invoke
<1>5. left \subseteq requested /\ \A c \in left : noSkip \/ ~Complete(c)
  BY DEF Skipped
<1> HIDE DEF left
<1>6. /\ pending' \in Seq(Entry) /\ Len(pending') = Cardinality(left)
      /\ DOMAIN pending' = 1..Cardinality(left)
      /\ \A i \in 1..Cardinality(left) : pending'[i] = [case |-> order[i], failed |-> 0]
                                         /\ order[i] \in left
  <2>1. DOMAIN order = 1..Cardinality(left) /\ \A i \in DOMAIN order : order[i] \in left
    BY <1>1
  <2>2. pending' = [i \in 1..Cardinality(left) |-> [case |-> order[i], failed |-> 0]]
    BY <1>1, <2>1 DEF Queue
  <2>3. \A i \in 1..Cardinality(left) : [case |-> order[i], failed |-> 0] \in Entry
    BY <1>2, <2>1 DEF Entry
  <2>4. pending' \in [1..Cardinality(left) -> Entry]
    BY <2>2, <2>3, Zenon
  <2>5. pending' \in Seq(Entry)
    BY <1>2, <2>4, SeqDef
  <2> QED BY <1>2, <2>1, <2>2, <2>4, <2>5, LenProperties
<1>7. TypeOK'
  <2>1. again' \in BOOLEAN /\ kept' \in [Cases -> BOOLEAN]
    <3>1. \A c \in Cases : Complete(c) \in BOOLEAN
      BY DEF Complete, Inv, TypeOK
    <3> QED BY <1>4, <3>1, Zenon
  <2>2. files' \in [Cases -> [transcript: 0..2, run: 0..2, verdict: 0..2, error: {0, 2}]]
        /\ totals' \in [completed: Nat, errors: Nat, failedAfterRetry: Nat]
    BY <1>4 DEF NoFiles, NoTotals
  <2>3. invocations' \in 0..MaxInvocations /\ target' \in 1..initial' /\ initial' \in Concurrencies
    BY <1>4 DEF Inv, TypeOK
  <2> QED BY <1>2, <1>4, <1>6, <2>1, <2>2, <2>3 DEF Inv, TypeOK, PCs
<1>8. Shape' /\ RecoveryNotForgotten'
  BY <1>4 DEF Shape, RecoveryNotForgotten
<1>9. Unique'
  BY <1>3, <1>4, <1>6 DEF Unique
<1>10. Counted'
  <2>1. Errors' = {}
    BY <1>4 DEF Errors, NoFiles
  <2> QED BY <1>2, <1>4, <1>6, <2>1, FS_EmptySet DEF Counted, NoTotals
<1>11. Traced'
  <2>1. WaitingTraced'
    BY <1>2, <1>4, <1>6 DEF ToBeTried, NoFiles
  <2>2. \A c \in specs' : c \in Waiting'
    <3>1. \A i \in DOMAIN pending' : pending'[i].case = order[i]
      BY <1>6
    <3>2. \A c \in left : \E i \in DOMAIN pending' : order[i] = c
      BY <1>3, <1>6
    <3> QED BY <1>4, <3>1, <3>2 DEF Waiting
  <2> QED BY <1>4, <2>1, <2>2 DEF Traced
<1>12. \A c \in Cases : OnDisk(c)'
  BY <1>4, <1>5 DEF OnDisk, NoFiles
<1> QED BY <1>7, <1>8, <1>9, <1>10, <1>11, <1>12 DEF Inv

---------------------------------------------------------------------------
(* A case is started *)

LEMMA StartKeeps == ASSUME Inv, Start PROVE Inv'
<1> PICK e : e = Head(pending)
  OBVIOUS
<1> PICK u : u = [case |-> e.case, failed |-> e.failed, at |-> "evaluating"]
  OBVIOUS
<1>1. /\ pending # <<>> /\ pending \in Seq(Entry) /\ pc = "fill" /\ pc' = pc
      /\ pending' = Tail(pending) /\ running' = running \cup {u}
      /\ UNCHANGED <<specs, again, invocations, initial, target, streak, batch, totals, files,
                     kept, unscored, writeFailures, failures>>
  BY DEF Start, args, pace, disk, Inv, TypeOK
<1>2. /\ e = pending[1] /\ 1 \in DOMAIN pending
      /\ pending' \in Seq(Entry) /\ Len(pending') = Len(pending) - 1 /\ Len(pending) \in Nat
      /\ \A i \in DOMAIN pending' : i + 1 \in DOMAIN pending /\ i + 1 # 1 /\ pending'[i] = pending[i + 1]
      /\ \A i \in DOMAIN pending : i = 1 \/ (i - 1 \in DOMAIN pending' /\ pending'[i - 1] = pending[i])
  BY <1>1, Uncons
<1>3. e \in Entry /\ e.case \in Cases /\ e.failed \in {0, 1} /\ ToBeTried(e.case, e.failed)
  BY <1>2, EntryTyped DEF Inv, Traced
<1>4. u \in Task /\ u.case = e.case /\ u.failed = e.failed /\ u.at = "evaluating"
  BY <1>3 DEF Task
<1>5. \A t \in running : t.case # e.case
  BY <1>2 DEF Inv, Unique
<1>6. TypeOK' /\ Shape'
  <2>1. running' \subseteq Task /\ batch' \subseteq running'
    BY <1>1, <1>4 DEF Inv, TypeOK
  <2>2. TypeOK'
    BY <1>1, <1>2, <2>1 DEF Inv, TypeOK
  <2>3. Shape'
    BY <1>1 DEF Inv, Shape
  <2> QED BY <2>2, <2>3
<1>7. Unique'
  <2>1. \A i, j \in DOMAIN pending' : pending'[i].case = pending'[j].case => i = j
    <3>1. \A i, j \in DOMAIN pending : pending[i].case = pending[j].case => i = j
      BY Zenon DEF Inv, Unique
    <3>2. ASSUME NEW i \in DOMAIN pending', NEW j \in DOMAIN pending',
                 pending'[i].case = pending'[j].case
          PROVE  i = j
      <4>1. /\ i \in Nat /\ i + 1 \in DOMAIN pending /\ pending'[i] = pending[i + 1]
            /\ j \in Nat /\ j + 1 \in DOMAIN pending /\ pending'[j] = pending[j + 1]
        BY <1>2, <3>2
      <4>2. i + 1 = j + 1
        BY <3>1, <3>2, <4>1, Zenon
      <4> QED BY <4>1, <4>2
    <3> QED BY <3>2
  <2>2. \A i \in DOMAIN pending' : pending'[i].case # e.case
    <3>1. \A i \in DOMAIN pending : pending[i].case = pending[1].case => i = 1
      BY <1>2 DEF Inv, Unique
    <3> QED BY <1>2, <3>1
  <2>3. \A t, w \in running' : t.case = w.case => t = w
    BY <1>1, <1>4, <1>5 DEF Inv, Unique
  <2>4. \A i \in DOMAIN pending' : \A t \in running' : pending'[i].case # t.case
    BY <1>1, <1>2, <1>4, <2>2 DEF Inv, Unique
  <2> QED BY <2>1, <2>3, <2>4 DEF Unique
<1>8. Counted'
  <2>1. u \notin running /\ IsFiniteSet(running)
    BY <1>4, <1>5 DEF Inv, Counted
  <2>2. IsFiniteSet(running') /\ Cardinality(running') = Cardinality(running) + 1
        /\ Cardinality(running) \in Nat
    BY <1>1, <2>1, FS_AddElement, FS_CardinalityType
  <2>3. Errors' = Errors /\ Live' = Live
    BY <1>1 DEF Errors, Live
  <2>4. totals.completed \in Nat
    BY DEF Inv, TypeOK
  <2>5. Live => Len(pending) + Cardinality(running) + totals.completed = Cardinality(specs)
                /\ totals.failedAfterRetry = Cardinality(Errors)
    BY DEF Inv, Counted
  <2> QED BY <1>1, <1>2, <2>2, <2>3, <2>4, <2>5 DEF Counted
<1>9. Traced'
  <2>1. WaitingTraced'
    BY <1>1, <1>2 DEF Inv, Traced, ToBeTried
  <2>2. UnderWay(u)'
    <3>1. files[e.case] \in [transcript: 0..2, run: 0..2, verdict: 0..2, error: {0, 2}]
      BY <1>3 DEF Inv, TypeOK
    <3>2. UnderWay(u)
      BY <1>3, <1>4, <3>1 DEF ToBeTried, UnderWay
    <3> QED BY <1>1, <3>2 DEF UnderWay
  <2>3. \A t \in running : UnderWay(t)
    BY DEF Inv, Traced
  <2>4. FlightTraced'
    <3>1. \A t \in running : UnderWay(t)'
      BY <1>1, <2>3 DEF UnderWay
    <3> QED BY <1>1, <2>2, <3>1
  <2>5. \A c \in specs : c \in Waiting => c \in Waiting' \/ c = e.case
    BY <1>2 DEF Waiting
  <2>6. InFlight' = InFlight \cup {e.case}
    BY <1>1, <1>4 DEF InFlight
  <2>7. CasesTraced'
    BY <1>1, <2>5, <2>6 DEF Inv, Traced, Live, Through
  <2> QED BY <2>1, <2>4, <2>7 DEF Traced
<1>10. (\A c \in Cases : OnDisk(c)') /\ RecoveryNotForgotten'
  BY <1>1 DEF Inv, OnDisk, RecoveryNotForgotten
<1> QED BY <1>6, <1>7, <1>8, <1>9, <1>10 DEF Inv

---------------------------------------------------------------------------
(* A run moves on *)

\* A run goes from one of its points to another, and only its own files with it.
LEMMA MovedKeeps ==
  ASSUME Inv, NEW t \in running, pc = "wait", pc' = pc,
         NEW at \in {"evaluating", "transcribed", "recorded", "returned", "raised", "broken"},
         running' = Moved(t, at),
         UNCHANGED <<args, pace, pending, batch, totals, kept, failures>>,
         writeFailures' \in 0..MaxWriteFailures,
         files' \in [Cases -> [transcript: 0..2, run: 0..2, verdict: 0..2, error: {0, 2}]],
         \A c \in Cases : files'[c].error = files[c].error,
         \A c \in Cases \ {t.case} : files'[c] = files[c],
         unscored' = unscored \/ unscored' = unscored \cup {t.case},
         UnderWay([t EXCEPT !.at = at])', OnDisk(t.case)'
  PROVE  Inv'
<1> USE DEF args, pace
<1> DEFINE u == [t EXCEPT !.at = at]
<1>1. t \in Task /\ t.case \in Cases /\ u \in Task /\ u.case = t.case
  <2>1. TypeOK
    BY DEF Inv
  <2>2. \A a \in {"evaluating", "transcribed", "recorded", "returned", "raised", "broken"} :
          LET v == [t EXCEPT !.at = a]
          IN  v \in Task /\ v.case = t.case /\ v.failed = t.failed /\ v.at = a
    BY <2>1, TaskTyped, Zenon
  <2>3. t \in Task /\ t.case \in Cases
    BY <2>1, TaskTyped, Zenon
  <2> QED BY <2>2, <2>3, Zenon
<1>2. UnderWay(u)' /\ running' = (running \ {t}) \cup {u}
  BY DEF Moved
<1> HIDE DEF u
<1>3. \A w \in running : w # t => w.case # t.case
  BY DEF Inv, Unique
<1>4. batch = {}
  BY DEF Inv, Shape
<1>5. TypeOK' /\ Shape'
  <2>1. running' \subseteq Task /\ unscored' \subseteq Cases /\ batch' \subseteq running'
    BY <1>1, <1>2, <1>4 DEF Inv, TypeOK
  <2> QED BY <1>4, <2>1 DEF Inv, TypeOK, Shape
<1>6. Unique'
  <2>1. \A v, w \in running' : v.case = w.case => v = w
    BY <1>1, <1>2, <1>3 DEF Inv, Unique
  <2>2. \A i \in DOMAIN pending' : \A w \in running' : pending'[i].case # w.case
    BY <1>1, <1>2 DEF Inv, Unique
  <2> QED BY <2>1, <2>2 DEF Inv, Unique
<1>7. Counted'
  <2> DEFINE rest == running \ {t}
  <2>1. /\ IsFiniteSet(rest) /\ Cardinality(rest) = Cardinality(running) - 1
        /\ Cardinality(running) \in Nat
    BY FS_RemoveElement, FS_CardinalityType DEF Inv, Counted
  <2>2. u \notin rest /\ running' = rest \cup {u}
    BY <1>1, <1>2, <1>3
  <2> HIDE DEF rest
  <2>3. IsFiniteSet(running') /\ Cardinality(running') = Cardinality(running)
    <3>1. IsFiniteSet(rest \cup {u}) /\ Cardinality(rest \cup {u}) = Cardinality(rest) + 1
      BY <2>1, <2>2, FS_AddElement
    <3> QED BY <2>1, <2>2, <3>1
  <2>4. Errors' = Errors
    BY DEF Errors
  <2> QED BY <2>3, <2>4 DEF Inv, Counted, Live
<1>8. Traced'
  <2>1. ASSUME NEW i \in DOMAIN pending PROVE ToBeTried(pending[i].case, pending[i].failed)'
    <3>1. pending[i].case # t.case /\ pending[i].case \in Cases
      BY EntryTyped DEF Inv, Unique
    <3> QED BY <3>1 DEF Inv, Traced, ToBeTried
  <2>2. ASSUME NEW w \in running, w # t PROVE UnderWay(w)'
    <3>1. w.case # t.case /\ w.case \in Cases
      BY <1>3, <2>2, TaskTyped DEF Inv
    <3> QED BY <3>1 DEF Inv, Traced, UnderWay
  <2>3. FlightTraced'
    BY <1>2, <2>2
  <2>4. InFlight' = InFlight /\ Waiting' = Waiting
    BY <1>1, <1>2 DEF InFlight, Waiting
  <2>5. ASSUME NEW c \in specs, Through(c), c # t.case PROVE Through(c)'
    BY <2>5 DEF Through, Inv, TypeOK
  <2>6. t.case \in InFlight
    BY DEF InFlight
  <2>7. CasesTraced'
    BY <2>4, <2>5, <2>6 DEF Inv, Traced, Live
  <2> QED BY <2>1, <2>3, <2>7 DEF Traced
<1>9. ASSUME NEW c \in Cases PROVE OnDisk(c)'
  <2>1. CASE c = t.case
    BY <2>1
  <2>2. CASE c # t.case
    BY <2>2 DEF Inv, OnDisk
  <2> QED BY <2>1, <2>2
<1>10. RecoveryNotForgotten'
  BY DEF Inv, RecoveryNotForgotten
<1> QED BY <1>5, <1>6, <1>7, <1>8, <1>9, <1>10 DEF Inv

\* Writing one of a case's files leaves the others, and the other cases.
LEMMA Written ==
  ASSUME TypeOK, NEW c \in Cases, NEW r \in [transcript: 0..2, run: 0..2, verdict: 0..2, error: {0, 2}],
         r.error = files[c].error, files' = [files EXCEPT ![c] = r]
  PROVE  /\ files' \in [Cases -> [transcript: 0..2, run: 0..2, verdict: 0..2, error: {0, 2}]]
         /\ \A d \in Cases : files'[d].error = files[d].error
         /\ \A d \in Cases \ {c} : files'[d] = files[d]
         /\ files'[c] = r
<1>1. files \in [Cases -> [transcript: 0..2, run: 0..2, verdict: 0..2, error: {0, 2}]]
  BY DEF TypeOK
<1>2. files' \in [Cases -> [transcript: 0..2, run: 0..2, verdict: 0..2, error: {0, 2}]] /\ files'[c] = r
      /\ \A d \in Cases \ {c} : files'[d] = files[d]
  BY <1>1
<1> QED BY <1>2

LEMMA StepKeeps ==
  ASSUME Inv, NEW t \in running, Step(t)
  PROVE  Inv'
<1> USE DEF args, pace, disk
<1>0. TypeOK
  BY DEF Inv
<1>1. /\ t.case \in Cases /\ t.failed \in {0, 1} /\ Attempt(t) \in 1..2
      /\ Attempt(t) = t.failed + 1
      /\ files[t.case] \in [transcript: 0..2, run: 0..2, verdict: 0..2, error: {0, 2}]
      /\ failures[t.case] \in 0..2
  <2>1. t.case \in Cases /\ t.failed \in {0, 1}
    BY <1>0, TaskTyped
  <2> QED BY <1>0, <2>1 DEF Attempt, TypeOK
<1>2. \A at \in {"evaluating", "transcribed", "recorded", "returned", "raised", "broken"} :
        LET u == [t EXCEPT !.at = at] IN u.case = t.case /\ u.failed = t.failed /\ u.at = at
  BY TaskTyped DEF Inv
<1>3. UnderWay(t) /\ OnDisk(t.case)
  BY <1>1 DEF Inv, Traced
<1>4. writeFailures \in 0..MaxWriteFailures /\ MaxWriteFailures \in Nat
      /\ files \in [Cases -> [transcript: 0..2, run: 0..2, verdict: 0..2, error: {0, 2}]]
  BY DEF Inv, TypeOK
<1>5. CASE Transcribe(t)
  <2> DEFINE u == [t EXCEPT !.at = "transcribed"]
         r == [files[t.case] EXCEPT !.transcript = Attempt(t)]
  <2>1. /\ pc = "wait" /\ pc' = pc /\ t.at = "evaluating" /\ running' = Moved(t, "transcribed")
        /\ UNCHANGED <<args, pace, pending, batch, totals, kept, failures, unscored, writeFailures>>
        /\ files' = [files EXCEPT ![t.case] = r]
    BY <1>5 DEF Transcribe, Transcribed
  <2>2. /\ r \in [transcript: 0..2, run: 0..2, verdict: 0..2, error: {0, 2}]
        /\ r.error = files[t.case].error /\ r.transcript = t.failed + 1
        /\ r.run = files[t.case].run
    BY <1>1
  <2> HIDE DEF r
  <2>3. /\ files' \in [Cases -> [transcript: 0..2, run: 0..2, verdict: 0..2, error: {0, 2}]]
        /\ \A c \in Cases : files'[c].error = files[c].error
        /\ \A c \in Cases \ {t.case} : files'[c] = files[c]
        /\ files'[t.case] = r
    BY <1>0, <1>1, <2>1, <2>2, Written
  <2>4. u.case = t.case /\ u.failed = t.failed /\ u.at = "transcribed"
    BY <1>2
  <2> HIDE DEF u
  <2>5. UnderWay(u)' /\ OnDisk(t.case)'
    BY <1>1, <1>3, <2>1, <2>2, <2>3, <2>4 DEF UnderWay, OnDisk
  <2> USE DEF u
  <2> QED BY <2>1, <2>3, <2>5, <1>4, MovedKeeps
<1>6. CASE Record(t)
  <2> PICK at \in {"recorded", "returned"} : running' = Moved(t, at)
    BY <1>6 DEF Record
  <2> DEFINE u == [t EXCEPT !.at = at]
         r == [files[t.case] EXCEPT !.run = Attempt(t)]
  <2>1. /\ pc = "wait" /\ pc' = pc /\ t.at = "transcribed"
        /\ UNCHANGED <<args, pace, pending, batch, totals, kept, failures, unscored, writeFailures>>
        /\ files' = [files EXCEPT ![t.case] = r]
    BY <1>6 DEF Record
  <2>2. /\ r \in [transcript: 0..2, run: 0..2, verdict: 0..2, error: {0, 2}]
        /\ r.error = files[t.case].error /\ r.run = t.failed + 1
        /\ r.transcript = files[t.case].transcript
    BY <1>1
  <2> HIDE DEF r
  <2>3. /\ files' \in [Cases -> [transcript: 0..2, run: 0..2, verdict: 0..2, error: {0, 2}]]
        /\ \A c \in Cases : files'[c].error = files[c].error
        /\ \A c \in Cases \ {t.case} : files'[c] = files[c]
        /\ files'[t.case] = r
    BY <1>0, <1>1, <2>1, <2>2, Written
  <2>4. u.case = t.case /\ u.failed = t.failed /\ u.at = at
    BY <1>2
  <2> HIDE DEF u
  <2>5. UnderWay(u)' /\ OnDisk(t.case)'
    BY <1>1, <1>3, <2>1, <2>2, <2>3, <2>4 DEF UnderWay, OnDisk
  <2> USE DEF u
  <2> QED BY <2>1, <2>3, <2>5, <1>4, MovedKeeps
<1>7. CASE Score(t)
  <2> DEFINE u == [t EXCEPT !.at = "returned"]
         r == [files[t.case] EXCEPT !.verdict = Attempt(t)]
  <2>1. /\ pc = "wait" /\ pc' = pc /\ t.at = "recorded" /\ running' = Moved(t, "returned")
        /\ UNCHANGED <<args, pace, pending, batch, totals, kept, failures, unscored, writeFailures>>
        /\ files' = [files EXCEPT ![t.case] = r]
    BY <1>7 DEF Score
  <2>2. /\ r \in [transcript: 0..2, run: 0..2, verdict: 0..2, error: {0, 2}]
        /\ r.error = files[t.case].error /\ r.verdict = t.failed + 1
        /\ r.transcript = files[t.case].transcript /\ r.run = files[t.case].run
    BY <1>1
  <2> HIDE DEF r
  <2>3. /\ files' \in [Cases -> [transcript: 0..2, run: 0..2, verdict: 0..2, error: {0, 2}]]
        /\ \A c \in Cases : files'[c].error = files[c].error
        /\ \A c \in Cases \ {t.case} : files'[c] = files[c]
        /\ files'[t.case] = r
    BY <1>0, <1>1, <2>1, <2>2, Written
  <2>4. u.case = t.case /\ u.failed = t.failed /\ u.at = "returned"
    BY <1>2
  <2> HIDE DEF u
  <2>5. UnderWay(u)' /\ OnDisk(t.case)'
    BY <1>1, <1>3, <2>1, <2>2, <2>3, <2>4 DEF UnderWay, OnDisk
  <2> USE DEF u
  <2> QED BY <2>1, <2>3, <2>5, <1>4, MovedKeeps
<1>8. CASE (\E at \in {"raised", "broken"} : Raise(t, at)) \/ WriteFails(t) \/ ScoreFails(t)
  <2> PICK at \in {"raised", "broken"} : running' = Moved(t, at)
    BY <1>8 DEF Raise, WriteFails, ScoreFails
  <2> DEFINE u == [t EXCEPT !.at = at]
  <2>1. /\ pc = "wait" /\ pc' = pc
        /\ UNCHANGED <<args, pace, pending, batch, totals, kept, failures, files>>
        /\ writeFailures' \in 0..MaxWriteFailures
        /\ \/ t.at \in {"evaluating", "transcribed"} /\ unscored' = unscored
           \/ unscored' = unscored \cup {t.case}
    BY <1>4, <1>8 DEF Raise, WriteFails, ScoreFails
  <2>2. u.case = t.case /\ u.failed = t.failed /\ u.at = at
    BY <1>2
  <2> HIDE DEF u
  <2>3. UnderWay(u)'
    BY <1>1, <1>3, <2>1, <2>2 DEF UnderWay
  <2>4. OnDisk(t.case)'
    BY <1>1, <1>3, <2>1 DEF OnDisk
  <2> USE DEF u
  <2> QED BY <1>4, <2>1, <2>3, <2>4, MovedKeeps
<1> QED BY <1>5, <1>6, <1>7, <1>8 DEF Step

---------------------------------------------------------------------------
(* A run is handled *)

\* What a finished task says of its case, and the runs that are left without it.
LEMMA LeftWithout ==
  ASSUME Inv, NEW t \in batch, Handled(t)
  PROVE  /\ t \in running /\ t.case \in Cases /\ t.failed \in {0, 1} /\ t.case \in InFlight
         /\ UnderWay(t) /\ OnDisk(t.case)
         /\ files[t.case] \in [transcript: 0..2, run: 0..2, verdict: 0..2, error: {0, 2}]
         /\ failures[t.case] \in 0..2
         /\ \A w \in running' : w \in running /\ w.case # t.case /\ w.case \in Cases
         /\ batch' \subseteq running' /\ running' \subseteq Task
         /\ IsFiniteSet(running') /\ Cardinality(running') = Cardinality(running) - 1
         /\ Cardinality(running) \in Nat
         /\ InFlight \subseteq InFlight' \cup {t.case}
         /\ \A i \in DOMAIN pending : pending[i].case # t.case
<1>0. TypeOK /\ Unique /\ FlightTraced /\ IsFiniteSet(running)
  BY DEF Inv, Traced, Counted
<1>1. t \in running /\ t.case \in Cases /\ t.failed \in {0, 1}
      /\ files[t.case] \in [transcript: 0..2, run: 0..2, verdict: 0..2, error: {0, 2}]
      /\ failures[t.case] \in 0..2
  <2>1. t \in running
    BY <1>0 DEF TypeOK
  <2> QED BY <1>0, <2>1, TaskTyped
<1>2. UnderWay(t) /\ OnDisk(t.case)
  BY <1>1 DEF Inv, Traced
<1>3. running' = running \ {t} /\ batch' = batch \ {t}
  BY DEF Handled
<1>4. \A w \in running : w.case \in Cases /\ w \in Task
  BY <1>0, TaskTyped
<1>5. \A w \in running' : w \in running /\ w.case # t.case
  BY <1>0, <1>1, <1>3 DEF Unique
<1>6. batch' \subseteq running'
  BY <1>0, <1>3 DEF TypeOK
<1>7. /\ IsFiniteSet(running') /\ Cardinality(running') = Cardinality(running) - 1
      /\ Cardinality(running) \in Nat
  BY <1>0, <1>1, <1>3, FS_RemoveElement, FS_CardinalityType
<1>8. InFlight \subseteq InFlight' \cup {t.case} /\ t.case \in InFlight
  BY <1>1, <1>3 DEF InFlight
<1>9. \A i \in DOMAIN pending : pending[i].case # t.case
  BY <1>0, <1>1 DEF Unique
<1> QED BY <1>1, <1>2, <1>4, <1>5, <1>6, <1>7, <1>8, <1>9

LEMMA SucceedKeeps ==
  ASSUME Inv, NEW t \in batch, Succeed(t)
  PROVE  Inv'
<1> USE DEF args, disk
<1>0. TypeOK /\ Shape /\ Unique /\ Counted /\ Traced /\ RecoveryNotForgotten
      /\ \A c \in Cases : OnDisk(c)
  BY DEF Inv
<1>1. /\ pc = "handle" /\ pc' = pc /\ t.at = "returned" /\ Handled(t)
      /\ totals' = [totals EXCEPT !.completed = @ + 1]
      /\ target' = IF RecoveryDue THEN target + 1 ELSE target
      /\ streak' = IF RecoveryDue THEN 0 ELSE streak + 1
      /\ UNCHANGED <<args, initial, pending, disk, writeFailures, failures>>
  BY DEF Succeed
<1>2. /\ t \in running /\ t.case \in Cases /\ t.failed \in {0, 1}
      /\ UnderWay(t)
      /\ \A w \in running' : w \in running /\ w.case # t.case
      /\ batch' \subseteq running' /\ running' \subseteq Task
      /\ IsFiniteSet(running') /\ Cardinality(running') = Cardinality(running) - 1
      /\ Cardinality(running) \in Nat
      /\ InFlight \subseteq InFlight' \cup {t.case}
  BY <1>1, LeftWithout
<1>3. target' \in 1..initial /\ streak' \in Nat /\ RecoveryNotForgotten'
  <2>1. initial \in Nat /\ target \in 1..initial /\ streak \in Nat
    BY <1>0 DEF TypeOK
  <2> QED BY <1>0, <1>1, <2>1 DEF RecoveryDue, RecoveryNotForgotten
<1>4. /\ totals' \in [completed: Nat, errors: Nat, failedAfterRetry: Nat]
      /\ totals'.completed = totals.completed + 1 /\ totals.completed \in Nat
      /\ totals'.failedAfterRetry = totals.failedAfterRetry
  <2>1. totals \in [completed: Nat, errors: Nat, failedAfterRetry: Nat]
    BY <1>0 DEF TypeOK
  <2>2. totals.completed \in Nat
    BY <2>1
  <2> QED BY <1>1, <2>1, <2>2
<1>5. TypeOK'
  BY <1>0, <1>1, <1>2, <1>3, <1>4 DEF TypeOK
<1>6. Shape' /\ Unique'
  BY <1>0, <1>1, <1>2 DEF Shape, Unique
<1>7. Counted'
  <2>1. Errors' = Errors
    BY <1>1 DEF Errors
  <2>2. /\ Len(pending) + Cardinality(running) + totals.completed = Cardinality(specs)
        /\ totals.failedAfterRetry = Cardinality(Errors)
    BY <1>0, <1>1 DEF Counted, Live
  <2>3. Len(pending) \in Nat
    BY <1>0 DEF TypeOK
  <2> QED BY <1>1, <1>2, <1>4, <2>1, <2>2, <2>3 DEF Counted
<1>8. Traced'
  <2>1. WaitingTraced'
    BY <1>0, <1>1 DEF Traced, ToBeTried
  <2>2. FlightTraced'
    BY <1>0, <1>1, <1>2 DEF Traced, UnderWay
  <2>3. \A c \in specs : c \in Waiting \/ c \in InFlight \/ Through(c)
    BY <1>0, <1>1 DEF Traced, Live
  <2>4. Through(t.case)
    BY <1>1, <1>2 DEF UnderWay, Through
  <2>5. CasesTraced'
    <3>1. \A c \in specs : c \in Waiting \/ c \in InFlight' \/ Through(c)
      BY <1>2, <2>3, <2>4
    <3>2. Waiting' = Waiting /\ \A c \in specs : Through(c) => Through(c)'
      BY <1>1 DEF Waiting, Through
    <3> QED BY <1>1, <3>1, <3>2
  <2> QED BY <2>1, <2>2, <2>5 DEF Traced
<1>9. \A c \in Cases : OnDisk(c)'
  BY <1>0, <1>1 DEF OnDisk
<1> QED BY <1>3, <1>5, <1>6, <1>7, <1>8, <1>9 DEF Inv

\* The retry is put before the queue, with the attempt it follows on it.
LEMMA RetryKeeps ==
  ASSUME Inv, NEW t \in batch, Retry(t)
  PROVE  Inv'
<1> USE DEF args, disk
<1> PICK e : e = [case |-> t.case, failed |-> 1]
  OBVIOUS
<1>0. TypeOK /\ Shape /\ Unique /\ Counted /\ Traced
      /\ \A c \in Cases : OnDisk(c)
  BY DEF Inv
<1>1. /\ pc = "handle" /\ pc' = pc /\ t.at = "raised" /\ t.failed = 0 /\ Handled(t)
      /\ totals' = [totals EXCEPT !.errors = @ + 1]
      /\ target' = Half(target) /\ streak' = 0
      /\ pending' = <<e>> \o pending
      /\ failures' = [failures EXCEPT ![t.case] = @ + 1]
      /\ UNCHANGED <<args, initial, disk, writeFailures>>
  BY DEF Retry, FailedOnce, Requeued
<1>2. /\ t \in running /\ t.case \in Cases
      /\ UnderWay(t) /\ OnDisk(t.case)
      /\ files[t.case] \in [transcript: 0..2, run: 0..2, verdict: 0..2, error: {0, 2}]
      /\ \A w \in running' : w \in running /\ w.case # t.case /\ w.case \in Cases
      /\ batch' \subseteq running' /\ running' \subseteq Task
      /\ IsFiniteSet(running') /\ Cardinality(running') = Cardinality(running) - 1
      /\ Cardinality(running) \in Nat
      /\ InFlight \subseteq InFlight' \cup {t.case}
      /\ \A i \in DOMAIN pending : pending[i].case # t.case
  BY <1>1, LeftWithout
<1>3. e \in Entry /\ e.case = t.case /\ e.failed = 1
  BY <1>2 DEF Entry
<1>4. /\ pending' \in Seq(Entry)
      /\ Len(pending') = Len(pending) + 1 /\ Len(pending) \in Nat
      /\ DOMAIN pending' = 1..(Len(pending) + 1) /\ pending'[1] = e
      /\ \A i \in DOMAIN pending : i + 1 \in DOMAIN pending' /\ pending'[i + 1] = pending[i]
      /\ \A i \in DOMAIN pending' : i \in Int /\
           (i = 1 \/ (i - 1 \in DOMAIN pending /\ pending'[i] = pending[i - 1]))
  <2>1. pending \in Seq(Entry)
    BY <1>0 DEF TypeOK
  <2>2. Len(pending) \in Nat
    BY <2>1
  <2> DEFINE q == <<e>> \o pending
  <2>3. /\ q \in Seq(Entry)
        /\ DOMAIN q = 1..(Len(pending) + 1) /\ Len(q) = Len(pending) + 1
        /\ q[1] = e
        /\ \A i \in DOMAIN pending : i + 1 \in DOMAIN q /\ q[i + 1] = pending[i]
        /\ \A i \in DOMAIN q : i = 1 \/ (i - 1 \in DOMAIN pending /\ q[i] = pending[i - 1])
    BY <1>3, <2>1, Cons
  <2>4. pending' = q
    BY <1>1, Zenon
  <2> HIDE DEF q
  <2>5. \A i \in DOMAIN q : i \in Int
    BY <2>2, <2>3
  <2> QED BY <2>2, <2>3, <2>4, <2>5, Zenon
<1>5. failures' \in [Cases -> 0..2] /\ failures'[t.case] = 1
      /\ \A c \in Cases \ {t.case} : failures'[c] = failures[c]
  <2>1. failures \in [Cases -> 0..2] /\ failures[t.case] = 0
    BY <1>0, <1>1, <1>2 DEF TypeOK, UnderWay
  <2> QED BY <1>1, <1>2, <2>1
<1>6. /\ totals' \in [completed: Nat, errors: Nat, failedAfterRetry: Nat]
      /\ totals'.completed = totals.completed /\ totals.completed \in Nat
      /\ totals'.failedAfterRetry = totals.failedAfterRetry
  <2>1. totals \in [completed: Nat, errors: Nat, failedAfterRetry: Nat]
    BY <1>0 DEF TypeOK
  <2>2. totals.completed \in Nat /\ totals.errors + 1 \in Nat
    BY <2>1
  <2>3. totals' = [totals EXCEPT !.errors = totals.errors + 1]
    BY <1>1, <2>1
  <2> QED BY <2>1, <2>2, <2>3
<1>7. target' \in 1..initial /\ RecoveryNotForgotten'
  <2>1. initial \in Nat /\ target \in 1..initial
    BY <1>0 DEF TypeOK
  <2> QED BY <1>1, <2>1 DEF Half, RecoveryNotForgotten
<1>8. TypeOK'
  BY <1>0, <1>1, <1>2, <1>4, <1>5, <1>6, <1>7 DEF TypeOK
<1>9. Shape'
  BY <1>1 DEF Shape
<1>10. Unique'
  <2>1. \A i, j \in DOMAIN pending : pending[i].case = pending[j].case => i = j
    BY <1>0 DEF Unique
  <2>2. \A i \in DOMAIN pending' : i = 1 \/ pending'[i].case # t.case
    BY <1>2, <1>4
  <2>3. \A i, j \in DOMAIN pending' : pending'[i].case = pending'[j].case => i = j
    <3> SUFFICES ASSUME NEW i \in DOMAIN pending', NEW j \in DOMAIN pending',
                        pending'[i].case = pending'[j].case
                 PROVE  i = j
      OBVIOUS
    <3>1. i = 1 <=> j = 1
      BY <1>3, <1>4, <2>2
    <3>2. CASE i # 1 /\ j # 1
      <4>1. /\ i - 1 \in DOMAIN pending /\ pending'[i] = pending[i - 1] /\ i \in Int
            /\ j - 1 \in DOMAIN pending /\ pending'[j] = pending[j - 1] /\ j \in Int
        BY <1>4, <3>2
      <4>2. i - 1 = j - 1
        BY <2>1, <4>1
      <4> QED BY <4>1, <4>2
    <3> QED BY <3>1, <3>2
  <2>4. \A i \in DOMAIN pending' : \A w \in running' : pending'[i].case # w.case
    BY <1>0, <1>2, <1>3, <1>4 DEF Unique
  <2>5. \A v, w \in running' : v.case = w.case => v = w
    BY <1>0, <1>2 DEF Unique
  <2> QED BY <2>3, <2>4, <2>5 DEF Unique
<1>11. Counted'
  <2>1. Errors' = Errors
    BY <1>1 DEF Errors
  <2>2. /\ Len(pending) + Cardinality(running) + totals.completed = Cardinality(specs)
        /\ totals.failedAfterRetry = Cardinality(Errors)
    BY <1>0, <1>1 DEF Counted, Live
  <2> QED BY <1>1, <1>2, <1>4, <1>6, <2>1, <2>2 DEF Counted
<1>12. Traced'
  <2>1. ToBeTried(e.case, e.failed)'
    BY <1>1, <1>2, <1>3, <1>5 DEF UnderWay, ToBeTried
  <2>2. \A c \in Cases \ {t.case} : \A n : ToBeTried(c, n) => ToBeTried(c, n)'
    BY <1>1, <1>5 DEF ToBeTried
  <2>3. WaitingTraced'
    <3>1. ASSUME NEW i \in DOMAIN pending', i # 1
          PROVE  ToBeTried(pending[i].case, pending[i].failed)'
      <4> PICK f : f = pending'[i]
        OBVIOUS
      <4>1. f = pending[i - 1] /\ i - 1 \in DOMAIN pending
        BY <1>4, <3>1
      <4>2. f.case \in Cases \ {t.case} /\ ToBeTried(f.case, f.failed)
        BY <1>0, <1>2, <4>1, EntryTyped DEF Traced
      <4>3. ToBeTried(f.case, f.failed)'
        BY <2>2, <4>2
      <4> QED BY <4>3
    <3>2. ToBeTried(pending[1].case, pending[1].failed)'
      BY <1>4, <2>1
    <3> QED BY <1>4, <3>1, <3>2
  <2>4. FlightTraced'
    BY <1>0, <1>1, <1>2, <1>5 DEF Traced, UnderWay
  <2>5. \A c \in specs : c \in Waiting \/ c \in InFlight \/ Through(c)
    BY <1>0, <1>1 DEF Traced, Live
  <2>6. Waiting \subseteq Waiting' /\ t.case \in Waiting'
    <3>1. 1 \in DOMAIN pending' /\ pending'[1].case = t.case
      BY <1>3, <1>4
    <3>2. \A i \in DOMAIN pending : \E j \in DOMAIN pending' : pending'[j].case = pending[i].case
      BY <1>4
    <3> QED BY <3>1, <3>2 DEF Waiting
  <2>7. \A c \in specs : Through(c) => Through(c)'
    BY <1>1 DEF Through
  <2>8. CasesTraced'
    BY <1>1, <1>2, <2>5, <2>6, <2>7
  <2> QED BY <2>3, <2>4, <2>8 DEF Traced
<1>13. ASSUME NEW c \in Cases PROVE OnDisk(c)'
  <2>1. CASE c = t.case
    BY <1>1, <1>2, <2>1 DEF OnDisk, UnderWay
  <2>2. CASE c # t.case
    BY <1>0, <1>1, <1>5, <2>2 DEF OnDisk
  <2> QED BY <2>1, <2>2
<1> QED BY <1>7, <1>8, <1>9, <1>10, <1>11, <1>12, <1>13 DEF Inv

\* A case that failed twice is through, with an error in the place of a record.
LEMMA AbandonKeeps ==
  ASSUME Inv, NEW t \in batch, Abandon(t)
  PROVE  Inv'
<1> USE DEF args
<1>0. TypeOK /\ Shape /\ Unique /\ Counted /\ Traced
      /\ \A c \in Cases : OnDisk(c)
  BY DEF Inv
<1>1. /\ pc = "handle" /\ pc' = pc /\ t.at = "raised" /\ t.failed = 1 /\ Handled(t)
      /\ totals' = [totals EXCEPT !.errors = @ + 1, !.completed = @ + 1, !.failedAfterRetry = @ + 1]
      /\ target' = target /\ streak' = 0
      /\ files' = [files EXCEPT ![t.case].error = 2]
      /\ failures' = [failures EXCEPT ![t.case] = @ + 1]
      /\ UNCHANGED <<args, initial, pending, kept, unscored, writeFailures>>
  BY DEF Abandon, FailedOnce, ErrorFile, Attempt, AfterSecondFailure
<1>2. /\ t \in running /\ t.case \in Cases
      /\ UnderWay(t) /\ OnDisk(t.case)
      /\ files[t.case] \in [transcript: 0..2, run: 0..2, verdict: 0..2, error: {0, 2}]
      /\ \A w \in running' : w \in running /\ w.case # t.case /\ w.case \in Cases
      /\ batch' \subseteq running' /\ running' \subseteq Task
      /\ IsFiniteSet(running') /\ Cardinality(running') = Cardinality(running) - 1
      /\ Cardinality(running) \in Nat
      /\ InFlight \subseteq InFlight' \cup {t.case}
      /\ \A i \in DOMAIN pending : pending[i].case # t.case
  BY <1>1, LeftWithout
<1>3. failures' \in [Cases -> 0..2] /\ failures'[t.case] = 2
      /\ \A c \in Cases \ {t.case} : failures'[c] = failures[c]
  <2>1. failures \in [Cases -> 0..2] /\ failures[t.case] = 1
    BY <1>0, <1>1, <1>2 DEF TypeOK, UnderWay
  <2> QED BY <1>1, <1>2, <2>1
<1>4. /\ files' \in [Cases -> [transcript: 0..2, run: 0..2, verdict: 0..2, error: {0, 2}]]
      /\ \A c \in Cases \ {t.case} : files'[c] = files[c]
      /\ files'[t.case].error = 2 /\ files'[t.case].run = files[t.case].run
      /\ files'[t.case].transcript = files[t.case].transcript
  <2> DEFINE r == [files[t.case] EXCEPT !.error = 2]
  <2>1. r \in [transcript: 0..2, run: 0..2, verdict: 0..2, error: {0, 2}]
        /\ r.error = 2 /\ r.run = files[t.case].run /\ r.transcript = files[t.case].transcript
    BY <1>2
  <2>2. files' = [files EXCEPT ![t.case] = r]
    BY <1>1
  <2>3. files \in [Cases -> [transcript: 0..2, run: 0..2, verdict: 0..2, error: {0, 2}]]
    BY <1>0 DEF TypeOK
  <2> HIDE DEF r
  <2>4. files' \in [Cases -> [transcript: 0..2, run: 0..2, verdict: 0..2, error: {0, 2}]]
        /\ files'[t.case] = r /\ \A c \in Cases \ {t.case} : files'[c] = files[c]
    BY <1>2, <2>1, <2>2, <2>3
  <2> QED BY <2>1, <2>4
<1>5. /\ totals' \in [completed: Nat, errors: Nat, failedAfterRetry: Nat]
      /\ totals'.completed = totals.completed + 1 /\ totals.completed \in Nat
      /\ totals'.failedAfterRetry = totals.failedAfterRetry + 1
  <2>1. totals \in [completed: Nat, errors: Nat, failedAfterRetry: Nat]
    BY <1>0 DEF TypeOK
  <2>2. /\ totals.completed + 1 \in Nat /\ totals.errors + 1 \in Nat
        /\ totals.failedAfterRetry + 1 \in Nat /\ totals.completed \in Nat
    BY <2>1
  <2>3. totals' = [completed |-> totals.completed + 1, errors |-> totals.errors + 1,
                   failedAfterRetry |-> totals.failedAfterRetry + 1]
    BY <1>1, <2>1
  <2> QED BY <2>2, <2>3
<1>6. target' \in 1..initial /\ RecoveryNotForgotten'
  BY <1>0, <1>1 DEF TypeOK, RecoveryNotForgotten
<1>7. TypeOK'
  BY <1>0, <1>1, <1>2, <1>3, <1>4, <1>5, <1>6 DEF TypeOK
<1>8. Shape' /\ Unique'
  BY <1>0, <1>1, <1>2 DEF Shape, Unique
<1>9. Counted'
  <2>1. t.case \notin Errors /\ Errors' = Errors \cup {t.case} /\ Errors \in SUBSET Cases
    BY <1>2, <1>4 DEF Errors, UnderWay
  <2>2. IsFiniteSet(Errors) /\ Cardinality(Errors) \in Nat
    BY <2>1, SomeCases
  <2>3. Cardinality(Errors') = Cardinality(Errors) + 1
    BY <2>1, <2>2, FS_AddElement
  <2>4. /\ Len(pending) + Cardinality(running) + totals.completed = Cardinality(specs)
        /\ totals.failedAfterRetry = Cardinality(Errors)
    BY <1>0, <1>1 DEF Counted, Live
  <2>5. Len(pending) \in Nat
    BY <1>0 DEF TypeOK
  <2>6. pending' = pending /\ specs' = specs
    BY <1>1 DEF args
  <2>7. Len(pending') + Cardinality(running') + totals'.completed = Cardinality(specs')
    BY <1>2, <1>5, <2>4, <2>5, <2>6
  <2>8. totals'.failedAfterRetry = Cardinality(Errors')
    BY <1>5, <2>2, <2>3, <2>4
  <2> QED BY <1>2, <2>7, <2>8 DEF Counted
<1>10. Traced'
  <2>1. WaitingTraced'
    <3>1. \A i \in DOMAIN pending : pending[i].case \in Cases
      BY <1>0, EntryTyped
    <3> QED BY <1>0, <1>1, <1>2, <1>3, <1>4, <3>1 DEF Traced, ToBeTried
  <2>2. FlightTraced'
    BY <1>0, <1>1, <1>2, <1>3, <1>4 DEF Traced, UnderWay
  <2>3. \A c \in specs : c \in Waiting \/ c \in InFlight \/ Through(c)
    BY <1>0, <1>1 DEF Traced, Live
  <2>4. Through(t.case)'
    BY <1>1, <1>2, <1>4 DEF UnderWay, Through
  <2>5. \A c \in specs : c \in Cases /\ (c # t.case /\ Through(c) => Through(c)')
    BY <1>0, <1>1, <1>4 DEF Through, TypeOK
  <2>6. Waiting' = Waiting
    BY <1>1 DEF Waiting
  <2>7. CasesTraced'
    BY <1>1, <1>2, <2>3, <2>4, <2>5, <2>6
  <2> QED BY <2>1, <2>2, <2>7 DEF Traced
<1>11. ASSUME NEW c \in Cases PROVE OnDisk(c)'
  <2>1. CASE c = t.case
    BY <1>1, <1>2, <1>3, <1>4, <2>1 DEF OnDisk, UnderWay
  <2>2. CASE c # t.case
    BY <1>0, <1>1, <1>3, <1>4, <2>2 DEF OnDisk
  <2> QED BY <2>1, <2>2
<1> QED BY <1>6, <1>7, <1>8, <1>9, <1>10, <1>11 DEF Inv

---------------------------------------------------------------------------
(* Every step, and what follows *)

LEMMA NextInv == Inv /\ [Next]_vars => Inv'
<1> SUFFICES ASSUME Inv, [Next]_vars PROVE Inv'
  OBVIOUS
<1> USE DEF args, pace, pool, disk
<1>0. Shape /\ batch \subseteq running
  BY DEF Inv, TypeOK
<1>1. CASE UNCHANGED vars
  <2>1. UNCHANGED <<args, pace, pending, running, totals, disk, writeFailures, failures>>
        /\ UNCHANGED <<pc, batch>> /\ pc \in PCs
    BY <1>1 DEF vars, Inv, TypeOK
  <2>2. (Live' => Live) /\ Shape'
    BY <1>0, <2>1 DEF Live, Shape
  <2> QED BY <1>0, <2>1, <2>2, FrameKeeps
<1>2. CASE \E requested \in SUBSET Cases, noSkip \in BOOLEAN, n \in Concurrencies :
             Invoke(requested, noSkip, n)
  BY <1>2, InvokeKeeps
<1>3. CASE Start
  BY <1>3, StartKeeps
<1>4. CASE Wait \/ Return \/ Wake \/ BatchDone
  <2>1. UNCHANGED <<args, pace, pending, running, totals, disk, writeFailures, failures>>
    BY <1>4 DEF Wait, Return, Wake, BatchDone
  <2>2. pc' \in PCs /\ (Live' => Live) /\ batch' \subseteq running
    BY <1>0, <1>4 DEF Wait, Return, Wake, BatchDone, PCs, Live, Over
  <2>3. Shape'
    BY <1>0, <1>4 DEF Wait, Return, Wake, BatchDone, Shape
  <2> QED BY <2>1, <2>2, <2>3, FrameKeeps
<1>5. CASE \E t \in batch : Succeed(t) \/ Retry(t) \/ Abandon(t) \/ Stop(t)
  <2> PICK t \in batch : Succeed(t) \/ Retry(t) \/ Abandon(t) \/ Stop(t)
    BY <1>5
  <2>1. CASE Succeed(t)
    BY <2>1, SucceedKeeps
  <2>2. CASE Retry(t)
    BY <2>2, RetryKeeps
  <2>3. CASE Abandon(t)
    BY <2>3, AbandonKeeps
  <2>4. CASE Stop(t)
    BY <2>4, NothingLeftKeeps DEF Stop
  <2> QED BY <2>1, <2>2, <2>3, <2>4
<1>6. CASE Runs
  BY <1>6, StepKeeps DEF Runs
<1>7. CASE Kill
  BY <1>7, NothingLeftKeeps DEF Kill
<1> QED BY <1>1, <1>2, <1>3, <1>4, <1>5, <1>6, <1>7 DEF Next, Driver

\* What the invariant says holds in every reachable state of the driver.
THEOREM Invariant == Spec => []Inv
BY InitInv, NextInv, PTL DEF Spec

\* The variables keep their types: above all, the target of the pool stays between
\* one and the concurrency asked for, however often it is halved and given back.
THEOREM TypeCorrect == Spec => []TypeOK
<1>1. Inv => TypeOK
  BY DEF Inv
<1> QED BY <1>1, Invariant, PTL

\* No case is lost or run twice at once by run_cases' retries, batches and abandonments.
THEOREM CasesAreKept == Spec => []EveryCaseOnce
<1>1. Inv => EveryCaseOnce
  <2> SUFFICES ASSUME Inv, Active PROVE EveryCaseOnce
    BY DEF EveryCaseOnce
  <2>1. Waiting \cap InFlight = {}
    BY DEF Inv, Unique, Waiting, InFlight
  <2>2. Len(pending) + Cardinality(running) + totals.completed = Cardinality(specs)
    BY DEF Inv, Counted, Live, Active
  <2> QED BY <2>1, <2>2 DEF Inv, Unique, EveryCaseOnce
<1> QED BY <1>1, Invariant, PTL

\* A pool below its size is never owed a place it was not given.
THEOREM PoolIsGivenBack == Spec => []RecoveryNotForgotten
<1>1. Inv => RecoveryNotForgotten
  BY DEF Inv
<1> QED BY <1>1, Invariant, PTL

\* A stored run is not paid for again, across kills and restarts and within one
\* invocation, unless the invocation asked for it or its scoring was lost.
THEOREM StoredIsNotPaidAgain == Spec => []PaidOnce
<1>1. Inv => PaidOnce
  <2> SUFFICES ASSUME Inv PROVE PaidOnce
    OBVIOUS
  <2>0. TypeOK /\ WaitingTraced /\ FlightTraced /\ \A c \in Cases : OnDisk(c)
    BY DEF Inv, Traced
  <2>1. \A i \in DOMAIN pending : pending[i].case \in specs
    BY <2>0 DEF ToBeTried
  <2>2. \A t \in running : t.case \in specs
    BY <2>0 DEF UnderWay
  <2>3. \A c \in Cases : ~again /\ kept[c] => c \notin specs /\ files[c] = NoFiles
    BY <2>0 DEF OnDisk
  <2>4. \A c \in Cases : ~again /\ kept[c] => c \notin Waiting \cup InFlight
    BY <2>1, <2>2, <2>3 DEF Waiting, InFlight
  <2>5. \A t \in running : t.at = "evaluating" /\ files[t.case].run # 0 => t.case \in unscored
    BY <2>0 DEF UnderWay
  <2> QED BY <2>3, <2>4, <2>5 DEF PaidOnce
<1> QED BY <1>1, Invariant, PTL

\* A record on disk has its transcript, wherever the process died, and when run_cases
\* returns the disk and its summary say the same of every case.
THEOREM DiskIsTrue == Spec => []DiskAgrees
<1>1. Inv => DiskAgrees
  <2> SUFFICES ASSUME Inv PROVE DiskAgrees
    OBVIOUS
  <2>0. TypeOK /\ Shape /\ Counted /\ CasesTraced /\ \A c \in Cases : OnDisk(c)
    BY DEF Inv, Traced
  <2>1. \A c \in Cases : files[c].run # 0 => files[c].transcript >= files[c].run
    BY <2>0 DEF OnDisk
  <2>2. ASSUME pc = "ended", unscored = {}
        PROVE  /\ \A c \in specs : (files[c].run # 0) # (files[c].error # 0)
               /\ totals.completed = Cardinality(specs)
               /\ totals.failedAfterRetry = Cardinality({c \in Cases : files[c].error # 0})
    <3>1. Live /\ pending = <<>> /\ running = {} /\ Waiting = {} /\ InFlight = {}
      BY <2>0, <2>2 DEF Live, Shape, Waiting, InFlight
    <3>2. \A c \in specs : (files[c].run # 0) # (files[c].error # 0)
      BY <2>0, <2>2, <3>1 DEF Through
    <3>3. /\ Len(pending) = 0 /\ Cardinality(running) = 0
          /\ totals.completed \in Nat
      <4>1. totals \in [completed: Nat, errors: Nat, failedAfterRetry: Nat]
        BY <2>0 DEF TypeOK
      <4> QED BY <3>1, <4>1, FS_EmptySet
    <3>4. /\ Len(pending) + Cardinality(running) + totals.completed = Cardinality(specs)
          /\ totals.failedAfterRetry = Cardinality({c \in Cases : files[c].error # 0})
      BY <2>0, <3>1 DEF Counted, Errors
    <3> QED BY <3>2, <3>3, <3>4
  <2> QED BY <2>1, <2>2 DEF DiskAgrees
<1> QED BY <1>1, Invariant, PTL

\* A record counts every attempt abandoned before it, and an error all of them.
THEOREM AttemptsAreCounted == Spec => []AttemptsOnRecord
<1>1. Inv => AttemptsOnRecord
  BY DEF Inv, OnDisk, AttemptsOnRecord
<1> QED BY <1>1, Invariant, PTL
---------------------------------------------------------------------------
(* The pace of the pool *)

\* Induction over the numbers, for a set of them.
LEMMA SetInduction ==
  ASSUME NEW S, 0 \in S, \A k \in Nat : k \in S => k + 1 \in S
  PROVE  Nat \subseteq S
<1> DEFINE Less == {p \in Nat \X Nat : p[1] < p[2]}
           T == Nat \ S
<1>1. IsWellFoundedOn(Less, Nat)
  BY NatLessThanWellFounded DEF OpToRel
<1>2. \A k, l \in Nat : <<k, l>> \in Less <=> k < l
  OBVIOUS
<1> HIDE DEF Less
<1> SUFFICES ASSUME T # {} PROVE FALSE
  OBVIOUS
<1>3. PICK k \in T : \A l \in T : ~(<<l, k>> \in Less)
  BY <1>1, WFMin
<1>4. k \in Nat \ {0} /\ k - 1 \in Nat /\ k - 1 < k /\ (k - 1) + 1 = k
  BY <1>3
<1>5. k - 1 \in S
  BY <1>2, <1>3, <1>4
<1> QED BY <1>3, <1>4, <1>5

\* The tables of up to m halvings.
Identity == [n \in Nat |-> n]
Tables(m) ==
  {g \in [0..m -> [Nat -> Nat]] :
     g[0] = Identity /\ \A k \in 1..m : g[k] = [n \in Nat |-> Half(g[k - 1][n])]}

LEMMA HalfTyped == \A n \in Nat : Half(n) \in Nat
BY DEF Half

LEMMA HalfTable ==
  ASSUME NEW f, f \in [Nat -> Nat] PROVE \A n \in Nat : Half(f[n]) \in Nat
BY HalfTyped

\* Half of more is not less.
LEMMA HalfOfMore == \A m, n \in Nat : m >= n => Half(m) >= Half(n)
BY DEF Half

LEMMA SomeTable == \A m \in Nat : Tables(m) # {}
<1> DEFINE S == {m \in Nat : Tables(m) # {}}
<1>1. 0 \in S
  <2> DEFINE g == [j \in 0..0 |-> Identity]
  <2>1. g \in Tables(0)
    BY DEF Tables, Identity
  <2> QED BY <2>1
<1>2. ASSUME NEW m \in Nat, m \in S PROVE m + 1 \in S
  <2>1. PICK g : g \in Tables(m)
    BY <1>2
  <2>2. g \in [0..m -> [Nat -> Nat]] /\ g[0] = Identity
        /\ \A k \in 1..m : g[k] = [n \in Nat |-> Half(g[k - 1][n])]
    BY <2>1 DEF Tables
  <2> DEFINE last == [n \in Nat |-> Half(g[m][n])]
             h == [j \in 0..(m + 1) |-> IF j = m + 1 THEN last ELSE g[j]]
  <2>3. last \in [Nat -> Nat]
    <3>1. m \in 0..m
      OBVIOUS
    <3>3. g[m] \in [Nat -> Nat]
      BY <2>2, <3>1
    <3>2. \A n \in Nat : Half(g[m][n]) \in Nat
      BY <3>3, HalfTable
    <3> QED BY <3>2
  <2> HIDE DEF last
  <2>4. \A j \in 0..(m + 1) : j # m + 1 => j \in 0..m
    OBVIOUS
  <2>5. h \in [0..(m + 1) -> [Nat -> Nat]]
    BY <2>2, <2>3, <2>4
  <2>6. h[0] = Identity /\ h[m + 1] = last /\ \A j \in 0..m : h[j] = g[j]
    BY <2>2
  <2> HIDE DEF h
  <2>7. ASSUME NEW k \in 1..(m + 1) PROVE h[k] = [n \in Nat |-> Half(h[k - 1][n])]
    <3>1. k - 1 \in 0..m /\ h[k - 1] = g[k - 1]
      BY <2>6
    <3>2. CASE k = m + 1
      <4>1. h[k] = last /\ h[k - 1] = g[m]
        BY <2>6, <3>1, <3>2
      <4> QED BY <4>1 DEF last
    <3>3. CASE k # m + 1
      <4>1. k \in 1..m /\ k \in 0..m
        BY <3>3
      <4>2. h[k] = g[k]
        BY <2>6, <4>1
      <4>3. g[k] = [n \in Nat |-> Half(g[k - 1][n])]
        BY <2>2, <4>1
      <4> QED BY <3>1, <4>2, <4>3
    <3> QED BY <3>2, <3>3
  <2>8. h \in Tables(m + 1)
    BY <2>5, <2>6, <2>7 DEF Tables
  <2> QED BY <2>8
<1> HIDE DEF S
<1>3. Nat \subseteq S
  BY <1>1, <1>2, SetInduction
<1> QED BY <1>3 DEF S

LEMMA OneTable ==
  ASSUME NEW l \in Nat, NEW m \in Nat, NEW g \in Tables(l), NEW h \in Tables(m),
         NEW j \in Nat, j <= l, j <= m
  PROVE  g[j] = h[j]
<1> DEFINE S == {i \in Nat : i <= l /\ i <= m => g[i] = h[i]}
<1>1. 0 \in S
  BY DEF Tables
<1>2. ASSUME NEW i \in Nat, i \in S PROVE i + 1 \in S
  <2> SUFFICES ASSUME i + 1 <= l, i + 1 <= m PROVE g[i + 1] = h[i + 1]
    OBVIOUS
  <2>1. g[i] = h[i] /\ i + 1 \in 1..l /\ i + 1 \in 1..m /\ (i + 1) - 1 = i
    BY <1>2
  <2>2. g[i + 1] = [n \in Nat |-> Half(g[i][n])] /\ h[i + 1] = [n \in Nat |-> Half(h[i][n])]
    <3>1. /\ \A k \in 1..l : g[k] = [n \in Nat |-> Half(g[k - 1][n])]
          /\ \A k \in 1..m : h[k] = [n \in Nat |-> Half(h[k - 1][n])]
      BY Zenon DEF Tables
    <3> QED BY <2>1, <3>1, Zenon
  <2> QED BY <2>1, <2>2, Zenon
<1> HIDE DEF S
<1>3. Nat \subseteq S
  BY <1>1, <1>2, SetInduction
<1> QED BY <1>3 DEF S

\* What the definition of HalvedBy defines.
LEMMA Halvings ==
  /\ HalvedBy \in [Nat -> [Nat -> Nat]]
  /\ HalvedBy[0] = Identity
  /\ \A k \in Nat : HalvedBy[k + 1] = [n \in Nat |-> Half(HalvedBy[k][n])]
<1> DEFINE Table(k) == CHOOSE g : g \in Tables(k)
           F == [k \in Nat |-> Table(k)[k]]
<1>1. \A k \in Nat : Table(k) \in Tables(k)
  BY SomeTable
<1> HIDE DEF Table
<1>2. F \in [Nat -> [Nat -> Nat]]
  <2>1. \A k \in Nat : Table(k)[k] \in [Nat -> Nat]
    <3> SUFFICES ASSUME NEW k \in Nat PROVE Table(k)[k] \in [Nat -> Nat]
      OBVIOUS
    <3>1. Table(k) \in Tables(k)
      BY <1>1
    <3>2. Table(k) \in [0..k -> [Nat -> Nat]]
      BY <3>1 DEF Tables
    <3>3. k \in 0..k
      OBVIOUS
    <3> QED BY <3>2, <3>3
  <2> QED BY <2>1
<1>3. F[0] = Identity
  BY <1>1 DEF Tables
<1>4. ASSUME NEW k \in Nat PROVE F[k + 1] = [n \in Nat |-> Half(F[k][n])]
  <2>1. Table(k + 1) \in Tables(k + 1) /\ Table(k) \in Tables(k)
    BY <1>1
  <2>2. Table(k + 1)[k] = Table(k)[k]
    BY <2>1, OneTable
  <2>3. k + 1 \in 1..(k + 1) /\ (k + 1) - 1 = k
    OBVIOUS
  <2>4. Table(k + 1)[k + 1] = [n \in Nat |-> Half(Table(k + 1)[k][n])]
    BY <2>1, <2>3 DEF Tables
  <2>5. F[k + 1] = Table(k + 1)[k + 1] /\ F[k] = Table(k)[k]
    <3>1. k + 1 \in Nat
      OBVIOUS
    <3> QED BY <3>1, Zenon
  <2> HIDE DEF F
  <2> QED BY <2>2, <2>4, <2>5, Zenon
<1> HIDE DEF F
<1>5. ASSUME NEW k \in Nat
      PROVE  F[k] = [n \in Nat |-> IF k = 0 THEN n ELSE Half(F[k - 1][n])]
  <2>1. CASE k = 0
    BY <1>3, <2>1 DEF Identity
  <2>2. CASE k # 0
    <3>1. k - 1 \in Nat /\ (k - 1) + 1 = k
      BY <2>2
    <3>2. F[(k - 1) + 1] = [n \in Nat |-> Half(F[k - 1][n])]
      BY <1>4, <3>1
    <3> QED BY <2>2, <3>1, <3>2
  <2> QED BY <2>1, <2>2
<1>6. F = [k \in Nat |-> [n \in Nat |-> IF k = 0 THEN n ELSE Half(F[k - 1][n])]]
  BY <1>2, <1>5
<1>7. HalvedBy = [k \in Nat |-> [n \in Nat |-> IF k = 0 THEN n ELSE Half(HalvedBy[k - 1][n])]]
  BY <1>6 DEF HalvedBy
<1>8. HalvedBy[0] = Identity
  BY <1>7 DEF Identity
<1>9. \A k \in Nat : HalvedBy[k + 1] = [n \in Nat |-> Half(HalvedBy[k][n])]
  <2> SUFFICES ASSUME NEW k \in Nat PROVE HalvedBy[k + 1] = [n \in Nat |-> Half(HalvedBy[k][n])]
    OBVIOUS
  <2>1. k + 1 \in Nat /\ k + 1 # 0 /\ (k + 1) - 1 = k
    OBVIOUS
  <2>2. HalvedBy[k + 1] = [n \in Nat |-> IF k + 1 = 0 THEN n ELSE Half(HalvedBy[(k + 1) - 1][n])]
    BY <1>7, <2>1
  <2> QED BY <2>1, <2>2
<1>10. HalvedBy \in [Nat -> [Nat -> Nat]]
  <2> DEFINE S == {k \in Nat : HalvedBy[k] \in [Nat -> Nat]}
  <2>1. 0 \in S
    BY <1>8 DEF Identity
  <2>2. ASSUME NEW k \in Nat, k \in S PROVE k + 1 \in S
    <3>1. HalvedBy[k] \in [Nat -> Nat] /\ HalvedBy[k + 1] = [n \in Nat |-> Half(HalvedBy[k][n])]
      BY <1>9, <2>2
    <3>2. \A n \in Nat : Half(HalvedBy[k][n]) \in Nat
      BY <3>1, HalfTable
    <3>3. HalvedBy[k + 1] \in [Nat -> Nat]
      BY <3>1, <3>2
    <3>4. k + 1 \in Nat
      OBVIOUS
    <3> QED BY Zenon, <3>3, <3>4
  <2> HIDE DEF S
  <2>3. Nat \subseteq S
    BY <2>1, <2>2, SetInduction
  <2>4. \A k \in Nat : HalvedBy[k] \in [Nat -> Nat]
    BY <2>3 DEF S
  <2>5. HalvedBy = [k \in Nat |-> HalvedBy[k]]
    BY <1>7
  <2> QED BY <2>4, <2>5
<1> QED BY <1>8, <1>9, <1>10

\* ... at a number of halvings and a size.
LEMMA HalvedTyped ==
  ASSUME NEW k \in Nat, NEW n \in Nat
  PROVE  /\ HalvedBy[k][n] \in Nat /\ HalvedBy[0][n] = n
         /\ HalvedBy[k + 1][n] = Half(HalvedBy[k][n])
<1>1. HalvedBy[k] \in [Nat -> Nat]
  BY Halvings
<1>2. HalvedBy[0][n] = n
  BY Halvings DEF Identity
<1>3. HalvedBy[k + 1][n] = Half(HalvedBy[k][n])
  <2>1. HalvedBy[k + 1] = [m \in Nat |-> Half(HalvedBy[k][m])]
    BY Zenon, Halvings
  <2> QED BY Zenon, <2>1
<1> QED BY <1>1, <1>2, <1>3

\* The cases that have failed in this invocation.
Failed == {c \in Cases : failures[c] > 0}

\* Room is only ever below the target; each halving was of a case's first failure.
PaceInv ==
  /\ Cardinality(running) <= initial
  /\ target >= HalvedBy[Cardinality(Failed)][initial]

LEMMA FailedCounted == TypeOK => IsFiniteSet(Failed) /\ Cardinality(Failed) \in Nat
<1>1. Failed \subseteq Cases
  BY DEF Failed
<1> QED BY <1>1, CasesFinite, FS_Subset, FS_CardinalityType

\* Nothing has been halved when an invocation begins.
LEMMA FullPace ==
  ASSUME TypeOK, running = {}, target = initial, \A c \in Cases : failures[c] = 0
  PROVE  PaceInv
<1>1. Failed = {} /\ Cardinality(Failed) = 0 /\ Cardinality(running) = 0
  <2>1. Failed = {}
    BY DEF Failed
  <2> QED BY <2>1, FS_EmptySet
<1>2. initial \in Nat
  BY DEF TypeOK
<1>3. HalvedBy[0][initial] = initial
  BY <1>2, HalvedTyped
<1> QED BY <1>1, <1>2, <1>3 DEF PaceInv

\* A step that fails no case and starts none, and takes no place away.
LEMMA SamePace ==
  ASSUME PaceInv, Inv, Inv', UNCHANGED <<initial, failures>>, target' >= target,
         Cardinality(running') <= Cardinality(running)
  PROVE  PaceInv'
<1>1. Failed' = Failed
  BY DEF Failed
<1>2. HalvedBy[Cardinality(Failed)][initial] \in Nat /\ target \in Nat /\ target' \in Nat
      /\ initial \in Nat /\ Cardinality(running) \in Nat /\ Cardinality(running') \in Nat
  <2>1. target \in Nat /\ target' \in Nat /\ initial \in Nat
    BY DEF Inv, TypeOK
  <2>2. IsFiniteSet(running) /\ IsFiniteSet(running')
    BY DEF Inv, Counted
  <2>3. Cardinality(Failed) \in Nat
    BY FailedCounted DEF Inv
  <2>4. HalvedBy[Cardinality(Failed)][initial] \in Nat
    BY <2>1, <2>3, HalvedTyped
  <2>5. Cardinality(running) \in Nat /\ Cardinality(running') \in Nat
    BY <2>2, FS_CardinalityType
  <2> QED BY <2>1, <2>4, <2>5
<1> QED BY <1>1, <1>2 DEF PaceInv

\* Moving one task does not add one.
LEMMA NoMoreTasks ==
  ASSUME NEW R, IsFiniteSet(R), NEW t \in R, NEW u
  PROVE  Cardinality((R \ {t}) \cup {u}) <= Cardinality(R) /\ Cardinality(R \ {t}) <= Cardinality(R)
<1>1. IsFiniteSet(R \ {t}) /\ Cardinality(R \ {t}) \in Nat
  BY FS_RemoveElement, FS_CardinalityType
<1>2. Cardinality(R) = Cardinality(R \ {t}) + 1
  <2>1. R = (R \ {t}) \cup {t} /\ t \notin R \ {t}
    OBVIOUS
  <2> QED BY <1>1, <2>1, FS_AddElement
<1>3. PICK n \in Nat : n = Cardinality(R \ {t})
  BY <1>1
<1>4. n <= n + 1 /\ n + 1 <= n + 1
  OBVIOUS
<1>5. CASE u \in R \ {t}
  <2>1. (R \ {t}) \cup {u} = R \ {t}
    BY <1>5
  <2> QED BY <1>2, <1>3, <1>4, <2>1
<1>6. CASE u \notin R \ {t}
  <2>1. Cardinality((R \ {t}) \cup {u}) = Cardinality(R \ {t}) + 1
    BY <1>1, <1>6, FS_AddElement
  <2> QED BY <1>2, <1>3, <1>4, <2>1
<1> QED BY <1>5, <1>6

LEMMA StepPace == Inv /\ Inv' /\ PaceInv /\ [Next]_vars => PaceInv'
<1> SUFFICES ASSUME Inv, Inv', PaceInv, [Next]_vars PROVE PaceInv'
  OBVIOUS
<1>a. /\ TypeOK /\ TypeOK' /\ IsFiniteSet(running) /\ Cardinality(running) \in Nat
      /\ target \in Nat /\ initial \in Nat /\ target <= initial /\ batch \subseteq running
  <2>1. TypeOK /\ TypeOK' /\ IsFiniteSet(running)
    BY DEF Inv, Counted
  <2> QED BY <2>1, FS_CardinalityType DEF TypeOK
<1>b. ASSUME UNCHANGED <<running, initial, target, failures>> PROVE PaceInv'
  <2>1. Cardinality(running') <= Cardinality(running)
    BY <1>a, <1>b
  <2> QED BY <1>a, <1>b, <2>1, SamePace
<1>c. ASSUME running' = {}, UNCHANGED <<initial, target, failures>> PROVE PaceInv'
  <2>1. Cardinality(running') = 0
    BY <1>c, FS_EmptySet
  <2> QED BY <1>a, <1>c, <2>1, SamePace
<1>1. CASE UNCHANGED vars
  BY <1>1, <1>b DEF vars, pace, pool
<1>2. ASSUME NEW requested \in SUBSET Cases, NEW noSkip \in BOOLEAN, NEW n \in Concurrencies,
             Invoke(requested, noSkip, n)
      PROVE  PaceInv'
  <2>1. running' = {} /\ target' = initial' /\ \A c \in Cases : failures'[c] = 0
    BY <1>2 DEF Invoke
  <2>2. (TypeOK /\ running = {} /\ target = initial /\ (\A c \in Cases : failures[c] = 0) => PaceInv)'
    BY FullPace, PTL
  <2> QED BY <1>a, <2>1, <2>2
<1>3. CASE Start
  <2> PICK e : e = Head(pending)
    OBVIOUS
  <2> PICK u : u = [case |-> e.case, failed |-> e.failed, at |-> "evaluating"]
    OBVIOUS
  <2>1. running' = running \cup {u} /\ Cardinality(running) < target
        /\ UNCHANGED <<initial, target, failures>>
    BY <1>3 DEF Start, Room, pace
  <2>2. Cardinality(running') <= Cardinality(running) + 1
    <3>1. CASE u \in running
      <4>1. running' = running
        BY <2>1, <3>1
      <4> QED BY <1>a, <4>1
    <3>2. CASE u \notin running
      <4>1. Cardinality(running') = Cardinality(running) + 1
        BY <1>a, <2>1, <3>2, FS_AddElement
      <4>2. \A n \in Nat : n + 1 <= n + 1
        OBVIOUS
      <4> QED BY <1>a, <4>1, <4>2
    <3> QED BY <3>1, <3>2
  <2>3. IsFiniteSet(running') /\ Cardinality(running') \in Nat
    BY FS_CardinalityType DEF Inv, Counted
  <2>4. Cardinality(running') <= initial'
    BY <1>a, <2>1, <2>2, <2>3
  <2>5. Failed' = Failed
    BY <2>1 DEF Failed
  <2> QED BY <2>1, <2>4, <2>5 DEF PaceInv
<1>4. CASE Wait \/ Return \/ Wake \/ BatchDone
  BY <1>4, <1>b DEF Wait, Return, Wake, BatchDone, pace, pool
<1>5. ASSUME NEW t \in batch, Succeed(t) PROVE PaceInv'
  <2>1. running' = running \ {t} /\ t \in running /\ UNCHANGED <<initial, failures>>
    BY <1>5, <1>a DEF Succeed, Handled
  <2>2. target' >= target
    BY <1>5, <1>a DEF Succeed
  <2>3. Cardinality(running') <= Cardinality(running)
    BY <1>a, <2>1, NoMoreTasks
  <2> QED BY <2>1, <2>2, <2>3, SamePace
<1>6. ASSUME NEW t \in batch, Retry(t) PROVE PaceInv'
  <2>1. running' = running \ {t} /\ t \in running /\ initial' = initial /\ target' = Half(target)
        /\ failures' = [failures EXCEPT ![t.case] = failures[t.case] + 1] /\ t.failed = 0
    <3>1. batch \subseteq running
      BY <1>a DEF Inv, TypeOK
    <3> QED BY <1>6, <3>1 DEF Retry, FailedOnce, Handled
  <2>2. t.case \in Cases /\ failures[t.case] = 0
    BY <1>a, <2>1, TaskTyped DEF Inv, Traced, UnderWay
  <2>3. Failed' = Failed \cup {t.case} /\ t.case \notin Failed
    <3>1. \A c \in Cases : failures'[c] = IF c = t.case THEN 1 ELSE failures[c]
      BY <1>a, <2>1, <2>2 DEF TypeOK
    <3> QED BY <2>2, <3>1 DEF Failed
  <2>4. Cardinality(Failed') = Cardinality(Failed) + 1 /\ Cardinality(Failed) \in Nat
    BY <1>a, <2>3, FailedCounted, FS_AddElement
  <2> PICK k \in Nat : k = Cardinality(Failed)
    BY <2>4
  <2>5. HalvedBy[k][initial] \in Nat /\ HalvedBy[k + 1][initial] = Half(HalvedBy[k][initial])
    BY <1>a, HalvedTyped
  <2>6. target >= HalvedBy[k][initial]
    BY DEF PaceInv
  <2>7. Half(target) >= HalvedBy[k + 1][initial]
    BY <1>a, <2>5, <2>6, HalfOfMore
  <2>8. Cardinality(running') <= Cardinality(running) /\ IsFiniteSet(running')
        /\ Cardinality(running') \in Nat
    BY <1>a, <2>1, NoMoreTasks, FS_CardinalityType DEF Inv, Counted
  <2>9. Cardinality(running') <= initial'
    BY <1>a, <2>1, <2>8 DEF PaceInv
  <2> QED BY <2>1, <2>4, <2>7, <2>9 DEF PaceInv
<1>7. ASSUME NEW t \in batch, Abandon(t) PROVE PaceInv'
  <2>1. running' = running \ {t} /\ t \in running /\ UNCHANGED <<initial, target>>
        /\ failures' = [failures EXCEPT ![t.case] = failures[t.case] + 1] /\ t.failed = 1
    BY <1>7, <1>a DEF Abandon, FailedOnce, Handled, AfterSecondFailure
  <2>2. t.case \in Cases /\ failures[t.case] = 1
    BY <1>a, <2>1, TaskTyped DEF Inv, Traced, UnderWay
  <2>3. Failed' = Failed
    <3>1. \A c \in Cases : failures'[c] = IF c = t.case THEN 2 ELSE failures[c]
      BY <1>a, <2>1, <2>2 DEF TypeOK
    <3> QED BY <2>2, <3>1 DEF Failed
  <2>4. Cardinality(running') <= Cardinality(running) /\ IsFiniteSet(running')
        /\ Cardinality(running') \in Nat
    BY <1>a, <2>1, NoMoreTasks, FS_CardinalityType DEF Inv, Counted
  <2>5. Cardinality(running') <= initial'
    BY <1>a, <2>1, <2>4 DEF PaceInv
  <2> QED BY <2>1, <2>3, <2>5 DEF PaceInv
<1>8. ASSUME NEW t \in batch, Stop(t) PROVE PaceInv'
  BY <1>8, <1>c DEF Stop, pace
<1>9. ASSUME NEW t \in running, Step(t) PROVE PaceInv'
  <2>1. UNCHANGED <<initial, target, failures>> /\ \E at \in {"transcribed", "recorded", "returned", "raised", "broken"} : running' = Moved(t, at)
    BY <1>9 DEF Step, Transcribe, Record, Score, Raise, WriteFails, ScoreFails, pace
  <2>2. PICK at : running' = Moved(t, at)
    BY <2>1
  <2>3. Cardinality(running') <= Cardinality(running)
    BY <1>a, <2>2, NoMoreTasks DEF Moved
  <2> QED BY <1>a, <2>1, <2>3, SamePace
<1>10. CASE Kill
  BY <1>10, <1>c DEF Kill, pace
<1> QED
  BY <1>1, <1>2, <1>3, <1>4, <1>5, <1>6, <1>7, <1>8, <1>9, <1>10 DEF Next, Driver, Runs

\* The pool never exceeds what was asked for, and is never below what a halving for
\* each case that failed leaves of it: adaptive concurrency reacts to cases, not retries.
THEOREM PoolIsPaced == Spec => []PoolPaced
<1>1. Init => PaceInv
  <2> SUFFICES ASSUME Init PROVE PaceInv
    OBVIOUS
  <2>1. TypeOK
    BY InitInv DEF Inv
  <2> QED BY <2>1, FullPace DEF Init
<1>2. Inv /\ Inv' /\ PaceInv /\ [Next]_vars => PaceInv'
  BY StepPace
<1>3. PaceInv => PoolPaced
  BY DEF PaceInv, PoolPaced, Failed
<1> QED BY <1>1, <1>2, <1>3, Invariant, PTL DEF Spec

=============================================================================
