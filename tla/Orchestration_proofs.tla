------------------------- MODULE Orchestration_proofs -------------------------
(***************************************************************************)
(* Proofs about Orchestration: for every chain, budget and number of runs, *)
(* an outage and a spent budget reach the host, and every run is judged on *)
(* what it left against what it started from, runs of one worker that      *)
(* overlap mixing up no entries but their own.                             *)
(***************************************************************************)
EXTENDS Orchestration, FiniteSetTheorems, TLAPS

\* A worker responds as a call of it ends, and delivers no more than it responds.
Over(w) == {i \in CallsOf(w) : calls[i].at # "running"}
CountInv ==
  \A w \in Workers : Len(delivered[w]) <= responses[w] /\ responses[w] <= Cardinality(Over(w))

\* Whatever becomes of the calls after it, an outage stays with its worker.
OutageInv ==
  /\ \A i \in DOMAIN calls : calls[i].down => outage[calls[i].worker]
  /\ pc = "judged" => \A w \in Workers : ~outage[w]

\* A run is refused once more than the budget is spent, and nothing is paid back.
SpentInv == \A i \in DOMAIN calls : calls[i].at = "refused" => BudgetExceeded

\* A call that has ended is told of as itself, or, if another overlapped it, as one
\* that began no earlier.
ToldInv ==
  \A i \in DOMAIN calls :
    IF calls[i].at = "running" THEN ~calls[i].told /\ calls[i].delivered = <<>> /\ calls[i].left = <<>>
    ELSE /\ calls[i].told /\ calls[i].stamp >= i
         /\ Alone(i) \/ calls[i].at = "refused" => calls[i].stamp = i /\ calls[i].delivered = calls[i].left

\* A call under way is the latest of its worker, whose list is as it found it, unless
\* another began meanwhile: that one overlapped it.
LatestInv ==
  \A i \in DOMAIN calls : calls[i].at = "running" =>
    /\ \A j \in CallsOf(calls[i].worker) : j > i => ~Alone(i) /\ ~Alone(j)
    /\ started[calls[i].worker] # <<>> /\ LatestStamp(calls[i].worker) >= i
    /\ Alone(i) => /\ LatestStamp(calls[i].worker) = i
                   /\ calls[i].size = Len(delivered[calls[i].worker])

\* What is left when the calls S have returned: what one of them did, and what the
\* latest of them did if no other overlapped it.
Left(S, left) ==
  IF S = {} THEN left = <<>>
  ELSE /\ \E i \in S : \A j \in S : j <= i
       /\ \E i \in S : left = calls[i].left
       /\ \A i \in S : Alone(i) /\ (\A j \in S : j <= i) => left = calls[i].left

\* A worker's list ends in what its calls that returned have left.
LastInv == \A w \in Workers : Left(Returned(w), LastOf(delivered[w]))

\* The calls of the worker before that had begun when a call did have ended, and what
\* it was to start from is what those that returned have left.
ReturnedBefore(i) == {j \in Returned(calls[i].worker - 1) : j < i}
BeforeInv ==
  \A i \in DOMAIN calls : calls[i].worker > 1 /\ ~calls[i].amid =>
    /\ \A j \in CallsOf(calls[i].worker - 1) : j < i => calls[j].at # "running"
    /\ Left(ReturnedBefore(i), calls[i].before)

\* A call under way has been stamped.
CalledInv == \A i \in DOMAIN calls : started[calls[i].worker] # <<>>

\* Judged only when every call has its entry.
JudgedInv == pc = "judged" => EveryCallTold

\* What surfaces, and what becomes of each call's entry.
SureInv == WellFormed /\ CalledInv /\ CountInv /\ OutageInv /\ SpentInv /\ JudgedInv
Inv == SureInv /\ ToldInv /\ LatestInv /\ LastInv /\ BeforeInv

---------------------------------------------------------------------------
(* The shapes of calls and lists. *)

LEMMA CallShape ==
  ASSUME WellFormed, NEW i \in DOMAIN calls
  PROVE  /\ calls[i] \in Call /\ calls[i].worker \in Workers /\ calls[i].size \in Nat
         /\ calls[i].at \in {"running", "completed", "failed", "refused"}
         /\ i \in 1..Len(calls) /\ Len(calls) \in Nat /\ i \in 1..MaxCalls
<1>1. calls[i] \in Call /\ i \in 1..Len(calls) /\ Len(calls) \in Nat /\ Len(calls) <= MaxCalls
  <2> DEFINE C == Call
  <2>1. calls \in Seq(C) /\ Len(calls) <= MaxCalls
    BY DEF WellFormed
  <2> HIDE DEF C
  <2>2. calls[i] \in C /\ i \in 1..Len(calls) /\ Len(calls) \in Nat
    BY <2>1
  <2> QED BY <2>1, <2>2 DEF C
<1>2. i \in 1..MaxCalls
  BY <1>1, BoundsAssumption
<1> QED BY <1>1, <1>2 DEF Call

\* A list gains an element at its end.
LEMMA Appended ==
  ASSUME NEW S, NEW seq \in Seq(S), NEW e \in S
  PROVE  /\ Append(seq, e) \in Seq(S) /\ Append(seq, e) # <<>>
         /\ Len(seq) \in Nat /\ Len(Append(seq, e)) = Len(seq) + 1
         /\ DOMAIN seq = 1..Len(seq) /\ DOMAIN Append(seq, e) = 1..(Len(seq) + 1)
         /\ \A j \in DOMAIN seq : Append(seq, e)[j] = seq[j]
         /\ Append(seq, e)[Len(seq) + 1] = e
         /\ Last(Append(seq, e)) = e
         /\ LastOf(Append(seq, e)) = <<e>>
<1>1. Append(seq, e) \in Seq(S) /\ Len(Append(seq, e)) = Len(seq) + 1 /\ Len(seq) \in Nat
  OBVIOUS
<1>2. Append(seq, e) # <<>>
  BY <1>1
<1> QED BY <1>1, <1>2 DEF Last, LastOf

\* The last of a list is one of its elements.
LEMMA LastShape ==
  ASSUME NEW S, NEW seq \in Seq(S)
  PROVE  /\ LastOf(seq) \in Maybe(S)
         /\ seq # <<>> => Last(seq) \in S
         /\ LastOf(seq) = <<>> <=> seq = <<>>
BY DEF LastOf, Last, Maybe

LEMMA NewShape ==
  ASSUME NEW S, NEW seq \in Seq(S), NEW size \in Nat
  PROVE  New(seq, size) \in Maybe(S)
BY DEF New, Maybe

\* One entry of the list of calls is replaced.
LEMMA Filled ==
  ASSUME WellFormed, NEW i \in DOMAIN calls, NEW c \in Call
  PROVE  LET filled == [calls EXCEPT ![i] = c]
         IN  /\ filled \in Seq(Call) /\ Len(filled) = Len(calls)
             /\ DOMAIN filled = DOMAIN calls
             /\ filled[i] = c
             /\ \A j \in DOMAIN calls : j # i => filled[j] = calls[j]
<1> DEFINE C == Call
<1>1. calls \in Seq(C) /\ c \in C
  BY DEF WellFormed
<1> HIDE DEF C
<1>2. [calls EXCEPT ![i] = c] \in Seq(C) /\ Len([calls EXCEPT ![i] = c]) = Len(calls)
  BY <1>1
<1> QED BY <1>1, <1>2 DEF C

\* A call that begins is well formed and says what it found.
LEMMA BegunShape ==
  ASSUME WellFormed, NEW w \in Workers
  PROVE  Begun(w) \in Call
<1>1. Len(delivered[w]) \in Nat
  BY DEF WellFormed
<1>2. w # 1 => LastOf(delivered[w - 1]) \in Maybe(Versions)
  <2> SUFFICES ASSUME w # 1 PROVE LastOf(delivered[w - 1]) \in Maybe(Versions)
    OBVIOUS
  <2>1. w - 1 \in Workers
    BY BoundsAssumption DEF Workers
  <2> QED BY <2>1, LastShape DEF WellFormed
<1>3. (IF w = 1 THEN <<>> ELSE LastOf(delivered[w - 1])) \in Maybe(Versions) /\ <<>> \in Maybe(Versions)
  BY <1>2 DEF Maybe
<1>4. (w > 1 /\ Running(w - 1)) \in BOOLEAN
  OBVIOUS
<1> HIDE DEF Maybe
<1> QED BY <1>1, <1>3, <1>4 DEF Begun, Call

\* A call that ends is well formed, whatever it left.
LEMMA EndedShape ==
  ASSUME WellFormed, CalledInv, NEW i \in DOMAIN calls, NEW list \in Seq(Versions),
         NEW at \in {"completed", "failed"}
  PROVE  /\ Ended(i, at, list) \in Call
         /\ Ended(i, at, list).worker = calls[i].worker
         /\ Ended(i, at, list).at = at
         /\ Ended(i, at, list).size = calls[i].size
         /\ Ended(i, at, list).told = TRUE
         /\ Ended(i, at, list).stamp = LatestStamp(calls[i].worker)
         /\ Ended(i, at, list).delivered = New(list, calls[i].size)
         /\ Ended(i, at, list).left = calls[i].left
         /\ Ended(i, at, list).before = calls[i].before
         /\ Ended(i, at, list).amid = calls[i].amid
         /\ Ended(i, at, list).down = calls[i].down
<1>1. calls[i] \in Call /\ calls[i].worker \in Workers /\ calls[i].size \in Nat
  BY CallShape
<1>2. LatestStamp(calls[i].worker) \in Nat
  <2>1. started[calls[i].worker] \in Seq(1..MaxCalls) /\ started[calls[i].worker] # <<>>
    BY <1>1 DEF WellFormed, CalledInv
  <2>2. Last(started[calls[i].worker]) \in 1..MaxCalls
    BY <2>1, LastShape
  <2> QED BY <2>2, BoundsAssumption DEF LatestStamp
<1>3. New(list, calls[i].size) \in Maybe(Versions)
  BY <1>1, NewShape
<1> QED BY <1>1, <1>2, <1>3 DEF Ended, Call

---------------------------------------------------------------------------
(* What each step does to the list of calls. *)

LEMMA RunFacts ==
  ASSUME WellFormed, NEW w \in Workers, RunWorker(w), NEW n, n = Len(calls) + 1
  PROVE  /\ calls' \in Seq(Call) /\ Len(calls') = n /\ n \in 1..MaxCalls
         /\ DOMAIN calls' = DOMAIN calls \cup {n} /\ n \notin DOMAIN calls
         /\ \A j \in DOMAIN calls : calls'[j] = calls[j] /\ j < n
         /\ calls'[n] = IF OverBudget THEN Refused(w) ELSE Begun(w)
<1>1. Begun(w) \in Call
  BY BegunShape
<1>2. Refused(w) \in Call
  <2>1. Len(calls) + 1 \in Nat
    BY DEF WellFormed
  <2> QED BY <1>1, <2>1 DEF Refused, Call
<1>3. calls' = Append(calls, IF OverBudget THEN Refused(w) ELSE Begun(w)) /\ Len(calls) < MaxCalls
  BY DEF RunWorker
<1>4. (IF OverBudget THEN Refused(w) ELSE Begun(w)) \in Call /\ calls \in Seq(Call)
  BY <1>1, <1>2 DEF WellFormed
<1>5. /\ calls' \in Seq(Call) /\ Len(calls') = Len(calls) + 1 /\ Len(calls) \in Nat
      /\ DOMAIN calls = 1..Len(calls) /\ DOMAIN calls' = 1..(Len(calls) + 1)
      /\ \A j \in DOMAIN calls : calls'[j] = calls[j]
      /\ calls'[Len(calls) + 1] = IF OverBudget THEN Refused(w) ELSE Begun(w)
  <2> HIDE DEF Call
  <2> QED BY <1>3, <1>4, Appended
<1> QED BY <1>3, <1>5, BoundsAssumption

\* The fields of a call that has just begun, or been refused.
LEMMA BegunFields ==
  ASSUME NEW w
  PROVE  /\ Begun(w).worker = w /\ Refused(w).worker = w
         /\ Begun(w).at = "running" /\ Refused(w).at = "refused"
         /\ Begun(w).size = Len(delivered[w])
         /\ Begun(w).told = FALSE /\ Refused(w).told = TRUE
         /\ Refused(w).stamp = Len(calls) + 1
         /\ Begun(w).delivered = <<>> /\ Refused(w).delivered = <<>>
         /\ Begun(w).left = <<>> /\ Refused(w).left = <<>>
         /\ Begun(w).before = (IF w = 1 THEN <<>> ELSE LastOf(delivered[w - 1]))
         /\ Refused(w).before = Begun(w).before
         /\ Begun(w).amid = (w > 1 /\ Running(w - 1)) /\ Refused(w).amid = Begun(w).amid
         /\ Begun(w).down = FALSE /\ Refused(w).down = FALSE
BY DEF Begun, Refused

\* Call i ends: the list changes at i alone, where the entry is filled in.
Ends(i, at, list) ==
  /\ calls' \in Seq(Call) /\ Len(calls') = Len(calls) /\ DOMAIN calls' = DOMAIN calls
  /\ \A j \in DOMAIN calls : j # i => calls'[j] = calls[j]
  /\ calls'[i].worker = calls[i].worker /\ calls'[i].at = at
  /\ calls'[i].size = calls[i].size /\ calls'[i].told = TRUE
  /\ calls'[i].stamp = LatestStamp(calls[i].worker)
  /\ calls'[i].delivered = New(list, calls[i].size)
  /\ calls'[i].before = calls[i].before /\ calls'[i].amid = calls[i].amid

LEMMA ReturnFacts ==
  ASSUME WellFormed, CalledInv, NEW i \in DOMAIN calls, NEW down \in BOOLEAN, Return(i, down),
         NEW w, w = calls[i].worker, NEW list, list = Append(delivered[w], object[w])
  PROVE  /\ w \in Workers /\ delivered[w] \in Seq(Versions) /\ object[w] \in Versions
         /\ Ends(i, "completed", list) /\ calls'[i].left = <<object[w]>> /\ calls'[i].down = down
<1>1. w \in Workers /\ delivered[w] \in Seq(Versions) /\ object[w] \in Versions
  BY CallShape DEF WellFormed
<1>2. list \in Seq(Versions)
  BY <1>1
<1> DEFINE e == Ended(i, "completed", list)
           c == [e EXCEPT !.left = <<object[w]>>, !.down = down]
<1>3. <<object[w]>> \in Maybe(Versions)
  BY <1>1 DEF Maybe
<1>4. e \in Call
  BY <1>2, EndedShape
<1>5. c \in Call
  <2> HIDE DEF e
  <2> QED BY <1>3, <1>4 DEF Call
<1>6. calls' = [calls EXCEPT ![i] = c]
  BY DEF Return
<1>7. /\ c.worker = e.worker /\ c.at = e.at /\ c.size = e.size /\ c.told = e.told
      /\ c.stamp = e.stamp /\ c.delivered = e.delivered /\ c.before = e.before
      /\ c.amid = e.amid /\ c.left = <<object[w]>> /\ c.down = down
  <2> HIDE DEF e
  <2> QED BY <1>4 DEF Call
<1>8. /\ e.worker = calls[i].worker /\ e.at = "completed" /\ e.size = calls[i].size
      /\ e.told = TRUE /\ e.stamp = LatestStamp(calls[i].worker)
      /\ e.delivered = New(list, calls[i].size) /\ e.before = calls[i].before
      /\ e.amid = calls[i].amid
  BY <1>2, EndedShape, ZenonT(60)
<1> HIDE DEF e, c
<1>9. /\ calls' \in Seq(Call) /\ Len(calls') = Len(calls) /\ DOMAIN calls' = DOMAIN calls
      /\ calls'[i] = c /\ \A j \in DOMAIN calls : j # i => calls'[j] = calls[j]
  BY <1>5, <1>6, Filled
<1> QED BY <1>1, <1>7, <1>8, <1>9 DEF Ends

LEMMA SnapshotFacts ==
  ASSUME WellFormed, CalledInv, NEW i \in DOMAIN calls, NEW down \in BOOLEAN, SnapshotFails(i, down),
         NEW w, w = calls[i].worker
  PROVE  /\ w \in Workers /\ delivered[w] \in Seq(Versions)
         /\ Ends(i, "failed", delivered[w]) /\ calls'[i].left = calls[i].left
         /\ calls'[i].down = down
<1>1. w \in Workers /\ delivered[w] \in Seq(Versions)
  BY CallShape DEF WellFormed
<1> DEFINE e == Ended(i, "failed", delivered[w])
           c == [e EXCEPT !.down = down]
<1>4. e \in Call
  BY <1>1, EndedShape
<1>5. c \in Call
  <2> HIDE DEF e
  <2> QED BY <1>4 DEF Call
<1>6. calls' = [calls EXCEPT ![i] = c]
  BY DEF SnapshotFails
<1>7. /\ c.worker = e.worker /\ c.at = e.at /\ c.size = e.size /\ c.told = e.told
      /\ c.stamp = e.stamp /\ c.delivered = e.delivered /\ c.before = e.before
      /\ c.amid = e.amid /\ c.left = e.left /\ c.down = down
  <2> HIDE DEF e
  <2> QED BY <1>4 DEF Call
<1>8. /\ e.worker = calls[i].worker /\ e.at = "failed" /\ e.size = calls[i].size
      /\ e.told = TRUE /\ e.stamp = LatestStamp(calls[i].worker)
      /\ e.delivered = New(delivered[w], calls[i].size) /\ e.before = calls[i].before
      /\ e.amid = calls[i].amid /\ e.left = calls[i].left
  BY <1>1, EndedShape
<1> HIDE DEF e, c
<1>9. /\ calls' \in Seq(Call) /\ Len(calls') = Len(calls) /\ DOMAIN calls' = DOMAIN calls
      /\ calls'[i] = c /\ \A j \in DOMAIN calls : j # i => calls'[j] = calls[j]
  BY <1>5, <1>6, Filled
<1> QED BY <1>1, <1>7, <1>8, <1>9 DEF Ends

LEMMA CancelFacts ==
  ASSUME WellFormed, CalledInv, NEW i \in DOMAIN calls, Cancelled(i), NEW w, w = calls[i].worker
  PROVE  /\ w \in Workers /\ delivered[w] \in Seq(Versions)
         /\ Ends(i, "failed", delivered[w]) /\ calls'[i].left = calls[i].left
         /\ calls'[i].down = calls[i].down
<1>1. w \in Workers /\ delivered[w] \in Seq(Versions)
  BY CallShape DEF WellFormed
<1> DEFINE e == Ended(i, "failed", delivered[w])
<1>2. e \in Call
  BY <1>1, EndedShape
<1>3. calls' = [calls EXCEPT ![i] = e]
  BY DEF Cancelled
<1>4. /\ e.worker = calls[i].worker /\ e.at = "failed" /\ e.size = calls[i].size
      /\ e.told = TRUE /\ e.stamp = LatestStamp(calls[i].worker)
      /\ e.delivered = New(delivered[w], calls[i].size) /\ e.before = calls[i].before
      /\ e.amid = calls[i].amid /\ e.left = calls[i].left /\ e.down = calls[i].down
  BY <1>1, EndedShape
<1> HIDE DEF e
<1>5. /\ calls' \in Seq(Call) /\ Len(calls') = Len(calls) /\ DOMAIN calls' = DOMAIN calls
      /\ calls'[i] = e /\ \A j \in DOMAIN calls : j # i => calls'[j] = calls[j]
  BY <1>2, <1>3, Filled
<1> QED BY <1>1, <1>4, <1>5 DEF Ends

---------------------------------------------------------------------------
(* However the orchestrator runs its workers. *)

LEMMA Counting ==
  ASSUME NEW n \in Nat, NEW S, NEW T, S \subseteq T, T \subseteq 1..n
  PROVE  /\ Cardinality(S) \in Nat /\ Cardinality(T) \in Nat
         /\ Cardinality(S) <= Cardinality(T)
         /\ \A x \in T : x \notin S => Cardinality(S) + 1 <= Cardinality(T)
<1>1. IsFiniteSet(1..n)
  BY FS_Interval
<1>2. IsFiniteSet(T) /\ IsFiniteSet(S)
  BY <1>1, FS_Subset
<1>3. Cardinality(S) \in Nat /\ Cardinality(T) \in Nat /\ Cardinality(S) <= Cardinality(T)
  BY <1>2, FS_Subset, FS_CardinalityType
<1>4. ASSUME NEW x \in T, x \notin S PROVE Cardinality(S) + 1 <= Cardinality(T)
  <2>1. Cardinality(S \cup {x}) = Cardinality(S) + 1
    BY <1>2, <1>4, FS_AddElement
  <2>2. S \cup {x} \subseteq T
    BY <1>4
  <2> QED BY <1>2, <2>1, <2>2, FS_Subset
<1> QED BY <1>3, <1>4

LEMMA InitInv == Init => Inv
<1> SUFFICES ASSUME Init PROVE Inv
  OBVIOUS
<1>1. DOMAIN calls = {} /\ calls \in Seq(Call) /\ Len(calls) = 0
  BY DEF Init
<1>2. WellFormed
  BY <1>1, BoundsAssumption DEF Init, WellFormed, Versions
<1>3. CountInv
  <2>1. \A w \in Workers : Over(w) = {}
    BY <1>1 DEF Over, CallsOf
  <2> QED BY <2>1, FS_EmptySet, SMTT(30) DEF Init, CountInv
<1>4. CalledInv /\ OutageInv /\ SpentInv /\ JudgedInv
  BY <1>1 DEF Init, CalledInv, OutageInv, SpentInv, JudgedInv
<1>5. ToldInv /\ LatestInv /\ BeforeInv
  BY <1>1 DEF ToldInv, LatestInv, BeforeInv
<1>6. LastInv
  <2>1. \A w \in Workers : Returned(w) = {} /\ LastOf(delivered[w]) = <<>>
    BY <1>1 DEF Returned, CallsOf, LastOf, Init
  <2> QED BY <2>1 DEF LastInv, Left
<1> QED BY <1>2, <1>3, <1>4, <1>5, <1>6 DEF Inv, SureInv

\* A call that ends is over, and what the others were they are.
LEMMA EndKeeps ==
  ASSUME SureInv, NEW i \in DOMAIN calls, calls[i].at = "running", NEW w, w = calls[i].worker,
         NEW at \in {"completed", "failed"}, NEW list, Ends(i, at, list)
  PROVE  /\ \A v \in Workers : /\ Cardinality(Over(v)) \in Nat /\ Cardinality(Over(v)') \in Nat
                                /\ Cardinality(Over(v)) <= Cardinality(Over(v)')
         /\ Cardinality(Over(w)) + 1 <= Cardinality(Over(w)')
         /\ \A j \in DOMAIN calls : calls'[j].worker = calls[j].worker
         /\ \A j \in DOMAIN calls' : calls'[j].at = "refused" => calls[j].at = "refused"
<1> WellFormed
  BY DEF SureInv
<1>1. /\ DOMAIN calls = 1..Len(calls) /\ Len(calls) \in Nat /\ DOMAIN calls' = DOMAIN calls
      /\ calls[i].worker \in Workers
  <2> HIDE DEF Call
  <2> QED BY CallShape DEF WellFormed, Ends
<1>2. \A v : Over(v) \subseteq Over(v)' /\ Over(v)' \subseteq 1..Len(calls)
  BY <1>1 DEF Over, CallsOf, Ends
<1>3. i \in Over(w)' /\ i \notin Over(w)
  BY DEF Over, CallsOf, Ends
<1>4. \A v : /\ Cardinality(Over(v)) \in Nat /\ Cardinality(Over(v)') \in Nat
             /\ Cardinality(Over(v)) <= Cardinality(Over(v)')
  BY <1>1, <1>2, Counting
<1>5. Cardinality(Over(w)) + 1 <= Cardinality(Over(w)')
  BY <1>1, <1>2, <1>3, Counting
<1>6. \A j \in DOMAIN calls : calls'[j].worker = calls[j].worker
  BY DEF Ends
<1>7. \A j \in DOMAIN calls' : calls'[j].at = "refused" => calls[j].at = "refused"
  BY DEF Ends
<1> QED BY <1>4, <1>5, <1>6, <1>7

\* A step that leaves the calls, the workers and the clock as they are.
LEMMA SureFrame ==
  ASSUME SureInv, UNCHANGED <<calls, started, delivered, responses, outage, overlapped>>,
         pc' = pc, object' \in [Workers -> Versions], spent' \in 0..MaxSpent, spent' >= spent
  PROVE  SureInv'
<1>1. WellFormed'
  BY DEF SureInv, WellFormed
<1>2. CalledInv' /\ OutageInv' /\ JudgedInv'
  BY DEF SureInv, CalledInv, OutageInv, JudgedInv, EveryCallTold
<1>3. CountInv'
  BY DEF SureInv, CountInv, Over, CallsOf
<1>4. SpentInv'
  BY BoundsAssumption DEF SureInv, SpentInv, BudgetExceeded, WellFormed
<1> QED BY <1>1, <1>2, <1>3, <1>4 DEF SureInv

LEMMA SureRunWorker ==
  ASSUME SureInv, NEW w \in Workers, RunWorker(w)
  PROVE  SureInv'
<1> DEFINE n == Len(calls) + 1
<1> WellFormed
  BY DEF SureInv
<1>1. /\ calls' \in Seq(Call) /\ Len(calls') = n /\ n \in 1..MaxCalls
      /\ DOMAIN calls' = DOMAIN calls \cup {n} /\ n \notin DOMAIN calls
      /\ \A j \in DOMAIN calls : calls'[j] = calls[j] /\ j < n
      /\ calls'[n] = IF OverBudget THEN Refused(w) ELSE Begun(w)
  BY RunFacts
<1>0. overlapped' \subseteq overlapped \cup DOMAIN calls \cup {n}
  BY DEF RunWorker, Overlaps, CallsOf
<1>2. /\ calls'[n].worker = w /\ calls'[n].down = FALSE
      /\ calls'[n].at = IF OverBudget THEN "refused" ELSE "running"
  <2> HIDE DEF n
  <2>1. /\ Begun(w).worker = w /\ Refused(w).worker = w /\ Begun(w).down = FALSE
        /\ Refused(w).down = FALSE /\ Begun(w).at = "running" /\ Refused(w).at = "refused"
    BY BegunFields
  <2> QED BY <1>1, <2>1
<1>3. UNCHANGED <<pc, object, delivered, responses, outage, spent>> /\ pc = "directing"
  BY DEF RunWorker
<1>4. /\ started' = [started EXCEPT ![w] = Append(@, n)] /\ started' \in [Workers -> Seq(1..MaxCalls)]
      /\ started'[w] # <<>> /\ \A v \in Workers : v # w => started'[v] = started[v]
  <2>1. started \in [Workers -> Seq(1..MaxCalls)] /\ started' = [started EXCEPT ![w] = Append(@, n)]
    BY DEF WellFormed, RunWorker
  <2>2. Append(started[w], n) \in Seq(1..MaxCalls) /\ Append(started[w], n) # <<>>
    <3> DEFINE R == 1..MaxCalls
    <3>1. started[w] \in Seq(R) /\ n \in R
      BY <1>1, <2>1
    <3> HIDE DEF n, R
    <3>2. Append(started[w], n) \in Seq(R) /\ Append(started[w], n) # <<>>
      BY <3>1, Appended
    <3> QED BY <3>2 DEF R
  <2> HIDE DEF n
  <2> QED BY <2>1, <2>2
<1>5. Len(calls') <= MaxCalls
  BY <1>1, BoundsAssumption
<1>6. \A j \in DOMAIN calls : calls[j].worker \in Workers
  BY CallShape
<1> HIDE DEF n
<1>7. WellFormed'
  <2> HIDE DEF Call
  <2>1. overlapped' \subseteq DOMAIN calls'
    BY <1>0, <1>1 DEF WellFormed
  <2> QED BY <1>1, <1>3, <1>4, <1>5, <2>1 DEF WellFormed
<1>8. CalledInv'
  BY <1>1, <1>2, <1>4, <1>6 DEF CalledInv, SureInv
<1>9. CountInv'
  <2>1. \A v : Over(v) \subseteq Over(v)' /\ Over(v)' \subseteq 1..n
    <3>1. DOMAIN calls' = 1..n
      <4> HIDE DEF Call
      <4> QED BY <1>1
    <3> QED BY <1>1, <3>1 DEF Over, CallsOf
  <2>2. \A v : /\ Cardinality(Over(v)) \in Nat /\ Cardinality(Over(v)') \in Nat
               /\ Cardinality(Over(v)) <= Cardinality(Over(v)')
    BY <1>1, <2>1, Counting
  <2>3. \A v \in Workers : responses[v] \in Nat
    BY DEF WellFormed
  <2> QED BY <1>3, <2>2, <2>3 DEF CountInv, SureInv
<1>10. OutageInv'
  <2>1. \A j \in DOMAIN calls' : calls'[j].down => outage'[calls'[j].worker]
    BY <1>1, <1>2, <1>3, Zenon DEF OutageInv, SureInv
  <2> QED BY <1>3, <2>1 DEF OutageInv
<1>11. SpentInv'
  BY <1>1, <1>2, <1>3 DEF SpentInv, SureInv, OverBudget, BudgetExceeded
<1>12. JudgedInv'
  BY <1>3 DEF JudgedInv
<1> QED BY <1>7, <1>8, <1>9, <1>10, <1>11, <1>12 DEF SureInv

\* A call that ends responds once at most, and its outage is its worker's.
LEMMA SureEnds ==
  ASSUME SureInv, NEW i \in DOMAIN calls, calls[i].at = "running", NEW w, w = calls[i].worker,
         NEW at \in {"completed", "failed"}, NEW list, Ends(i, at, list),
         pc = "directing", UNCHANGED <<pc, object, started, spent, overlapped>>,
         delivered' \in [Workers -> Seq(Versions)], responses' \in [Workers -> Nat],
         outage' \in [Workers -> BOOLEAN],
         \A v \in Workers : Len(delivered'[v]) <= responses'[v],
         \A v \in Workers : v # w => responses'[v] = responses[v],
         responses'[w] <= responses[w] + 1,
         \A v \in Workers : outage[v] => outage'[v],
         calls'[i].down => outage'[w]
  PROVE  SureInv'
<1> WellFormed
  BY DEF SureInv
<1>1. /\ \A v \in Workers : /\ Cardinality(Over(v)) \in Nat /\ Cardinality(Over(v)') \in Nat
                           /\ Cardinality(Over(v)) <= Cardinality(Over(v)')
      /\ Cardinality(Over(w)) + 1 <= Cardinality(Over(w)')
      /\ \A j \in DOMAIN calls : calls'[j].worker = calls[j].worker
      /\ \A j \in DOMAIN calls' : calls'[j].at = "refused" => calls[j].at = "refused"
  BY EndKeeps
<1>2. /\ calls' \in Seq(Call) /\ Len(calls') = Len(calls) /\ DOMAIN calls' = DOMAIN calls
      /\ \A j \in DOMAIN calls : j # i => calls'[j] = calls[j]
  BY DEF Ends
<1>3. \A j \in DOMAIN calls : calls[j].worker \in Workers
  BY CallShape
<1>4. WellFormed'
  <2> HIDE DEF Call
  <2> QED BY <1>2 DEF WellFormed
<1>5. CalledInv'
  BY <1>1, <1>2 DEF CalledInv, SureInv
<1>6. CountInv'
  <2> SUFFICES ASSUME NEW v \in Workers
               PROVE  responses'[v] <= Cardinality(Over(v)')
    BY DEF CountInv
  <2>1. responses[v] <= Cardinality(Over(v)) /\ responses[v] \in Nat /\ responses'[v] \in Nat
    BY DEF CountInv, SureInv, WellFormed
  <2>2. CASE v = w
    BY <1>1, <2>1, <2>2
  <2>3. CASE v # w
    BY <1>1, <2>1, <2>3
  <2> QED BY <2>2, <2>3
<1>7. OutageInv'
  <2>1. \A j \in DOMAIN calls : calls[j].down => outage[calls[j].worker]
    BY DEF OutageInv, SureInv
  <2>2. ASSUME NEW j \in DOMAIN calls', calls'[j].down
        PROVE  outage'[calls'[j].worker]
    <3>1. CASE j = i
      BY <1>1, <2>2, <3>1, Zenon
    <3>2. CASE j # i
      <4>1. calls'[j] = calls[j] /\ j \in DOMAIN calls
        BY <1>2, <3>2
      <4>2. outage[calls[j].worker] /\ calls[j].worker \in Workers
        BY <1>3, <2>1, <2>2, <4>1, Zenon
      <4> QED BY <4>1, <4>2, Zenon
    <3> QED BY <3>1, <3>2
  <2>3. pc' # "judged"
    OBVIOUS
  <2> QED BY <2>2, <2>3, Zenon DEF OutageInv
<1>8. SpentInv' /\ JudgedInv'
  BY <1>1, <1>2 DEF SpentInv, JudgedInv, SureInv, BudgetExceeded
<1> QED BY <1>4, <1>5, <1>6, <1>7, <1>8 DEF SureInv

LEMMA SureReturn ==
  ASSUME SureInv, NEW i \in DOMAIN calls, NEW down \in BOOLEAN, Return(i, down)
  PROVE  SureInv'
<1> DEFINE w == calls[i].worker
           list == Append(delivered[w], object[w])
<1> WellFormed /\ CalledInv
  BY DEF SureInv
<1>1. /\ w \in Workers /\ delivered[w] \in Seq(Versions) /\ object[w] \in Versions
      /\ Ends(i, "completed", list) /\ calls'[i].down = down
  BY ReturnFacts
<1>2. /\ pc = "directing" /\ calls[i].at = "running" /\ UNCHANGED <<pc, object, started, spent, overlapped>>
      /\ responses' = [responses EXCEPT ![w] = @ + 1]
      /\ outage' = [outage EXCEPT ![w] = outage[w] \/ down]
      /\ delivered' = [delivered EXCEPT ![w] = list]
  BY DEF Return, Responds, Responded, OutageOf
<1>3. list \in Seq(Versions) /\ Len(list) = Len(delivered[w]) + 1 /\ Len(delivered[w]) \in Nat
  BY <1>1, Appended
<1>4. /\ delivered \in [Workers -> Seq(Versions)] /\ responses \in [Workers -> Nat]
      /\ outage \in [Workers -> BOOLEAN]
      /\ \A v \in Workers : Len(delivered[v]) <= responses[v]
  BY DEF WellFormed, SureInv, CountInv
<1> HIDE DEF w, list
<1>5. delivered' \in [Workers -> Seq(Versions)] /\ responses' \in [Workers -> Nat]
  <2>1. responses[w] + 1 \in Nat
    BY <1>1, <1>4
  <2>2. responses' \in [Workers -> Nat]
    BY <1>2, <1>4, <2>1
  <2>3. delivered' \in [Workers -> Seq(Versions)]
    BY <1>2, <1>3, <1>4
  <2> QED BY <2>2, <2>3
<1>6. outage' \in [Workers -> BOOLEAN]
  BY <1>2, <1>4, Zenon
<1>7. \A v \in Workers : Len(delivered'[v]) <= responses'[v]
  BY <1>1, <1>2, <1>3, <1>4
<1>8. /\ \A v \in Workers : v # w => responses'[v] = responses[v]
      /\ responses'[w] <= responses[w] + 1
  BY <1>1, <1>2, <1>4
<1>9. outage'[w] = (outage[w] \/ down) /\ \A v \in Workers : v # w => outage'[v] = outage[v]
  BY <1>1, <1>2, <1>4, Zenon
<1>10. (\A v \in Workers : outage[v] => outage'[v]) /\ (calls'[i].down => outage'[w])
  BY <1>1, <1>9, Zenon
<1>11. w = calls[i].worker
  BY DEF w
<1> QED BY <1>1, <1>2, <1>5, <1>6, <1>7, <1>8, <1>10, <1>11, SureEnds, ZenonT(60)

LEMMA SureSnapshot ==
  ASSUME SureInv, NEW i \in DOMAIN calls, NEW down \in BOOLEAN, SnapshotFails(i, down)
  PROVE  SureInv'
<1> DEFINE w == calls[i].worker
<1> WellFormed /\ CalledInv
  BY DEF SureInv
<1>1. /\ w \in Workers /\ delivered[w] \in Seq(Versions)
      /\ Ends(i, "failed", delivered[w]) /\ calls'[i].down = down
  BY SnapshotFacts
<1>2. /\ pc = "directing" /\ calls[i].at = "running" /\ UNCHANGED <<pc, object, started, spent, overlapped>>
      /\ responses' = [responses EXCEPT ![w] = @ + 1]
      /\ outage' = [outage EXCEPT ![w] = outage[w] \/ down]
      /\ delivered' = delivered
  BY DEF SnapshotFails, Responds, Responded, OutageOf
<1>4. /\ delivered \in [Workers -> Seq(Versions)] /\ responses \in [Workers -> Nat]
      /\ outage \in [Workers -> BOOLEAN]
      /\ \A v \in Workers : Len(delivered[v]) <= responses[v] /\ Len(delivered[v]) \in Nat
  BY DEF WellFormed, SureInv, CountInv
<1> HIDE DEF w
<1>5. responses' \in [Workers -> Nat]
  <2>1. responses[w] + 1 \in Nat
    BY <1>1, <1>4
  <2> QED BY <1>2, <1>4, <2>1
<1>6. outage' \in [Workers -> BOOLEAN]
  BY <1>2, <1>4, Zenon
<1>7. \A v \in Workers : Len(delivered'[v]) <= responses'[v]
  BY <1>1, <1>2, <1>4
<1>8. /\ \A v \in Workers : v # w => responses'[v] = responses[v]
      /\ responses'[w] <= responses[w] + 1
  BY <1>1, <1>2, <1>4
<1>9. outage'[w] = (outage[w] \/ down) /\ \A v \in Workers : v # w => outage'[v] = outage[v]
  BY <1>1, <1>2, <1>4, Zenon
<1>10. (\A v \in Workers : outage[v] => outage'[v]) /\ (calls'[i].down => outage'[w])
  BY <1>1, <1>9, Zenon
<1>11. w = calls[i].worker
  BY DEF w
<1>12. delivered' \in [Workers -> Seq(Versions)]
  BY <1>2, <1>4
<1> QED BY <1>1, <1>2, <1>12, <1>5, <1>6, <1>7, <1>8, <1>10, <1>11, SureEnds, ZenonT(60)

LEMMA SureCancelled ==
  ASSUME SureInv, NEW i \in DOMAIN calls, Cancelled(i)
  PROVE  SureInv'
<1> DEFINE w == calls[i].worker
<1> WellFormed /\ CalledInv
  BY DEF SureInv
<1>1. /\ w \in Workers /\ delivered[w] \in Seq(Versions)
      /\ Ends(i, "failed", delivered[w]) /\ calls'[i].down = calls[i].down
  BY CancelFacts
<1>2. /\ pc = "directing" /\ calls[i].at = "running"
      /\ UNCHANGED <<pc, object, started, spent, delivered, responses, outage, overlapped>>
  BY DEF Cancelled
<1>3. /\ delivered \in [Workers -> Seq(Versions)] /\ responses \in [Workers -> Nat]
      /\ outage \in [Workers -> BOOLEAN]
      /\ \A v \in Workers : Len(delivered[v]) <= responses[v]
  BY DEF WellFormed, SureInv, CountInv
<1>4. calls[i].down => outage[w]
  BY DEF SureInv, OutageInv
<1> HIDE DEF w
<1>5. responses'[w] <= responses[w] + 1
  BY <1>1, <1>2, <1>3
<1>6. (\A v \in Workers : outage[v] => outage'[v]) /\ (calls'[i].down => outage'[w])
  BY <1>1, <1>2, <1>4, Zenon
<1>7. w = calls[i].worker
  BY DEF w
<1> QED BY <1>1, <1>2, <1>3, <1>5, <1>6, <1>7, SureEnds

LEMMA SureStops ==
  ASSUME SureInv, NEW down \in BOOLEAN, OrchestratorStops(down)
  PROVE  SureInv'
<1>1. UNCHANGED <<calls, object, started, delivered, responses, outage, spent, overlapped>>
  BY DEF OrchestratorStops
<1>2. /\ pc' \in {"judged", "outage", "crashed"}
      /\ pc' = "judged" => EveryCallTold /\ \A w \in Workers : ~outage[w]
  BY DEF OrchestratorStops
<1>3. WellFormed' /\ CalledInv' /\ SpentInv'
  BY <1>1, <1>2 DEF SureInv, WellFormed, CalledInv, SpentInv, BudgetExceeded
<1>4. CountInv'
  BY <1>1 DEF SureInv, CountInv, Over, CallsOf
<1>5. OutageInv'
  BY <1>1, <1>2, Zenon DEF SureInv, OutageInv
<1>6. JudgedInv'
  BY <1>1, <1>2 DEF JudgedInv, EveryCallTold
<1> QED BY <1>3, <1>4, <1>5, <1>6 DEF SureInv

LEMMA SureStep == SureInv /\ [Next]_vars => SureInv'
<1> SUFFICES ASSUME SureInv, [Next]_vars PROVE SureInv'
  OBVIOUS
<1>1. ASSUME NEW w \in Workers, RunWorker(w) PROVE SureInv'
  BY <1>1, SureRunWorker
<1>2. CASE ModelCall
  <2>1. spent' = spent + 1 /\ spent < MaxSpent /\ UNCHANGED <<pc, calls, object, started, delivered, responses, outage, overlapped>>
    BY <1>2 DEF ModelCall
  <2>2. object \in [Workers -> Versions] /\ spent \in 0..MaxSpent
    BY DEF SureInv, WellFormed
  <2> QED BY <2>1, <2>2, SureFrame, BoundsAssumption
<1>3. ASSUME NEW i \in DOMAIN calls, NEW w \in Workers, Write(i, w) PROVE SureInv'
  <2>1. object' = [object EXCEPT ![w] = i] /\ UNCHANGED <<pc, calls, started, delivered, responses, outage, spent, overlapped>>
    BY <1>3 DEF Write
  <2>2. object \in [Workers -> Versions] /\ spent \in 0..MaxSpent
    BY DEF SureInv, WellFormed
  <2>3. i \in Versions
    BY CallShape, BoundsAssumption DEF SureInv, Versions
  <2> QED BY <2>1, <2>2, <2>3, SureFrame, BoundsAssumption
<1>4. ASSUME NEW i \in DOMAIN calls, NEW down \in BOOLEAN, Return(i, down) PROVE SureInv'
  BY <1>4, SureReturn
<1>5. ASSUME NEW i \in DOMAIN calls, NEW down \in BOOLEAN, SnapshotFails(i, down) PROVE SureInv'
  BY <1>5, SureSnapshot
<1>6. ASSUME NEW i \in DOMAIN calls, Cancelled(i) PROVE SureInv'
  BY <1>6, SureCancelled
<1>7. ASSUME NEW down \in BOOLEAN, OrchestratorStops(down) PROVE SureInv'
  BY <1>7, SureStops
<1>8. CASE UNCHANGED vars
  <2>1. UNCHANGED <<pc, calls, object, started, delivered, responses, outage, spent, overlapped>>
    BY <1>8 DEF vars
  <2>2. object \in [Workers -> Versions] /\ spent \in 0..MaxSpent
    BY DEF SureInv, WellFormed
  <2> QED BY <2>1, <2>2, SureFrame, BoundsAssumption
<1> QED BY <1>1, <1>2, <1>3, <1>4, <1>5, <1>6, <1>7, <1>8 DEF Next, Runs

LEMMA SureAlways == Spec => []SureInv
<1>1. Init => SureInv
  BY InitInv DEF Inv
<1> QED BY <1>1, SureStep, PTL DEF Spec

\* The state is well formed, and no call is counted twice in what a worker responds:
\* Worker.run appends to its responses once in a call, as the call ends.
THEOREM TypeCorrect == Spec => []TypeOK
<1>1. ASSUME SureInv PROVE TypeOK
  <2>1. WellFormed /\ CountInv
    BY <1>1 DEF SureInv
  <2>2. Len(calls) \in Nat /\ DOMAIN calls = 1..Len(calls)
    <3> HIDE DEF Call
    <3> QED BY <2>1 DEF WellFormed
  <2>3. \A w : Over(w) \subseteq CallsOf(w) /\ CallsOf(w) \subseteq 1..Len(calls)
    BY <2>2 DEF Over, CallsOf
  <2>4. \A w : /\ Cardinality(Over(w)) <= Cardinality(CallsOf(w))
               /\ Cardinality(Over(w)) \in Nat /\ Cardinality(CallsOf(w)) \in Nat
    BY <2>2, <2>3, Counting
  <2>5. \A w \in Workers : responses[w] \in Nat
    BY <2>1 DEF WellFormed
  <2>6. \A w \in Workers : Len(delivered[w]) <= responses[w] /\ responses[w] <= Cardinality(CallsOf(w))
    BY <2>1, <2>4, <2>5 DEF CountInv
  <2> QED BY <2>1, <2>6 DEF TypeOK
<1> QED BY <1>1, SureAlways, PTL

\* An outage swallowed by the orchestrator's cell is still on the worker's record when
\* the host looks, whatever the worker did after it: the case is not judged.
THEOREM OutageReachesTheHost == Spec => []OutageSurfaces
<1>1. ASSUME SureInv PROVE OutageSurfaces
  <2>1. OutageInv /\ \A i \in DOMAIN calls : calls[i].worker \in Workers
    BY <1>1, CallShape DEF SureInv
  <2> QED BY <2>1, Zenon DEF OutageInv, OutageSurfaces
<1> QED BY <1>1, SureAlways, PTL

\* The budget that refuses a run is the budget the case is judged by, and it is never
\* paid back: a case with a refused run has failed it.
THEOREM BudgetIsOneBudget == Spec => []RefusedRunsAreLost
<1>1. ASSUME SureInv PROVE RefusedRunsAreLost
  BY <1>1 DEF SureInv, SpentInv, RefusedRunsAreLost
<1> QED BY <1>1, SureAlways, PTL

\* Neither an outage met in a run nor a run the budget refused ends as an answer
\* (Worker.run, Budget.exceeded), whatever the orchestrator's code does.
THEOREM LossesReachTheHost == Spec => []LossesSurface
<1>1. OutageSurfaces /\ RefusedRunsAreLost => LossesSurface
  BY DEF LossesSurface
<1> QED BY <1>1, OutageReachesTheHost, BudgetIsOneBudget, PTL

---------------------------------------------------------------------------
(* The entry of each call. *)

ExactInv == ToldInv /\ LatestInv /\ LastInv /\ BeforeInv

LEMMA ExactRunWorker ==
  ASSUME Inv, NEW w \in Workers, RunWorker(w)
  PROVE  ExactInv'
<1> DEFINE n == Len(calls) + 1
<1> WellFormed /\ ToldInv /\ LatestInv /\ LastInv /\ BeforeInv
  BY DEF Inv, SureInv
<1>1. /\ n \in 1..MaxCalls /\ DOMAIN calls' = DOMAIN calls \cup {n} /\ n \notin DOMAIN calls
      /\ \A j \in DOMAIN calls : calls'[j] = calls[j] /\ j < n
      /\ calls'[n] = IF OverBudget THEN Refused(w) ELSE Begun(w)
  BY RunFacts
<1>2. /\ UNCHANGED <<pc, object, delivered>> /\ started' = [started EXCEPT ![w] = Append(@, n)]
      /\ overlapped' = overlapped \cup Overlaps(w)
  BY DEF RunWorker
<1>2a. /\ \A j \in CallsOf(w) : calls[j].at = "running" => ~Alone(j)' /\ n \in overlapped'
       /\ \A j : ~Alone(j) => ~Alone(j)'
       /\ \A j \in DOMAIN calls : calls[j].at # "running" => (Alone(j)' <=> Alone(j))
       /\ \A j \in DOMAIN calls : calls[j].worker # w => (Alone(j)' <=> Alone(j))
  <2>1. /\ \A j \in CallsOf(w) : calls[j].at = "running" => j \in Overlaps(w) /\ n \in Overlaps(w)
        /\ \A j \in DOMAIN calls : calls[j].at # "running" \/ calls[j].worker # w => j \notin Overlaps(w)
    BY <1>1 DEF Overlaps, Running, CallsOf
  <2> HIDE DEF n
  <2> QED BY <1>2, <2>1, Zenon DEF Alone
<1>3. /\ calls'[n].worker = w /\ calls'[n].left = <<>> /\ calls'[n].delivered = <<>>
      /\ calls'[n].before = (IF w = 1 THEN <<>> ELSE LastOf(delivered[w - 1]))
      /\ \/ calls'[n].at = "running" /\ calls'[n].told = FALSE /\ calls'[n].size = Len(delivered[w])
         \/ calls'[n].at = "refused" /\ calls'[n].told = TRUE /\ calls'[n].stamp = n
  <2>1. /\ Begun(w).worker = w /\ Begun(w).left = <<>> /\ Begun(w).delivered = <<>>
        /\ Begun(w).before = (IF w = 1 THEN <<>> ELSE LastOf(delivered[w - 1]))
        /\ Begun(w).at = "running" /\ Begun(w).told = FALSE /\ Begun(w).size = Len(delivered[w])
    BY BegunFields
  <2>2. /\ Refused(w).worker = w /\ Refused(w).left = <<>> /\ Refused(w).delivered = <<>>
        /\ Refused(w).before = Begun(w).before
        /\ Refused(w).at = "refused" /\ Refused(w).told = TRUE
    BY BegunFields
  <2>3. Refused(w).stamp = n
    BY BegunFields
  <2>4. calls'[n] = Begun(w) \/ calls'[n] = Refused(w)
    BY <1>1
  <2> HIDE DEF n
  <2> QED BY <2>1, <2>2, <2>3, <2>4
<1>4. w > 1 /\ ~calls'[n].amid => ~Running(w - 1)
  <2>1. calls'[n] = Begun(w) \/ calls'[n] = Refused(w)
    BY <1>1
  <2>2. Begun(w).amid = (w > 1 /\ Running(w - 1)) /\ Refused(w).amid = Begun(w).amid
    BY BegunFields
  <2> HIDE DEF n
  <2> QED BY <2>1, <2>2, Zenon
<1>5. \A j \in DOMAIN calls : calls[j].worker \in Workers /\ j \in Nat
  BY CallShape
<1>6. /\ \A v \in Workers : v # w => started'[v] = started[v]
      /\ started'[w] # <<>> /\ Last(started'[w]) = n
  <2>1. started \in [Workers -> Seq(1..MaxCalls)]
    BY DEF WellFormed
  <2>2. Append(started[w], n) # <<>> /\ Last(Append(started[w], n)) = n
    <3> DEFINE R == 1..MaxCalls
    <3>1. started[w] \in Seq(R) /\ n \in R
      BY <1>1, <2>1
    <3> HIDE DEF n, R
    <3> QED BY <3>1, Appended
  <2> HIDE DEF n
  <2> QED BY <1>2, <2>1, <2>2
<1> HIDE DEF n
<1>7. n \in Nat
  BY <1>1, BoundsAssumption
<1>8. ToldInv'
  <2> SUFFICES ASSUME NEW i \in DOMAIN calls'
               PROVE  IF calls'[i].at = "running"
                      THEN ~calls'[i].told /\ calls'[i].delivered = <<>> /\ calls'[i].left = <<>>
                      ELSE /\ calls'[i].told /\ calls'[i].stamp >= i
                           /\ Alone(i)' \/ calls'[i].at = "refused"
                              => calls'[i].stamp = i /\ calls'[i].delivered = calls'[i].left
    BY DEF ToldInv
  <2>1. CASE i = n
    BY <1>3, <1>7, <2>1
  <2>2. CASE i # n
    <3>1. i \in DOMAIN calls /\ calls'[i] = calls[i]
      BY <1>1, <2>2
    <3>2. calls[i].at # "running" => (Alone(i)' <=> Alone(i))
      BY <1>2a, <3>1
    <3>3. IF calls[i].at = "running" THEN ~calls[i].told /\ calls[i].delivered = <<>> /\ calls[i].left = <<>>
          ELSE /\ calls[i].told /\ calls[i].stamp >= i
               /\ Alone(i) \/ calls[i].at = "refused" => calls[i].stamp = i /\ calls[i].delivered = calls[i].left
      BY <3>1 DEF ToldInv
    <3> QED BY <3>1, <3>2, <3>3, Zenon
  <2> QED BY <2>1, <2>2
<1>9. LatestInv'
  <2> SUFFICES ASSUME NEW i \in DOMAIN calls', calls'[i].at = "running", NEW v, v = calls'[i].worker
               PROVE  /\ \A j \in DOMAIN calls' : calls'[j].worker = v /\ j > i => ~Alone(i)' /\ ~Alone(j)'
                      /\ started'[v] # <<>> /\ Last(started'[v]) >= i
                      /\ Alone(i)' => Last(started'[v]) = i /\ calls'[i].size = Len(delivered'[v])
    BY DEF LatestInv, CallsOf, LatestStamp
  <2>1. CASE i = n
    <3>1. \A j \in DOMAIN calls' : j <= n
      BY <1>1, <1>5, <1>7
    <3>2. v = w /\ calls'[i].size = Len(delivered[w])
      BY <1>3, <2>1
    <3>3. \A j \in DOMAIN calls' : j \in Nat
      BY <1>1, <1>5, <1>7
    <3>4. ~ \E j \in DOMAIN calls' : j > i
      BY <1>7, <2>1, <3>1, <3>3
    <3>5. started'[v] # <<>> /\ Last(started'[v]) = i /\ calls'[i].size = Len(delivered'[v])
      BY <1>2, <1>6, <2>1, <3>2
    <3>6. i >= i
      BY <1>7, <2>1
    <3> QED BY <3>4, <3>5, <3>6, Zenon
  <2>2. CASE i # n
    <3>1. i \in DOMAIN calls /\ calls'[i] = calls[i] /\ v \in Workers /\ i \in Nat /\ i < n
      BY <1>1, <1>5, <2>2
    <3>2. /\ \A j \in CallsOf(v) : j > i => ~Alone(i) /\ ~Alone(j)
          /\ started[v] # <<>> /\ Last(started[v]) >= i
          /\ Alone(i) => Last(started[v]) = i /\ calls[i].size = Len(delivered[v])
      BY <3>1 DEF LatestInv, LatestStamp
    <3>3. \A j \in DOMAIN calls : calls'[j].worker = v /\ j > i => ~Alone(i)' /\ ~Alone(j)'
      <4> TAKE j \in DOMAIN calls
      <4> HAVE calls'[j].worker = v /\ j > i
      <4>1. j \in CallsOf(v)
        BY <1>1 DEF CallsOf
      <4> QED BY <1>2a, <3>2, <4>1
    <3>4. CASE v = w
      <4>1. i \in CallsOf(w)
        BY <3>1, <3>4 DEF CallsOf
      <4>2. ~Alone(i)' /\ n \in overlapped'
        BY <1>2a, <3>1, <4>1
      <4>3. \A j \in DOMAIN calls' : calls'[j].worker = v /\ j > i => ~Alone(i)' /\ ~Alone(j)'
        BY <1>1, <3>3, <4>2, Zenon DEF Alone
      <4> QED BY <1>6, <3>1, <3>4, <4>2, <4>3, <1>7
    <3>5. CASE v # w
      <4>1. Alone(i)' <=> Alone(i)
        BY <1>2a, <3>1, <3>5
      <4>2. \A j \in DOMAIN calls' : calls'[j].worker = v /\ j > i => ~Alone(i)' /\ ~Alone(j)'
        BY <1>1, <1>3, <3>3, <3>5
      <4>3. started'[v] = started[v] /\ delivered'[v] = delivered[v] /\ calls'[i].size = calls[i].size
        BY <1>2, <1>6, <3>1, <3>5
      <4> HIDE DEF Alone
      <4> QED BY <3>2, <4>1, <4>2, <4>3
    <3> QED BY <3>4, <3>5
  <2> QED BY <2>1, <2>2
<1>10. /\ \A v : Returned(v)' = Returned(v)
       /\ \A v : Returned(v) \subseteq DOMAIN calls
       /\ \A v : \A k \in Returned(v) : calls'[k] = calls[k] /\ (Alone(k)' <=> Alone(k))
  <2>1. /\ \A v : Returned(v)' = Returned(v)
        /\ \A v : Returned(v) \subseteq DOMAIN calls
    BY <1>1, <1>3 DEF Returned, CallsOf
  <2>2. \A v : \A k \in Returned(v) : k \in DOMAIN calls /\ calls[k].at # "running"
    BY <2>1 DEF Returned, ToldInv
  <2> QED BY <1>1, <1>2a, <2>1, <2>2
<1>11. ASSUME NEW v, NEW R, R \subseteq Returned(v), NEW left, Left(R, left)
       PROVE  IF R = {} THEN left = <<>>
              ELSE /\ \E k \in R : \A j \in R : j <= k
                   /\ \E k \in R : left = calls'[k].left
                   /\ \A k \in R : Alone(k)' /\ (\A j \in R : j <= k) => left = calls'[k].left
  BY <1>10, <1>11, Zenon DEF Left
<1>12. LastInv'
  <2> SUFFICES ASSUME NEW v \in Workers PROVE Left(Returned(v), LastOf(delivered[v]))'
    BY DEF LastInv
  <2>1. Left(Returned(v), LastOf(delivered[v]))
    BY DEF LastInv
  <2>2. Returned(v)' = Returned(v) /\ LastOf(delivered[v])' = LastOf(delivered[v])
    BY <1>2, <1>10
  <2>3. LET R == Returned(v)
            left == LastOf(delivered[v])
        IN  IF R = {} THEN left = <<>>
            ELSE /\ \E k \in R : \A j \in R : j <= k
                 /\ \E k \in R : left = calls'[k].left
                 /\ \A k \in R : Alone(k)' /\ (\A j \in R : j <= k) => left = calls'[k].left
    BY <1>11, <2>1
  <2> QED BY <2>2, <2>3 DEF Left
<1>13. BeforeInv'
  <2> SUFFICES ASSUME NEW i \in DOMAIN calls', calls'[i].worker > 1, ~calls'[i].amid
               PROVE  /\ \A j \in CallsOf(calls[i].worker - 1)' : j < i => calls'[j].at # "running"
                      /\ Left(ReturnedBefore(i), calls[i].before)'
    BY Zenon DEF BeforeInv
  <2> SUFFICES ASSUME NEW v, v = calls'[i].worker - 1, NEW R, R = {j \in Returned(v)' : j < i}
               PROVE  /\ \A j \in CallsOf(v)' : j < i => calls'[j].at # "running"
                      /\ IF R = {} THEN calls'[i].before = <<>>
                         ELSE /\ \E k \in R : \A j \in R : j <= k
                              /\ \E k \in R : calls'[i].before = calls'[k].left
                              /\ \A k \in R : Alone(k)' /\ (\A j \in R : j <= k) => calls'[i].before = calls'[k].left
    BY DEF ReturnedBefore, Left
  <2>0. R \subseteq Returned(v) /\ R = {j \in Returned(v) : j < i}
    BY <1>10
  <2>1. Left(R, calls'[i].before)
        /\ \A j \in DOMAIN calls' : calls'[j].worker = v /\ j < i => calls'[j].at # "running"
    <3>1. CASE i = n
      <4>1. v = w - 1 /\ v \in Workers /\ w # 1
        BY <1>3, <3>1, BoundsAssumption DEF Workers
      <4>2. R = Returned(v)
        BY <1>1, <1>10, <2>0, <3>1
      <4>3. Left(R, calls'[i].before)
        BY <1>3, <3>1, <4>1, <4>2 DEF LastInv
      <4>4. ~Running(v)
        BY <1>3, <1>4, <3>1, <4>1
      <4>5. \A j \in DOMAIN calls' : calls'[j].worker = v /\ j < i => calls'[j].at # "running"
        BY <1>1, <1>7, <3>1, <4>4 DEF Running, CallsOf
      <4> QED BY <4>3, <4>5
    <3>2. CASE i # n
      <4>1. i \in DOMAIN calls /\ calls'[i] = calls[i] /\ i < n
        BY <1>1, <3>2
      <4>2. /\ \A j \in CallsOf(v) : j < i => calls[j].at # "running"
            /\ Left(R, calls[i].before)
        BY <2>0, <4>1 DEF BeforeInv, ReturnedBefore
      <4>3. \A j \in DOMAIN calls' : calls'[j].worker = v /\ j < i => calls'[j].at # "running"
        BY <1>1, <1>5, <1>7, <4>1, <4>2 DEF CallsOf
      <4> QED BY <4>1, <4>2, <4>3
    <3> QED BY <3>1, <3>2
  <2>2. \A j \in CallsOf(v)' : j < i => calls'[j].at # "running"
    BY <2>1 DEF CallsOf
  <2> QED BY <1>11, <2>0, <2>1, <2>2, Zenon
<1> QED BY <1>8, <1>9, <1>12, <1>13 DEF ExactInv

\* A call that ends leaves what has joined the list since it began, if no other call of
\* its worker overlapped it.
LEMMA ExactEnds ==
  ASSUME Inv, NEW i \in DOMAIN calls, calls[i].at = "running", NEW w, w = calls[i].worker,
         NEW at \in {"completed", "failed"}, NEW list, Ends(i, at, list),
         UNCHANGED <<started, overlapped>>,
         Alone(i) => calls'[i].left = New(list, calls[i].size),
         calls'[i].left = <<>> => delivered' = delivered,
         calls'[i].left # <<>> => calls'[i].left = LastOf(delivered'[w]),
         \A v \in Workers : v # w => delivered'[v] = delivered[v]
  PROVE  ExactInv'
<1> WellFormed /\ ToldInv /\ LatestInv /\ LastInv /\ BeforeInv
  BY DEF Inv, SureInv
<1>1. /\ DOMAIN calls' = DOMAIN calls /\ \A j \in DOMAIN calls : j # i => calls'[j] = calls[j]
      /\ calls'[i].worker = w /\ calls'[i].at # "running" /\ calls'[i].at # "refused"
      /\ calls'[i].told = TRUE
      /\ calls'[i].stamp = Last(started[w])
      /\ Alone(i) => calls'[i].delivered = calls'[i].left
      /\ calls'[i].before = calls[i].before /\ calls'[i].amid = calls[i].amid
  BY DEF Ends, LatestStamp
<1>2. \A j \in DOMAIN calls : calls[j].worker \in Workers /\ j \in Nat
  BY CallShape
<1>3. /\ \A j \in CallsOf(w) : j > i => ~Alone(i) /\ ~Alone(j)
      /\ Last(started[w]) >= i /\ calls[i].left = <<>>
      /\ Alone(i) => Last(started[w]) = i
  BY DEF LatestInv, LatestStamp, ToldInv
<1>a. \A j : Alone(j)' <=> Alone(j)
  BY DEF Alone
<1>4. ToldInv'
  <2> SUFFICES ASSUME NEW j \in DOMAIN calls'
               PROVE  IF calls'[j].at = "running"
                      THEN ~calls'[j].told /\ calls'[j].delivered = <<>> /\ calls'[j].left = <<>>
                      ELSE /\ calls'[j].told /\ calls'[j].stamp >= j
                           /\ Alone(j) \/ calls'[j].at = "refused"
                              => calls'[j].stamp = j /\ calls'[j].delivered = calls'[j].left
    BY <1>a DEF ToldInv
  <2>1. CASE j = i
    BY <1>1, <1>3, <2>1
  <2>2. CASE j # i
    BY <1>1, <2>2 DEF ToldInv
  <2> QED BY <2>1, <2>2
<1>5. \A v : CallsOf(v)' = CallsOf(v)
  BY <1>1 DEF CallsOf
<1>6. LatestInv'
  <2> SUFFICES ASSUME NEW j \in DOMAIN calls', calls'[j].at = "running", NEW v, v = calls'[j].worker
               PROVE  /\ \A k \in CallsOf(v)' : k > j => ~Alone(j)' /\ ~Alone(k)'
                      /\ started'[v] # <<>> /\ Last(started'[v]) >= j
                      /\ Alone(j)' => Last(started'[v]) = j /\ calls'[j].size = Len(delivered'[v])
    BY DEF LatestInv, LatestStamp
  <2>1. j \in DOMAIN calls /\ j # i /\ calls'[j] = calls[j]
    BY <1>1
  <2>2. /\ \A k \in CallsOf(v) : k > j => ~Alone(j) /\ ~Alone(k)
        /\ started[v] # <<>> /\ Last(started[v]) >= j
        /\ Alone(j) => Last(started[v]) = j /\ calls[j].size = Len(delivered[v])
    BY <2>1 DEF LatestInv, LatestStamp
  <2>3. Alone(j) => v # w /\ v \in Workers
    <3> SUFFICES ASSUME Alone(j), v = w PROVE FALSE
      BY <1>2, <2>1
    <3>1. i \in CallsOf(w) /\ j \in CallsOf(w) /\ i \in Nat /\ j \in Nat
      BY <1>2, <2>1 DEF CallsOf
    <3>2. i < j \/ j < i
      BY <2>1, <3>1
    <3> QED BY <1>3, <2>2, <3>1, <3>2
  <2>4. Alone(j)' => Last(started'[v]) = j /\ calls'[j].size = Len(delivered'[v])
    BY <1>a, <2>1, <2>2, <2>3
  <2>5. \A k \in CallsOf(v)' : k > j => ~Alone(j)' /\ ~Alone(k)'
    BY <1>a, <1>5, <2>2
  <2> QED BY <2>2, <2>4, <2>5
<1>7. /\ \A v : v # w => Returned(v)' = Returned(v)
      /\ Returned(w)' = IF calls'[i].left = <<>> THEN Returned(w) ELSE Returned(w) \cup {i}
      /\ \A v : i \notin Returned(v)
      /\ \A v : Returned(v) \subseteq DOMAIN calls
  BY <1>1, <1>3 DEF Returned, CallsOf
<1>b. ASSUME NEW R, i \notin R, R \subseteq DOMAIN calls, NEW left, Left(R, left)
      PROVE  Left(R, left)'
  <2>1. \A k \in R : calls'[k] = calls[k] /\ (Alone(k)' <=> Alone(k))
    BY <1>1, <1>a, <1>b
  <2> QED BY <1>b, <2>1 DEF Left
<1>8. LastInv'
  <2> SUFFICES ASSUME NEW v \in Workers PROVE Left(Returned(v), LastOf(delivered[v]))'
    BY DEF LastInv
  <2>1. Left(Returned(v), LastOf(delivered[v]))
    BY DEF LastInv
  <2>2. CASE v # w \/ calls'[i].left = <<>>
    <3>1. Returned(v)' = Returned(v) /\ LastOf(delivered[v])' = LastOf(delivered[v])
      BY <1>7, <2>2
    <3>2. i \notin Returned(v) /\ Returned(v) \subseteq DOMAIN calls
      BY <1>7
    <3>3. Left(Returned(v), LastOf(delivered[v]))
      BY <2>1
    <3> DEFINE R == Returned(v)
               left == LastOf(delivered[v])
    <3>4. R \subseteq DOMAIN calls /\ i \notin R /\ Left(R, left) /\ R' = R /\ left' = left
      BY <3>1, <3>2, <3>3
    <3>5. \A k \in R : calls'[k] = calls[k] /\ (Alone(k)' <=> Alone(k))
      BY <1>1, <1>a, <3>4
    <3> HIDE DEF R, left
    <3>6. Left(R, left)'
      BY <3>4, <3>5 DEF Left
    <3> QED BY <3>6 DEF R, left
  <2>3. CASE v = w /\ calls'[i].left # <<>>
    <3>1. Returned(v)' = Returned(v) \cup {i} /\ i \in Nat /\ \A k \in Returned(v) : k \in Nat
      BY <1>2, <1>7, <2>3
    <3>2. \A k \in Returned(v)' : k > i => ~Alone(k)'
      BY <1>3, <1>a, <2>3, <3>1 DEF Returned
    <3>3. ASSUME NEW k \in Returned(v)', Alone(k)', \A j \in Returned(v)' : j <= k
          PROVE  k = i
      <4>1. i <= k /\ ~(k > i)
        BY <3>1, <3>2, <3>3
      <4> QED BY <3>1, <4>1
    <3>4. LastOf(delivered'[v]) = calls'[i].left /\ i \in Returned(v)'
      BY <2>3, <3>1
    <3>5. \E k \in Returned(v)' : \A j \in Returned(v)' : j <= k
      <4>1. CASE Returned(v) = {}
        BY <3>1, <4>1
      <4>2. CASE Returned(v) # {}
        <5>1. PICK m \in Returned(v) : \A j \in Returned(v) : j <= m
          BY <2>1, <4>2 DEF Left
        <5>2. m \in Returned(v)' /\ m \in Nat
          BY <3>1
        <5>3. (\A j \in Returned(v)' : j <= m) \/ (\A j \in Returned(v)' : j <= i)
          BY <3>1, <5>1, <5>2
        <5> QED BY <3>4, <5>2, <5>3
      <4> QED BY <4>1, <4>2
    <3> QED BY <3>3, <3>4, <3>5, Zenon DEF Left
  <2> QED BY <2>2, <2>3
<1>9. BeforeInv'
  <2> SUFFICES ASSUME NEW j \in DOMAIN calls', calls'[j].worker > 1, ~calls'[j].amid
               PROVE  /\ \A k \in CallsOf(calls[j].worker - 1)' : k < j => calls'[k].at # "running"
                      /\ Left(ReturnedBefore(j), calls[j].before)'
    BY Zenon DEF BeforeInv
  <2> SUFFICES ASSUME NEW v, v = calls'[j].worker - 1, NEW R, R = {k \in Returned(v)' : k < j}
               PROVE  /\ \A k \in CallsOf(v)' : k < j => calls'[k].at # "running"
                      /\ IF R = {} THEN calls'[j].before = <<>>
                         ELSE /\ \E k \in R : \A m \in R : m <= k
                              /\ \E k \in R : calls'[j].before = calls'[k].left
                              /\ \A k \in R : Alone(k)' /\ (\A m \in R : m <= k) => calls'[j].before = calls'[k].left
    BY DEF ReturnedBefore, Left
  <2>1. /\ j \in DOMAIN calls /\ calls[j].worker = calls'[j].worker
        /\ calls'[j].before = calls[j].before /\ calls'[j].amid = calls[j].amid
    BY <1>1
  <2>2. /\ \A k \in CallsOf(v) : k < j => calls[k].at # "running"
        /\ Left({k \in Returned(v) : k < j}, calls[j].before)
    <3>1. calls[j].worker > 1 /\ ~calls[j].amid
      BY <2>1, Zenon
    <3> QED BY <2>1, <3>1 DEF BeforeInv, ReturnedBefore
  <2>3. ~(i \in CallsOf(v) /\ i < j)
    BY <2>2
  <2>4. R = {k \in Returned(v) : k < j} /\ i \notin R
    BY <1>7, <2>3 DEF Returned, CallsOf
  <2>5. \A k \in R : calls'[k] = calls[k] /\ (Alone(k)' <=> Alone(k))
    BY <1>1, <1>7, <1>a, <2>4
  <2>6. \A k \in CallsOf(v)' : k < j => calls'[k].at # "running"
    BY <1>1, <1>5, <2>2 DEF CallsOf
  <2>7. Left(R, calls[j].before)
    BY <2>2, <2>4
  <2>8. calls'[j].before = calls[j].before
    BY <2>1
  <2> HIDE DEF Alone
  <2> QED BY <2>5, <2>6, <2>7, <2>8 DEF Left
<1> QED BY <1>4, <1>6, <1>8, <1>9 DEF ExactInv

\* A step that leaves the calls and what the workers keep of them as they are.
LEMMA ExactFrame ==
  ASSUME Inv, UNCHANGED <<calls, started, delivered, overlapped>>
  PROVE  ExactInv'
<1>1. ToldInv' /\ LatestInv'
  BY DEF Inv, ToldInv, LatestInv, CallsOf, LatestStamp, Alone
<1>2. \A v : Returned(v)' = Returned(v)
  BY DEF Returned, CallsOf
<1>3. LastInv'
  BY <1>2 DEF Inv, LastInv, Left, Alone
<1>4. BeforeInv'
  BY DEF Inv, BeforeInv, ReturnedBefore, Returned, CallsOf, Left, Alone
<1> QED BY <1>1, <1>3, <1>4 DEF ExactInv

LEMMA StepInv == Inv /\ [Next]_vars => Inv'
<1> SUFFICES ASSUME Inv, [Next]_vars PROVE Inv'
  OBVIOUS
<1> SureInv /\ WellFormed /\ CalledInv
  BY DEF Inv, SureInv
<1>1. SureInv'
  BY SureStep
<1>2. ASSUME NEW w \in Workers, RunWorker(w) PROVE ExactInv'
  BY <1>2, ExactRunWorker
<1>3. ASSUME ModelCall PROVE ExactInv'
  BY <1>3, ExactFrame DEF ModelCall
<1>4. ASSUME NEW i \in DOMAIN calls, NEW w \in Workers, Write(i, w) PROVE ExactInv'
  BY <1>4, ExactFrame DEF Write
<1>5. ASSUME NEW i \in DOMAIN calls, calls[i].at = "running"
      PROVE  /\ Alone(i) => calls[i].size = Len(delivered[calls[i].worker])
             /\ calls[i].left = <<>>
  BY <1>5 DEF Inv, LatestInv, ToldInv
<1>6. ASSUME NEW i \in DOMAIN calls, NEW down \in BOOLEAN, Return(i, down) PROVE ExactInv'
  <2> DEFINE w == calls[i].worker
             list == Append(delivered[w], object[w])
  <2>1. /\ w \in Workers /\ delivered[w] \in Seq(Versions) /\ object[w] \in Versions
        /\ Ends(i, "completed", list) /\ calls'[i].left = <<object[w]>>
    BY <1>6, ReturnFacts
  <2>2. /\ calls[i].at = "running" /\ UNCHANGED <<started, overlapped>>
        /\ delivered' = [delivered EXCEPT ![w] = list]
    BY <1>6 DEF Return
  <2>3. Alone(i) => calls[i].size = Len(delivered[w])
    BY <1>5, <2>2
  <2>4. /\ Len(delivered[w]) \in Nat /\ Len(list) = Len(delivered[w]) + 1
        /\ list[Len(delivered[w]) + 1] = object[w] /\ LastOf(list) = <<object[w]>>
    BY <2>1, Appended
  <2>5. delivered \in [Workers -> Seq(Versions)]
    BY DEF WellFormed
  <2>6. w = calls[i].worker
    OBVIOUS
  <2> HIDE DEF w, list
  <2>7. Alone(i) => calls'[i].left = New(list, calls[i].size)
    BY <2>1, <2>3, <2>4 DEF New
  <2>8. delivered'[w] = list /\ \A v \in Workers : v # w => delivered'[v] = delivered[v]
    BY <2>1, <2>2, <2>5
  <2>9. calls'[i].left # <<>> /\ calls'[i].left = LastOf(delivered'[w])
    BY <2>1, <2>4, <2>8
  <2> QED BY <2>1, <2>2, <2>6, <2>7, <2>8, <2>9, ExactEnds
<1>7. ASSUME NEW i \in DOMAIN calls, NEW w, w = calls[i].worker, calls[i].at = "running",
             Ends(i, "failed", delivered[w]), calls'[i].left = calls[i].left,
             w \in Workers, delivered[w] \in Seq(Versions), UNCHANGED <<started, delivered, overlapped>>
      PROVE  ExactInv'
  <2>1. (Alone(i) => calls[i].size = Len(delivered[w])) /\ calls[i].left = <<>>
    BY <1>5, <1>7
  <2>2. Alone(i) => New(delivered[w], calls[i].size) = <<>>
    BY <1>7, <2>1 DEF New
  <2> QED BY <1>7, <2>1, <2>2, ExactEnds
<1>8. ASSUME NEW i \in DOMAIN calls, NEW down \in BOOLEAN, SnapshotFails(i, down) PROVE ExactInv'
  BY <1>7, <1>8, SnapshotFacts DEF SnapshotFails
<1>9. ASSUME NEW i \in DOMAIN calls, Cancelled(i) PROVE ExactInv'
  BY <1>7, <1>9, CancelFacts DEF Cancelled
<1>10. ASSUME NEW down \in BOOLEAN, OrchestratorStops(down) PROVE ExactInv'
  BY <1>10, ExactFrame DEF OrchestratorStops
<1>11. ASSUME UNCHANGED vars PROVE ExactInv'
  BY <1>11, ExactFrame DEF vars
<1>12. ExactInv'
  BY <1>2, <1>3, <1>4, <1>6, <1>8, <1>9, <1>10, <1>11 DEF Next, Runs
<1> QED BY <1>1, <1>12 DEF Inv, ExactInv

LEMMA InvAlways == Spec => []Inv
<1>1. Inv /\ [Next]_vars => Inv'
  BY StepInv
<1> QED BY <1>1, InitInv, PTL DEF Spec

\* Of some calls there is one latest, and it is the one chosen.
LEMMA LatestIs ==
  ASSUME NEW S, NEW left, Left(S, left), S # {}, NEW m, m = CHOOSE i \in S : \A j \in S : j <= i
  PROVE  /\ m \in S /\ \A j \in S : j <= m
         /\ Alone(m) => left = calls[m].left
<1>1. m \in S /\ \A j \in S : j <= m
  BY DEF Left
<1> QED BY <1>1 DEF Left

\* The entry of a call in attempts is its own, however often its worker is run before
\* and after it, and whatever the other workers do meanwhile.
THEOREM AttemptsAreTheirOwn == Spec => []AttemptIsItsOwn
<1>1. ASSUME Inv PROVE AttemptIsItsOwn
  BY <1>1, Zenon DEF Inv, ToldInv, AttemptIsItsOwn
<1> QED BY <1>1, InvAlways, PTL

\* A worker is judged on what a run of it left as it returned, the latest unless another
\* overlapped it: neither a write into the object nor a rerun that fails reaches the verdict.
THEOREM VerdictIsOfTheReturn == Spec => []JudgedAsItReturned
<1>1. ASSUME Inv, NEW w \in Workers
      PROVE  IF Returned(w) = {} THEN JudgedOutput(w) = <<>>
             ELSE /\ \E i \in Returned(w) : JudgedOutput(w) = calls[i].left
                  /\ Alone(LastReturned(w)) => JudgedOutput(w) = calls[LastReturned(w)].left
  <2>1. Left(Returned(w), JudgedOutput(w))
    BY <1>1 DEF Inv, LastInv, JudgedOutput
  <2>2. Returned(w) # {} /\ Alone(LastReturned(w)) => JudgedOutput(w) = calls[LastReturned(w)].left
    BY <2>1, LatestIs, Zenon DEF LastReturned
  <2> QED BY <2>1, <2>2, Zenon DEF Left
<1>2. ASSUME Inv PROVE JudgedAsItReturned
  BY <1>1, <1>2 DEF JudgedAsItReturned
<1> QED BY <1>2, InvAlways, PTL

\* What a run is judged against is what it was to start from: the output the worker
\* before it had last left when the run began.
THEOREM JudgedAgainstItsStart == Spec => []ReadAgainstWhatWasLeft
<1>1. ASSUME Inv, pc = "judged", NEW i \in DOMAIN calls, calls[i].worker > 1, ~calls[i].amid, Unmixed(i)
      PROVE  PreviousOutput(i) = calls[i].before
  <2> WellFormed
    BY <1>1 DEF Inv, SureInv
  <2>0. \A j \in DOMAIN calls : j \in 1..Len(calls) /\ Len(calls) \in Nat
    BY CallShape
  <2>1. \A j \in DOMAIN calls : /\ calls[j].stamp >= j /\ calls[j].stamp \in Nat
                                /\ Alone(j) => calls[j].stamp = j /\ calls[j].delivered = calls[j].left
    <3>1. \A j \in DOMAIN calls : calls[j].stamp \in Nat
      BY CallShape DEF Call
    <3> QED BY <1>1, <3>1 DEF Inv, SureInv, JudgedInv, EveryCallTold, ToldInv
  <2>2. Alone(i) /\ \A j \in CallsOf(calls[i].worker - 1) : j < i => Alone(j)
    BY <1>1 DEF Unmixed
  <2>3. calls[i].stamp = i
    BY <2>1, <2>2, Zenon
  <2>4. \A j \in CallsOf(calls[i].worker - 1) : calls[j].stamp < i <=> j < i
    <3> TAKE j \in CallsOf(calls[i].worker - 1)
    <3>1. j \in DOMAIN calls /\ j \in Nat /\ i \in Nat
      BY <2>0 DEF CallsOf
    <3>2. calls[j].stamp >= j /\ calls[j].stamp \in Nat
      BY <2>1, <3>1
    <3>3. j < i => calls[j].stamp = j
      BY <2>1, <2>2, <3>1, Zenon
    <3> QED BY <3>1, <3>2, <3>3
  <2>5. PreviousCalls(i) = ReturnedBefore(i)
    <3> DEFINE C == CallsOf(calls[i].worker - 1)
    <3>1. ASSUME NEW j \in C
          PROVE  (Told(j) /\ calls[j].stamp < calls[i].stamp) <=> (calls[j].left # <<>> /\ j < i)
      <4>1. calls[j].stamp < calls[i].stamp <=> j < i
        BY <2>3, <2>4
      <4>2. j < i => calls[j].delivered = calls[j].left
        BY <2>1, <2>2, Zenon DEF CallsOf
      <4> QED BY <4>1, <4>2 DEF Told
    <3>2. /\ PreviousCalls(i) = {j \in C : Told(j) /\ calls[j].stamp < calls[i].stamp}
          /\ ReturnedBefore(i) = {j \in C : calls[j].left # <<>> /\ j < i}
      BY DEF PreviousCalls, ReturnedBefore, Returned
    <3> HIDE DEF C
    <3> QED BY <3>1, <3>2
  <2>6. Left(ReturnedBefore(i), calls[i].before)
    BY <1>1, Zenon DEF Inv, BeforeInv
  <2>7. /\ ReturnedBefore(i) \subseteq DOMAIN calls
        /\ \A j \in ReturnedBefore(i) : Alone(j)
    BY <2>2 DEF ReturnedBefore, Returned, CallsOf
  <2> DEFINE R == ReturnedBefore(i)
             m == CHOOSE j \in R : \A k \in R : k <= j
  <2>8. PreviousOutput(i) = IF R = {} THEN <<>> ELSE calls[m].delivered
    BY <2>5 DEF PreviousOutput
  <2>9. R # {} => m \in R /\ (Alone(m) => calls[i].before = calls[m].left)
    <3>1. Left(R, calls[i].before)
      BY <2>6
    <3> HIDE DEF R
    <3> QED BY <3>1, LatestIs, Zenon
  <2>10. R # {} => calls[i].before = calls[m].left /\ calls[m].delivered = calls[m].left
    <3>1. \A j \in R : Alone(j) /\ j \in DOMAIN calls
      BY <2>7
    <3> HIDE DEF R, m
    <3> QED BY <2>1, <2>9, <3>1, Zenon
  <2>11. R = {} => calls[i].before = <<>>
    BY <2>6, Zenon DEF Left
  <2> HIDE DEF R, m
  <2> QED BY <2>8, <2>10, <2>11
<1>2. ASSUME Inv PROVE ReadAgainstWhatWasLeft
  BY <1>1, <1>2, Zenon DEF ReadAgainstWhatWasLeft
<1> QED BY <1>2, InvAlways, PTL

\* The host's verdict on a chain (_Judge.hop, _Judge.invocations) is on what each run
\* left, against what it was to start from: runs of one worker that overlap mix up
\* their own entries and no others.
THEOREM EachRunIsJudgedOnItsOwn == Spec => []JudgedOnItsRun
<1>1. JudgedAsItReturned /\ ReadAgainstWhatWasLeft => JudgedOnItsRun
  BY DEF JudgedOnItsRun
<1> QED BY <1>1, VerdictIsOfTheReturn, JudgedAgainstItsStart, PTL
=============================================================================
