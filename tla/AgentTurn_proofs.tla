-------------------------- MODULE AgentTurn_proofs --------------------------
(***************************************************************************)
(* Proofs about the modules a case's turns are made of.                    *)
(*                                                                         *)
(* ToolCallTurn, the loop that answers a turn, for every number of         *)
(* requests, connections and runs: what runs is the call the model made,   *)
(* the history is well paired, requests are billed once.                   *)
(*                                                                         *)
(* CaseEvaluation, which asks the turns, for every case, step budget and   *)
(* number of nudges: calls are counted once, nudges keep to the budget of  *)
(* their turn and to turns that ran no code, and outputs are named when    *)
(* asked for.                                                              *)
(*                                                                         *)
(* ReplyStream, which reads a reply through the repair, for every reply    *)
(* and every way to cut it: the agent's parser has a block open exactly    *)
(* when the repair believes it has, and the text it is handed does not     *)
(* depend on the cuts.                                                     *)
(***************************************************************************)
EXTENDS CaseEvaluation, ToolCallTurn, ReplyStream,
        FiniteSetTheorems, SequenceTheorems, WellFoundedInduction, TLAPS

---------------------------------------------------------------------------
(* The tool-call loop *)

\* The reply under way: its parts came over the connection that is open now, what came
\* of its first call is kept, and nothing of a call is there that was not received.
ReplyInv ==
  /\ at \in {"reading", "closing", "handling"} =>
       /\ opens >= 1 /\ replies >= 1
       /\ calls = <<>> => streamed = <<>>
       /\ calls # <<>> => calls[1].arguments = streamed
       /\ \A j \in 1..Len(calls) :
            /\ calls[j].arguments # <<>>
            /\ \A k \in 1..Len(calls[j].arguments) : calls[j].arguments[k] = opens
  /\ at = "reading" => ~stopped /\ Len(calls) <= 1 /\ (calls # <<>> => received)

\* The call that is handled is the first of its reply, and it was complete.
CallInv ==
  /\ at # "handling" => call = NoCall
  /\ call # NoCall => calls # <<>> /\ call = calls[1] /\ (stopped \/ finish # "length" \/ Code(call))

\* What was run belongs to replies gone by, until a reply's own call is run.
ExecutedInv ==
  /\ executed \in Seq(Nat \X ToolCalls)
  /\ \A n \in 1..Len(executed) :
       /\ executed[n][1] <= replies
       /\ at \in {"reading", "closing", "handling"} => executed[n][1] < replies
  /\ RunsTheFirstCallWhole

\* A history in which a call has its result behind it, unless it is the last message,
\* and a result its call before it.
Paired(h) ==
  \A i \in 1..Len(h) :
    /\ h[i].kind = "call" /\ i < Len(h) => h[i + 1].kind = "result"
    /\ h[i].kind = "result" => i > 1 /\ h[i - 1].kind = "call"

\* Its last message is a call that has no result.
Dangling(h) == h # <<>> /\ h[Len(h)].kind = "call"

\* A call is left without its result while it runs, and when a run was cancelled there.
HistoryInv ==
  /\ Paired(messages)
  /\ Dangling(messages) => at \in {"idle", "executing"}
  /\ at = "executing" => Dangling(messages)

LoopInv == LoopTypeOK /\ ReplyInv /\ CallInv /\ ExecutedInv /\ HistoryInv /\ BilledOnce

Entries == [kind: MessageKinds, reply: 0..MaxReplies]

\* A list gains an element at its end.
LEMMA OneMore ==
  ASSUME NEW S, NEW seq \in Seq(S), NEW e \in S
  PROVE  /\ Append(seq, e) \in Seq(S) /\ Append(seq, e) # <<>>
         /\ Len(seq) \in Nat /\ Len(Append(seq, e)) = Len(seq) + 1
         /\ \A j \in 1..Len(seq) : Append(seq, e)[j] = seq[j]
         /\ Append(seq, e)[Len(seq) + 1] = e
  OBVIOUS

\* A message that is a result exactly when a call waits for one keeps the history paired.
LEMMA StaysPaired ==
  ASSUME NEW h \in Seq(Entries), NEW m \in Entries,
         Paired(h), Dangling(h) <=> m.kind = "result"
  PROVE  /\ Append(h, m) \in Seq(Entries)
         /\ Paired(Append(h, m))
         /\ Dangling(Append(h, m)) <=> m.kind = "call"
  <1> DEFINE g == Append(h, m)
  <1>1. /\ g \in Seq(Entries) /\ g # <<>> /\ Len(h) \in Nat /\ Len(g) = Len(h) + 1
        /\ \A j \in 1..Len(h) : g[j] = h[j]
        /\ g[Len(h) + 1] = m
    BY OneMore
  <1> HIDE DEF g
  <1>2. h # <<>> <=> Len(h) > 0
    OBVIOUS
  <1>3. ASSUME NEW i \in 1..Len(g)
        PROVE  /\ g[i].kind = "call" /\ i < Len(g) => g[i + 1].kind = "result"
               /\ g[i].kind = "result" => i > 1 /\ g[i - 1].kind = "call"
    <2>1. CASE i < Len(h)
      <3>1. i \in 1..Len(h) /\ i + 1 \in 1..Len(h) /\ (i > 1 => i - 1 \in 1..Len(h))
        BY <2>1, <1>1
      <3>2. g[i] = h[i] /\ g[i + 1] = h[i + 1] /\ (i > 1 => g[i - 1] = h[i - 1])
        BY <3>1, <1>1
      <3> QED BY <2>1, <3>1, <3>2 DEF Paired
    <2>2. CASE i = Len(h)
      <3>1. i \in 1..Len(h) /\ (i > 1 => i - 1 \in 1..Len(h)) /\ g[i] = h[i] /\ g[i + 1] = m
            /\ (i > 1 => g[i - 1] = h[i - 1]) /\ h # <<>>
        BY <2>2, <1>1, <1>2
      <3>2. g[i].kind = "call" => m.kind = "result"
        BY <3>1, <2>2 DEF Dangling
      <3> QED BY <3>1, <3>2 DEF Paired
    <2>3. CASE i = Len(h) + 1
      <3>1. g[i] = m /\ ~(i < Len(g))
        BY <2>3, <1>1
      <3>2. ASSUME m.kind = "result" PROVE i > 1 /\ g[i - 1].kind = "call"
        <4>1. Len(h) > 0 /\ h[Len(h)].kind = "call"
          BY <3>2, <1>2 DEF Dangling
        <4>2. i - 1 = Len(h) /\ Len(h) \in 1..Len(h)
          BY <4>1, <2>3, <1>1
        <4> QED BY <4>1, <4>2, <1>1
      <3> QED BY <3>1, <3>2
    <2> QED BY <2>1, <2>2, <2>3, <1>1
  <1>4. Paired(g)
    BY <1>3 DEF Paired
  <1>5. Dangling(g) <=> m.kind = "call"
    BY <1>1 DEF Dangling
  <1> QED BY <1>1, <1>4, <1>5 DEF g

\* Two messages are added one after the other.
LEMMA TwoMore ==
  ASSUME NEW h \in Seq(Entries), NEW m \in Entries, NEW n \in Entries
  PROVE  h \o <<m, n>> = Append(Append(h, m), n)
  OBVIOUS

\* What is sent of a paired history that no call ends: each call has its answer behind it.
LEMMA WirePaired ==
  ASSUME NEW h \in Seq(Entries), Paired(h), ~Dangling(h), NEW i \in DOMAIN Wire(h)
  PROVE  /\ Wire(h)[i][1] = "call" => i < Len(Wire(h)) /\ Wire(h)[i + 1] = <<"tool", Wire(h)[i][2]>>
         /\ Wire(h)[i][1] = "tool" => i > 1 /\ Wire(h)[i - 1] = <<"call", Wire(h)[i][2]>>
  <1>1. Len(h) \in Nat /\ DOMAIN h = 1..Len(h)
    OBVIOUS
  <1>2. Wire(h) \in Seq({Rendered(h, k) : k \in DOMAIN h}) /\ Len(Wire(h)) = Len(h) /\ DOMAIN Wire(h) = 1..Len(h)
    BY <1>1 DEF Wire
  <1>3. i \in 1..Len(h) /\ \A k \in 1..Len(h) : Wire(h)[k] = Rendered(h, k)
    BY <1>1, <1>2 DEF Wire
  <1>4. ASSUME NEW k \in 1..Len(h) PROVE h[k].kind = "call" => Rendered(h, k) = <<"call", h[k].reply>>
    BY DEF Rendered
  <1>5. ASSUME NEW k \in 1..Len(h), h[k].kind = "call"
        PROVE  k < Len(h) /\ k + 1 \in 1..Len(h) /\ h[k + 1].kind = "result"
               /\ Rendered(h, k + 1) = <<"tool", h[k].reply>>
    <2>1. k < Len(h)
      BY <1>1, <1>5 DEF Dangling
    <2>2. k + 1 \in 1..Len(h) /\ h[k + 1].kind = "result"
      BY <2>1, <1>1, <1>5 DEF Paired
    <2>3. OpenBefore(h, k + 1) = {k}
      <3>1. k \in OpenBefore(h, k + 1)
        BY <1>1, <1>5 DEF OpenBefore
      <3>2. ASSUME NEW j \in OpenBefore(h, k + 1) PROVE j = k
        <4>1. j \in 1..(k + 1 - 1) /\ \A l \in (j + 1)..(k + 1 - 1) : h[l].kind \notin {"call", "result"}
          BY <3>2 DEF OpenBefore
        <4>2. SUFFICES ASSUME j # k PROVE FALSE
          OBVIOUS
        <4>3. k \in (j + 1)..(k + 1 - 1)
          BY <4>1, <4>2
        <4> QED BY <4>1, <4>3, <1>5
      <3> QED BY <3>1, <3>2
    <2>4. (CHOOSE j \in OpenBefore(h, k + 1) : TRUE) = k
      BY <2>3
    <2>5. Rendered(h, k + 1) = <<"tool", h[CHOOSE j \in OpenBefore(h, k + 1) : TRUE].reply>>
      BY <2>2, <2>3 DEF Rendered
    <2> QED BY <2>1, <2>2, <2>4, <2>5
  <1>6. ASSUME NEW k \in 1..Len(h), Rendered(h, k)[1] = "call" PROVE h[k].kind = "call"
    BY <1>6 DEF Rendered
  <1>7. ASSUME NEW k \in 1..Len(h), Rendered(h, k)[1] = "tool" PROVE h[k].kind = "result"
    BY <1>7 DEF Rendered
  <1>8. ASSUME Wire(h)[i][1] = "call"
        PROVE  i < Len(Wire(h)) /\ Wire(h)[i + 1] = <<"tool", Wire(h)[i][2]>>
    <2>1. h[i].kind = "call" /\ Wire(h)[i] = <<"call", h[i].reply>>
      BY <1>8, <1>3, <1>4, <1>6
    <2>2. i < Len(h) /\ i + 1 \in 1..Len(h) /\ Rendered(h, i + 1) = <<"tool", h[i].reply>>
      BY <2>1, <1>3, <1>5
    <2>3. Wire(h)[i + 1] = <<"tool", h[i].reply>>
      BY <2>2, <1>3
    <2> QED BY <2>1, <2>2, <2>3, <1>2
  <1>9. ASSUME Wire(h)[i][1] = "tool" PROVE i > 1 /\ Wire(h)[i - 1] = <<"call", Wire(h)[i][2]>>
    <2>1. h[i].kind = "result"
      BY <1>9, <1>3, <1>7
    <2>2. i > 1 /\ h[i - 1].kind = "call"
      BY <2>1, <1>3 DEF Paired
    <2>3. PICK k \in 1..Len(h) : k = i - 1
      BY <2>2, <1>3
    <2>4. h[k].kind = "call"
      BY <2>2, <2>3
    <2>5. Rendered(h, k + 1) = <<"tool", h[k].reply>> /\ Rendered(h, k) = <<"call", h[k].reply>>
      BY <2>4, <1>4, <1>5
    <2>6. k + 1 = i /\ Wire(h)[i] = Rendered(h, k + 1) /\ Wire(h)[i - 1] = Rendered(h, k)
      BY <2>3, <1>3
    <2> QED BY <2>2, <2>5, <2>6
  <1> QED BY <1>8, <1>9

\* The list of parts that came over one connection has that one in it.
LEMMA OneConnection ==
  ASSUME NEW S, NEW o, NEW list \in Seq(S), list # <<>>, \A k \in 1..Len(list) : list[k] = o
  PROVE  Cardinality(ToSet(list)) = 1
  <1>1. ToSet(list) = {o}
    BY DEF ToSet
  <1> QED BY <1>1, FS_Singleton


UnderWay == {"reading", "closing", "handling"}

\* What was run stays as it was in a step that runs nothing.
LEMMA NothingRun ==
  ASSUME ExecutedInv, UNCHANGED executed, replies \in Nat,
         \/ replies' = replies /\ (at' \in UnderWay => at \in UnderWay)
         \/ replies' = replies + 1
  PROVE  ExecutedInv'
  <1>1. ASSUME NEW n \in 1..Len(executed)
        PROVE  executed[n][1] \in Nat /\ executed[n][1] <= replies
               /\ (at \in UnderWay => executed[n][1] < replies)
    BY DEF ExecutedInv, UnderWay
  <1>2. ASSUME NEW n \in 1..Len(executed)
        PROVE  executed[n][1] <= replies' /\ (at' \in UnderWay => executed[n][1] < replies')
    BY <1>1
  <1> QED BY <1>2 DEF ExecutedInv, RunsTheFirstCallWhole, UnderWay, Whole

\* The parts of a reply's calls, all of one connection.
AllOver(cs, o) ==
  \A j \in 1..Len(cs) : cs[j].arguments # <<>> /\ \A k \in 1..Len(cs[j].arguments) : cs[j].arguments[k] = o

LEMMA NoneOrOne ==
  ASSUME NEW n \in Nat, n <= 1
  PROVE  n = 0 \/ n = 1
  OBVIOUS

\* One element of a list is replaced.
LEMMA Replaced ==
  ASSUME NEW S, NEW s \in Seq(S), NEW n \in 1..Len(s), NEW e \in S
  PROVE  /\ [s EXCEPT ![n] = e] \in Seq(S) /\ Len([s EXCEPT ![n] = e]) = Len(s)
         /\ [s EXCEPT ![n] = e][n] = e
         /\ \A k \in 1..Len(s) : k # n => [s EXCEPT ![n] = e][k] = s[k]
  OBVIOUS

Grown(cs, i, o) == [cs EXCEPT ![i].arguments = Append(@, o)]
Begun(cs, kind, o) == Append(cs, [kind |-> kind, arguments |-> <<o>>])

\* A part more of a call under way.
LEMMA CallGrows ==
  ASSUME NEW o \in 1..MaxOpens, NEW cs \in Seq(ToolCalls), NEW i \in 1..Len(cs), AllOver(cs, o)
  PROVE  /\ Grown(cs, i, o) \in Seq(ToolCalls) /\ Len(Grown(cs, i, o)) = Len(cs)
         /\ Grown(cs, i, o)[i].arguments = Append(cs[i].arguments, o)
         /\ AllOver(Grown(cs, i, o), o)
  <1> DEFINE list == cs[i].arguments
  <1> DEFINE new == Grown(cs, i, o)
  <1>1. Len(cs) \in Nat /\ cs[i] \in ToolCalls /\ list \in Seq(1..MaxOpens)
    <2>1. Len(cs) \in Nat /\ cs[i] \in ToolCalls
      OBVIOUS
    <2> QED BY <2>1 DEF ToolCalls
  <1>2. \A k \in 1..Len(list) : list[k] = o
    BY DEF AllOver
  <1> HIDE DEF list
  <1>3. /\ Append(list, o) \in Seq(1..MaxOpens) /\ Append(list, o) # <<>>
        /\ Len(list) \in Nat /\ Len(Append(list, o)) = Len(list) + 1
        /\ \A k \in 1..Len(list) : Append(list, o)[k] = list[k]
        /\ Append(list, o)[Len(list) + 1] = o
    BY <1>1, OneMore
  <1>4. \A k \in 1..Len(Append(list, o)) : Append(list, o)[k] = o
    BY <1>2, <1>3
  <1> DEFINE more == [cs[i] EXCEPT !.arguments = Append(list, o)]
  <1>5. more \in ToolCalls /\ more.arguments = Append(list, o)
    BY <1>1, <1>3 DEF ToolCalls
  <1>6. new = [cs EXCEPT ![i] = more]
    BY DEF list, Grown
  <1> HIDE DEF more, new
  <1>7. new \in Seq(ToolCalls) /\ Len(new) = Len(cs) /\ new[i] = more
        /\ \A j \in 1..Len(cs) : j # i => new[j] = cs[j]
    <2>1. /\ [cs EXCEPT ![i] = more] \in Seq(ToolCalls) /\ Len([cs EXCEPT ![i] = more]) = Len(cs)
          /\ [cs EXCEPT ![i] = more][i] = more
          /\ \A j \in 1..Len(cs) : j # i => [cs EXCEPT ![i] = more][j] = cs[j]
      BY <1>5, Replaced
    <2> QED BY <2>1, <1>6, Zenon
  <1>8. ASSUME NEW j \in 1..Len(new)
        PROVE  new[j].arguments # <<>> /\ \A k \in 1..Len(new[j].arguments) : new[j].arguments[k] = o
    <2>1. CASE j = i
      BY <2>1, <1>3, <1>4, <1>5, <1>7
    <2>2. CASE j # i
      BY <2>2, <1>7 DEF AllOver
    <2> QED BY <2>1, <2>2
  <1>9. AllOver(new, o)
    BY <1>8 DEF AllOver
  <1> QED BY <1>5, <1>7, <1>9 DEF list, new

\* The first part of a call.
LEMMA CallBegins ==
  ASSUME NEW o \in 1..MaxOpens, NEW cs \in Seq(ToolCalls), NEW kind \in Kinds, AllOver(cs, o)
  PROVE  /\ Begun(cs, kind, o) \in Seq(ToolCalls) /\ Len(Begun(cs, kind, o)) = Len(cs) + 1
         /\ \A j \in 1..Len(cs) : Begun(cs, kind, o)[j] = cs[j]
         /\ Begun(cs, kind, o)[Len(cs) + 1].arguments = <<o>>
         /\ AllOver(Begun(cs, kind, o), o)
  <1> DEFINE new == Begun(cs, kind, o)
  <1> DEFINE begun == [kind |-> kind, arguments |-> <<o>>]
  <1>1. begun \in ToolCalls /\ begun.arguments = <<o>>
    BY DEF ToolCalls
  <1> HIDE DEF begun
  <1>2. /\ new \in Seq(ToolCalls) /\ Len(cs) \in Nat /\ Len(new) = Len(cs) + 1
        /\ \A j \in 1..Len(cs) : new[j] = cs[j]
        /\ new[Len(cs) + 1] = begun
    BY <1>1, OneMore DEF begun, Begun
  <1> HIDE DEF new
  <1>3. <<o>> # <<>> /\ \A k \in 1..Len(<<o>>) : <<o>>[k] = o
    OBVIOUS
  <1>4. ASSUME NEW j \in 1..Len(new)
        PROVE  new[j].arguments # <<>> /\ \A k \in 1..Len(new[j].arguments) : new[j].arguments[k] = o
    <2>1. CASE j = Len(cs) + 1
      BY <2>1, <1>1, <1>2, <1>3
    <2>2. CASE j \in 1..Len(cs)
      BY <2>2, <1>2 DEF AllOver
    <2> QED BY <2>1, <2>2, <1>2
  <1>5. AllOver(new, o)
    BY <1>4 DEF AllOver
  <1> QED BY <1>1, <1>2, <1>5 DEF new

\* A part is added to the call under way, or begins the next one.
LEMMA OnePartMore ==
  ASSUME LoopTypeOK, ReplyInv, at = "reading", NEW i \in 1..2, NEW kind \in Kinds,
         NEW n \in Nat, Len(calls) = n, i = n \/ i = n + 1
  PROVE  /\ PartOf(i, kind) \in Seq(ToolCalls) /\ PartOf(i, kind) # <<>> /\ Len(PartOf(i, kind)) = i
         /\ AllOver(PartOf(i, kind), opens)
         /\ i = 1 => PartOf(i, kind)[1].arguments = Append(streamed, opens)
         /\ i = 2 => PartOf(i, kind)[1].arguments = streamed /\ Len(PartOf(i, kind)[2].arguments) = 1
  <1> DEFINE new == PartOf(i, kind)
  <1> HIDE DEF new
  <1>1. opens \in 1..MaxOpens /\ calls \in Seq(ToolCalls) /\ AllOver(calls, opens)
    <2>1. opens \in 0..MaxOpens /\ calls \in Seq(ToolCalls)
      BY DEF LoopTypeOK
    <2>2. opens >= 1 /\ AllOver(calls, opens)
      BY DEF ReplyInv, AllOver
    <2> QED BY <2>1, <2>2, LoopAssumption
  <1>2. Len(calls) = n /\ (n = 0 \/ n = 1)
    <2>1. n <= 1
      BY DEF ReplyInv
    <2> QED BY <2>1, NoneOrOne
  <1>3. i = n \/ i = n + 1
    OBVIOUS
  <1>4. n = 0 => calls = <<>> /\ streamed = <<>>
    <2>1. n = 0 => calls = <<>>
      BY <1>1, <1>2
    <2> QED BY <2>1 DEF ReplyInv
  <1>5. n = 1 => calls # <<>> /\ calls[1].arguments = streamed /\ 1 \in 1..Len(calls)
    <2>1. ASSUME n = 1 PROVE calls # <<>> /\ 1 \in 1..Len(calls)
      <3>1. Len(calls) = 1 /\ calls \in Seq(ToolCalls)
        BY <2>1, <1>1, <1>2
      <3> QED BY <3>1
    <2> QED BY <2>1 DEF ReplyInv
  <1>6. CASE n = 1 /\ i = 1
    <2>1. i \in 1..Len(calls) /\ new = Grown(calls, i, opens)
      BY <1>2, <1>6 DEF PartOf, Grown, new
    <2>2. new \in Seq(ToolCalls) /\ Len(new) = Len(calls) /\ AllOver(new, opens)
          /\ new[i].arguments = Append(calls[i].arguments, opens)
      BY <2>1, <1>1, CallGrows
    <2>3. Len(new) = 1
      BY <2>2, <1>2, <1>6
    <2>4. new # <<>>
      <3>1. Len(<<>>) = 0 /\ 0 # 1
        OBVIOUS
      <3> QED BY <3>1, <2>3, Zenon
    <2>5. new[1].arguments = Append(streamed, opens)
      BY <2>2, <1>5, <1>6
    <2>6. i # 2 /\ Len(new) = i
      BY <2>3, <1>6
    <2> QED BY <2>2, <2>4, <2>5, <2>6, Zenon DEF new
  <1>7. CASE i = n + 1
    <2>1. ~(i <= Len(calls))
      BY <1>2, <1>7
    <2>2. new = Begun(calls, kind, opens)
      BY <2>1 DEF PartOf, Begun, new
    <2>3. /\ new \in Seq(ToolCalls) /\ Len(new) = Len(calls) + 1 /\ AllOver(new, opens)
          /\ \A j \in 1..Len(calls) : new[j] = calls[j]
          /\ new[Len(calls) + 1].arguments = <<opens>>
      BY <2>2, <1>1, CallBegins
    <2>4. Len(new) = i /\ new[i].arguments = <<opens>>
      BY <2>3, <1>2, <1>7
    <2>5. new # <<>>
      BY <2>3, <2>4
    <2>6. CASE n = 0
      <3>1. i = 1 /\ i # 2 /\ Append(streamed, opens) = <<opens>>
        BY <2>6, <1>4, <1>7
      <3>2. new[1].arguments = Append(streamed, opens)
        BY <3>1, <2>4, Zenon
      <3> QED BY <3>1, <3>2, <2>3, <2>4, <2>5, Zenon DEF new
    <2>7. CASE n = 1
      <3>1. i = 2 /\ i # 1 /\ new[1] = calls[1]
        BY <2>7, <2>3, <1>5, <1>7
      <3>2. Len(new[2].arguments) = 1
        <4>1. Len(<<opens>>) = 1
          OBVIOUS
        <4> QED BY <4>1, <3>1, <2>4
      <3>3. new[1].arguments = streamed
        BY <3>1, <2>7, <1>5
      <3> QED BY <3>1, <3>2, <3>3, <2>3, <2>4, <2>5, Zenon DEF new
    <2> QED BY <2>6, <2>7, <1>2
  <1> QED BY <1>2, <1>3, <1>6, <1>7

\* Initially nothing was asked, run or written.
LEMMA LoopBegins == LoopInit => LoopInv
  <1> SUFFICES ASSUME LoopInit PROVE LoopInv
    OBVIOUS
  <1>1. LoopTypeOK
    <2>1. /\ at = "idle" /\ runs = 0 /\ replies = 0 /\ opens = 0 /\ calls = <<>> /\ finish = "none"
          /\ call = NoCall /\ messages = <<>> /\ spent = <<>>
      BY DEF LoopInit
    <2>2. {text, received, stopped, error} \subseteq BOOLEAN
      BY DEF LoopInit
    <2>3. calls \in Seq(ToolCalls) /\ Len(calls) = 0 /\ messages \in Seq(Entries)
          /\ spent \in Seq({"provider", "estimated"})
      BY <2>1
    <2> QED BY <2>1, <2>2, <2>3, LoopAssumption DEF LoopTypeOK, Entries
  <1>2. ReplyInv /\ CallInv /\ BilledOnce
    BY DEF LoopInit, ReplyInv, CallInv, BilledOnce
  <1>3. ExecutedInv
    BY DEF LoopInit, ExecutedInv, RunsTheFirstCallWhole
  <1>4. HistoryInv
    BY DEF LoopInit, HistoryInv, Paired, Dangling
  <1> QED BY <1>1, <1>2, <1>3, <1>4 DEF LoopInv

\* A step within a reply that keeps the history keeps what is said of it.
LEMMA HistoryKept ==
  ASSUME HistoryInv, UNCHANGED messages, Dangling(messages) => at' \in {"idle", "executing"},
         at' = "executing" => Dangling(messages)
  PROVE  HistoryInv'
  BY DEF HistoryInv, Paired, Dangling

\* A message of the loop.
LEMMA Messages ==
  ASSUME LoopTypeOK, NEW k \in MessageKinds
  PROVE  Message(k) \in Entries /\ Message(k).kind = k /\ messages \in Seq(Entries)
  BY DEF LoopTypeOK, Message, Entries

\* Every step of the loop keeps the invariant.
LEMMA LoopSteps == LoopInv /\ [LoopNext]_loopVars => LoopInv'
  <1> SUFFICES ASSUME LoopInv, [LoopNext]_loopVars PROVE LoopInv'
    OBVIOUS
  <1> USE LoopAssumption DEF stream
  <1>0. LoopTypeOK /\ ReplyInv /\ CallInv /\ ExecutedInv /\ HistoryInv /\ BilledOnce
    BY DEF LoopInv
  <1>t. /\ replies \in Nat /\ opens \in Nat /\ runs \in Nat /\ calls \in Seq(ToolCalls)
        /\ messages \in Seq(Entries) /\ spent \in Seq({"provider", "estimated"})
    BY <1>0 DEF LoopTypeOK, Entries
  <1>1. CASE BeginRun
    <2>0. UNCHANGED <<replies, stream, call, spent, executed>> /\ at = "idle" /\ at' = "step" /\ call = NoCall
      BY <1>1, <1>0 DEF BeginRun, CallInv
    <2>1. Recovered \in Seq(Entries) /\ Paired(Recovered) /\ ~Dangling(Recovered)
      <3>1. CASE Dangling(messages)
        <4> DEFINE m == [kind |-> "result", reply |-> Last(messages).reply]
        <4>1. messages # <<>> /\ Len(messages) \in 1..Len(messages) /\ Last(messages) = messages[Len(messages)]
              /\ Last(messages).kind = "call"
          BY <3>1, <1>t DEF Dangling, Last
        <4>2. messages[Len(messages)] \in Entries
          BY <4>1, <1>t
        <4>3. m \in Entries /\ m.kind = "result"
          BY <4>1, <4>2 DEF Entries, MessageKinds
        <4>4. Recovered = Append(messages, m)
          BY <4>1 DEF Recovered
        <4> HIDE DEF m
        <4> QED BY <4>3, <4>4, <3>1, <1>t, <1>0, StaysPaired DEF HistoryInv
      <3>2. CASE ~Dangling(messages)
        <4>1. Recovered = messages
          BY <3>2 DEF Dangling, Recovered, Last
        <4> QED BY <4>1, <3>2, <1>t, <1>0 DEF HistoryInv
      <3> QED BY <3>1, <3>2
    <2>2. messages' = Append(Recovered, Message("user")) /\ Message("user") \in Entries
          /\ Message("user").kind = "user"
      BY <1>1, <1>0, Messages DEF BeginRun, MessageKinds
    <2>3. messages' \in Seq(Entries) /\ Paired(messages') /\ ~Dangling(messages')
      BY <2>1, <2>2, StaysPaired
    <2>4. HistoryInv'
      BY <2>0, <2>3 DEF HistoryInv, Paired, Dangling
    <2>5. LoopTypeOK'
      BY <2>0, <2>3, <1>0, <1>1 DEF BeginRun, LoopTypeOK, Entries
    <2>6. ReplyInv' /\ CallInv' /\ BilledOnce'
      BY <2>0, <1>0 DEF ReplyInv, CallInv, BilledOnce, Code, Whole
    <2>7. ExecutedInv'
      BY <2>0, <1>0, <1>t, NothingRun DEF UnderWay
    <2> QED BY <2>4, <2>5, <2>6, <2>7 DEF LoopInv
  <1>2. CASE Request
    <2>1. LoopTypeOK'
      <3>1. {text', received', stopped', error'} \subseteq BOOLEAN
        BY <1>2 DEF Request
      <3>2. calls' \in Seq(ToolCalls) /\ Len(calls') = 0
        BY <1>2 DEF Request
      <3>3. replies' \in 0..MaxReplies /\ opens' \in 0..MaxOpens
        BY <1>2, <1>t DEF Request
      <3> QED BY <1>2, <1>0, <3>1, <3>2, <3>3 DEF Request, LoopTypeOK
    <2>2. ReplyInv'
      BY <1>2, <1>t DEF Request, ReplyInv
    <2>3. CallInv'
      BY <1>2 DEF Request, CallInv
    <2>4. BilledOnce'
      BY <1>2, <1>0, <1>t DEF Request, BilledOnce
    <2>5. ExecutedInv'
      BY <1>2, <1>0, <1>t, NothingRun DEF Request
    <2>6. HistoryInv'
      BY <1>2, <1>0, HistoryKept DEF Request, HistoryInv
    <2> QED BY <2>1, <2>2, <2>3, <2>4, <2>5, <2>6 DEF LoopInv
  <1>3. CASE TextChunk
    <2>1. LoopTypeOK'
      BY <1>3, <1>0 DEF TextChunk, LoopTypeOK
    <2>2. ReplyInv'
      BY <1>3, <1>0 DEF TextChunk, ReplyInv
    <2>3. CallInv'
      BY <1>3, <1>0 DEF TextChunk, CallInv, Code, Whole
    <2>4. BilledOnce'
      BY <1>3, <1>0 DEF TextChunk, BilledOnce
    <2>5. ExecutedInv'
      BY <1>3, <1>0, <1>t, NothingRun DEF TextChunk, UnderWay
    <2>6. HistoryInv'
      BY <1>3, <1>0, HistoryKept DEF TextChunk, HistoryInv
    <2> QED BY <2>1, <2>2, <2>3, <2>4, <2>5, <2>6 DEF LoopInv
  <1>4. CASE Replay
    <2>1. calls = <<>> /\ streamed = <<>>
      BY <1>4, <1>0 DEF Replay, ReplyInv
    <2>2. LoopTypeOK'
      BY <1>4, <1>0 DEF Replay, LoopTypeOK
    <2>3. ReplyInv'
      BY <1>4, <1>0, <1>t, <2>1 DEF Replay, ReplyInv
    <2>4. CallInv'
      BY <1>4, <1>0 DEF Replay, CallInv
    <2>5. BilledOnce'
      BY <1>4, <1>0 DEF Replay, BilledOnce
    <2>6. ExecutedInv'
      BY <1>4, <1>0, <1>t, NothingRun DEF Replay, UnderWay
    <2>7. HistoryInv'
      BY <1>4, <1>0, HistoryKept DEF Replay, HistoryInv
    <2> QED BY <2>2, <2>3, <2>4, <2>5, <2>6, <2>7 DEF LoopInv
  <1>5. CASE Fails
    <2>1. LoopTypeOK'
      BY <1>5, <1>0 DEF Fails, LoopTypeOK
    <2>2. ReplyInv'
      BY <1>5, <1>0 DEF Fails, ReplyInv
    <2>3. CallInv'
      BY <1>5, <1>0 DEF Fails, CallInv
    <2>4. BilledOnce'
      BY <1>5, <1>0 DEF Fails, BilledOnce
    <2>5. ExecutedInv'
      BY <1>5, <1>0, <1>t, NothingRun DEF Fails, UnderWay
    <2>6. HistoryInv'
      BY <1>5, <1>0, HistoryKept DEF Fails, HistoryInv
    <2> QED BY <2>1, <2>2, <2>3, <2>4, <2>5, <2>6 DEF LoopInv
  <1>6. ASSUME NEW how \in Finishes, Ends(how) PROVE LoopInv'
    <2>1. LoopTypeOK'
      BY <1>6, <1>0 DEF Ends, LoopTypeOK, Finishes
    <2>2. ReplyInv'
      BY <1>6, <1>0 DEF Ends, ReplyInv
    <2>3. CallInv'
      BY <1>6, <1>0 DEF Ends, CallInv
    <2>4. BilledOnce'
      BY <1>6, <1>0 DEF Ends, BilledOnce
    <2>5. ExecutedInv'
      BY <1>6, <1>0, <1>t, NothingRun DEF Ends, UnderWay
    <2>6. HistoryInv'
      BY <1>6, <1>0, HistoryKept DEF Ends, HistoryInv
    <2> QED BY <2>1, <2>2, <2>3, <2>4, <2>5, <2>6 DEF LoopInv
  <1>7. ASSUME NEW i \in 1..2, NEW kind \in Kinds, CallChunk(i, kind) PROVE LoopInv'
    <2>n. PICK n \in Nat : Len(calls) = n
      BY <1>t
    <2>0. at = "reading" /\ (i = n \/ i = n + 1) /\ call = NoCall /\ calls' = PartOf(i, kind)
          /\ UNCHANGED <<runs, replies, opens, text, error, finish, call, messages, spent, executed>>
          /\ ~stopped
      BY <1>7, <1>0, <2>n DEF CallChunk, CallInv, ReplyInv
    <2>1. /\ calls' \in Seq(ToolCalls) /\ calls' # <<>> /\ Len(calls') = i
          /\ AllOver(calls', opens)
          /\ i = 1 => calls'[1].arguments = Append(streamed, opens)
          /\ i = 2 => calls'[1].arguments = streamed /\ Len(calls'[2].arguments) = 1
      BY <2>0, <2>n, <1>0, OnePartMore
    <2>2. CASE i = 1
      <3>1. at' = "reading" /\ UNCHANGED stopped /\ streamed' = Append(streamed, opens) /\ received' = TRUE
        <4>1. at' = at /\ stopped' = stopped
          BY <1>7, <2>2 DEF CallChunk
        <4>2. streamed' = Append(streamed, opens)
          BY <1>7, <2>2 DEF CallChunk
        <4>3. received' = TRUE
          BY <1>7, Zenon DEF CallChunk, ReturnsDelta
        <4> QED BY <4>1, <4>2, <4>3, <2>0
      <3>2. LoopTypeOK'
        BY <2>0, <2>1, <2>2, <3>1, <1>0 DEF LoopTypeOK
      <3>3. ReplyInv'
        BY <2>0, <2>1, <2>2, <3>1, <1>0 DEF ReplyInv, AllOver
      <3>4. CallInv' /\ BilledOnce'
        BY <2>0, <3>1, <1>0 DEF CallInv, BilledOnce
      <3>5. ExecutedInv'
        BY <2>0, <3>1, <1>0, <1>t, NothingRun DEF UnderWay
      <3>6. HistoryInv'
        BY <2>0, <3>1, <1>0, HistoryKept DEF HistoryInv
      <3> QED BY <3>2, <3>3, <3>4, <3>5, <3>6 DEF LoopInv
    <2>3. CASE i = 2
      <3>1. at' = "closing" /\ stopped' = TRUE /\ streamed' = streamed /\ received' = TRUE
        <4>1. at' = "closing" /\ stopped' = TRUE
          BY <1>7, <2>3 DEF CallChunk
        <4>2. streamed' = streamed
          BY <1>7, <2>3 DEF CallChunk
        <4>3. received' = TRUE
          BY <1>7, Zenon DEF CallChunk, ReturnsDelta
        <4> QED BY <4>1, <4>2, <4>3
      <3>2. LoopTypeOK'
        BY <2>0, <2>1, <2>3, <3>1, <1>0 DEF LoopTypeOK
      <3>3. ReplyInv'
        BY <2>0, <2>1, <2>3, <3>1, <1>0 DEF ReplyInv, AllOver
      <3>4. CallInv' /\ BilledOnce'
        BY <2>0, <3>1, <1>0 DEF CallInv, BilledOnce
      <3>5. ExecutedInv'
        BY <2>0, <3>1, <1>0, <1>t, NothingRun DEF UnderWay
      <3>6. HistoryInv'
        BY <2>0, <3>1, <1>0, HistoryKept DEF HistoryInv
      <3> QED BY <3>2, <3>3, <3>4, <3>5, <3>6 DEF LoopInv
    <2>4. i = 1 \/ i = 2
      OBVIOUS
    <2> QED BY <2>2, <2>3, <2>4
  <1>8. CASE Close
    <2>0. at = "closing" /\ call = NoCall /\ at' \in {"idle", "handling"}
          /\ UNCHANGED <<runs, replies, opens, text, calls, received, stopped, error, finish, streamed, messages, executed>>
      BY <1>8, <1>0 DEF Close, CallInv
    <2>1. spent' \in Seq({"provider", "estimated"}) /\ Len(spent') = replies
      <3>1. Len(spent) = replies - 1
        BY <2>0, <1>0 DEF BilledOnce
      <3>2. \E bill \in {"provider", "estimated"} : spent' = Append(spent, bill)
        BY <1>8 DEF Close, Billed
      <3> QED BY <3>1, <3>2, <1>t
    <2>2. \/ call' = NoCall
          \/ calls # <<>> /\ at' = "handling" /\ call' = First /\ Complete
      BY <1>8, <2>0 DEF Close
    <2>3. First = calls[1] /\ (calls # <<>> => calls[1] \in ToolCalls)
      BY <1>t DEF First
    <2>4. LoopTypeOK'
      BY <2>0, <2>1, <2>2, <2>3, <1>0 DEF LoopTypeOK
    <2>5. ReplyInv'
      BY <2>0, <1>0 DEF ReplyInv
    <2>6. CallInv'
      BY <2>0, <2>2, <2>3 DEF CallInv, Complete, Code, Whole
    <2>7. BilledOnce'
      BY <2>0, <2>1 DEF BilledOnce
    <2>8. ExecutedInv'
      BY <2>0, <1>0, <1>t, NothingRun DEF UnderWay
    <2>9. HistoryInv'
      BY <2>0, <1>0, HistoryKept DEF HistoryInv
    <2> QED BY <2>4, <2>5, <2>6, <2>7, <2>8, <2>9 DEF LoopInv
  <1>9. CASE NoCallToRun
    <2>0. at = "handling" /\ call = NoCall /\ at' \in {"idle", "step"} /\ ~Dangling(messages)
          /\ UNCHANGED <<runs, replies, stream, call, spent, executed>>
      BY <1>9, <1>0 DEF NoCallToRun, HistoryInv
    <2>1. Message("text") \in Entries /\ Message("user") \in Entries
          /\ Message("text").kind = "text" /\ Message("user").kind = "user"
      BY <1>0, Messages DEF MessageKinds
    <2> DEFINE more == Append(messages, Message("text"))
    <2>2. more \in Seq(Entries) /\ Paired(more) /\ ~Dangling(more)
      BY <2>0, <2>1, <1>t, <1>0, StaysPaired DEF HistoryInv
    <2>3. Append(more, Message("user")) \in Seq(Entries) /\ Paired(Append(more, Message("user")))
          /\ ~Dangling(Append(more, Message("user")))
      BY <2>1, <2>2, StaysPaired
    <2>4. messages \o <<Message("text"), Message("user")>> = Append(more, Message("user"))
      BY <2>1, <1>t, TwoMore
    <2>5. messages' \in {messages, more, Append(more, Message("user"))}
      BY <1>9, <2>4 DEF NoCallToRun
    <2> HIDE DEF more
    <2>6. messages' \in Seq(Entries) /\ Paired(messages') /\ ~Dangling(messages')
      BY <2>0, <2>2, <2>3, <2>5, <1>t, <1>0 DEF HistoryInv
    <2>7. HistoryInv'
      BY <2>0, <2>6 DEF HistoryInv, Paired, Dangling
    <2>8. LoopTypeOK'
      BY <2>0, <2>6, <1>0 DEF LoopTypeOK, Entries
    <2>9. ReplyInv' /\ CallInv' /\ BilledOnce'
      BY <2>0, <1>0 DEF ReplyInv, CallInv, BilledOnce
    <2>10. ExecutedInv'
      BY <2>0, <1>0, <1>t, NothingRun DEF UnderWay
    <2> QED BY <2>7, <2>8, <2>9, <2>10 DEF LoopInv
  <1>10. CASE Refuse
    <2>0. at = "handling" /\ call' = NoCall /\ at' = "step" /\ ~Dangling(messages)
          /\ UNCHANGED <<runs, replies, stream, spent, executed>>
      BY <1>10, <1>0 DEF Refuse, HistoryInv
    <2>1. Message("call") \in Entries /\ Message("result") \in Entries
          /\ Message("call").kind = "call" /\ Message("result").kind = "result"
      BY <1>0, Messages DEF MessageKinds
    <2> DEFINE more == Append(messages, Message("call"))
    <2>2. more \in Seq(Entries) /\ Paired(more) /\ Dangling(more)
      BY <2>0, <2>1, <1>t, <1>0, StaysPaired DEF HistoryInv
    <2>3. Append(more, Message("result")) \in Seq(Entries) /\ Paired(Append(more, Message("result")))
          /\ ~Dangling(Append(more, Message("result")))
      BY <2>1, <2>2, StaysPaired
    <2>4. messages' = Append(more, Message("result"))
      BY <1>10, <2>1, <1>t, TwoMore DEF Refuse, Refused
    <2>5. messages' \in Seq(Entries) /\ Paired(messages') /\ ~Dangling(messages')
      BY <2>3, <2>4
    <2>6. HistoryInv'
      BY <2>0, <2>5 DEF HistoryInv, Paired, Dangling
    <2>7. LoopTypeOK'
      BY <2>0, <2>5, <1>0 DEF LoopTypeOK, Entries
    <2>8. ReplyInv' /\ CallInv' /\ BilledOnce'
      BY <2>0, <1>0 DEF ReplyInv, CallInv, BilledOnce
    <2>9. ExecutedInv'
      BY <2>0, <1>0, <1>t, NothingRun DEF UnderWay
    <2> QED BY <2>6, <2>7, <2>8, <2>9 DEF LoopInv
  <1>11. CASE Run
    <2>0. at = "handling" /\ Code(call) /\ call' = NoCall /\ at' = "executing" /\ ~Dangling(messages)
          /\ executed' = Append(executed, <<replies, call>>)
          /\ UNCHANGED <<runs, replies, stream, spent>>
      BY <1>11, <1>0 DEF Run, HistoryInv
    <2>1. call # NoCall /\ calls # <<>> /\ call = calls[1] /\ 1 \in 1..Len(calls)
      BY <2>0, <1>0, <1>t DEF Code, NoCall, CallInv
    <2>2. call \in ToolCalls /\ call.arguments # <<>> /\ \A k \in 1..Len(call.arguments) : call.arguments[k] = opens
      BY <2>0, <2>1, <1>0, <1>t DEF ReplyInv
    <2>3. Cardinality(ToSet(call.arguments)) = 1 /\ Whole(call)
      BY <2>0, <2>2, OneConnection DEF Code, ToolCalls
    <2>4. ExecutedInv'
      <3> DEFINE latest == <<replies, call>>
      <3>1. latest \in Nat \X ToolCalls /\ latest[1] = replies /\ latest[2] = call
        BY <2>2, <1>t
      <3> HIDE DEF latest
      <3>2. /\ executed' \in Seq(Nat \X ToolCalls) /\ Len(executed) \in Nat
            /\ Len(executed') = Len(executed) + 1
            /\ \A j \in 1..Len(executed) : executed'[j] = executed[j]
            /\ executed'[Len(executed) + 1] = latest
        BY <2>0, <3>1, <1>0, OneMore DEF ExecutedInv, latest
      <3>3. \A n \in 1..Len(executed) : executed[n][1] \in Nat /\ executed[n][1] < replies
        BY <2>0, <1>0 DEF ExecutedInv
      <3>4. DOMAIN executed' = 1..Len(executed') /\ DOMAIN executed = 1..Len(executed)
        BY <3>2, <1>0 DEF ExecutedInv
      <3>5. ASSUME NEW n \in 1..Len(executed')
            PROVE  executed'[n][1] <= replies /\ Cardinality(ToSet(executed'[n][2].arguments)) = 1
                   /\ Whole(executed'[n][2])
        <4>1. CASE n \in 1..Len(executed)
          BY <4>1, <3>2, <3>3, <3>4, <1>0, <1>t DEF ExecutedInv, RunsTheFirstCallWhole
        <4>2. CASE n = Len(executed) + 1
          BY <4>2, <3>1, <3>2, <2>3, <1>t
        <4> QED BY <4>1, <4>2, <3>2
      <3>6. ASSUME NEW n \in (1..Len(executed')) \ {1} PROVE executed'[n][1] > executed'[n - 1][1]
        <4>1. CASE n \in 1..Len(executed)
          <5>1. n - 1 \in 1..Len(executed)
            BY <4>1, <3>2
          <5> QED BY <4>1, <5>1, <3>2, <3>4, <1>0 DEF ExecutedInv, RunsTheFirstCallWhole
        <4>2. CASE n = Len(executed) + 1
          <5>1. n - 1 \in 1..Len(executed)
            BY <4>2, <3>2
          <5>2. executed'[n - 1][1] < replies /\ executed'[n - 1][1] \in Nat /\ executed'[n][1] = replies
            BY <5>1, <4>2, <3>1, <3>2, <3>3
          <5> QED BY <5>2, <1>t
        <4> QED BY <4>1, <4>2, <3>2
      <3>7. RunsTheFirstCallWhole'
        BY <3>4, <3>5, <3>6 DEF RunsTheFirstCallWhole, Whole
      <3> QED BY <2>0, <3>2, <3>5, <3>7 DEF ExecutedInv
    <2>5. Message("call") \in Entries /\ Message("call").kind = "call"
      BY <1>0, Messages DEF MessageKinds
    <2>6. messages' \in Seq(Entries) /\ Paired(messages') /\ Dangling(messages')
      BY <1>11, <2>0, <2>5, <1>t, <1>0, StaysPaired DEF HistoryInv, Run
    <2>7. HistoryInv'
      BY <2>0, <2>6 DEF HistoryInv, Paired, Dangling
    <2>8. LoopTypeOK'
      BY <2>0, <2>6, <1>0 DEF LoopTypeOK, Entries
    <2>9. ReplyInv' /\ CallInv' /\ BilledOnce'
      BY <2>0, <1>0 DEF ReplyInv, CallInv, BilledOnce
    <2> QED BY <2>4, <2>7, <2>8, <2>9 DEF LoopInv
  <1>12. CASE WriteResult
    <2>0. at = "executing" /\ at' = "step" /\ Dangling(messages) /\ call = NoCall
          /\ UNCHANGED <<runs, replies, stream, call, spent, executed>>
      BY <1>12, <1>0 DEF WriteResult, HistoryInv, CallInv
    <2>1. Message("result") \in Entries /\ Message("result").kind = "result"
      BY <1>0, Messages DEF MessageKinds
    <2>2. messages' \in Seq(Entries) /\ Paired(messages') /\ ~Dangling(messages')
      BY <1>12, <2>0, <2>1, <1>t, <1>0, StaysPaired DEF HistoryInv, WriteResult
    <2>3. HistoryInv'
      BY <2>0, <2>2 DEF HistoryInv, Paired, Dangling
    <2>4. LoopTypeOK'
      BY <2>0, <2>2, <1>0 DEF LoopTypeOK, Entries
    <2>5. ReplyInv' /\ CallInv' /\ BilledOnce'
      BY <2>0, <1>0 DEF ReplyInv, CallInv, BilledOnce
    <2>6. ExecutedInv'
      BY <2>0, <1>0, <1>t, NothingRun DEF UnderWay
    <2> QED BY <2>3, <2>4, <2>5, <2>6 DEF LoopInv
  <1>13. CASE OutOfSteps
    <2>1. LoopTypeOK' /\ ReplyInv' /\ CallInv' /\ BilledOnce'
      BY <1>13, <1>0 DEF OutOfSteps, LoopTypeOK, ReplyInv, CallInv, BilledOnce, Code, Whole
    <2>2. ExecutedInv'
      BY <1>13, <1>0, <1>t, NothingRun DEF OutOfSteps, UnderWay
    <2>3. HistoryInv'
      BY <1>13, <1>0, HistoryKept DEF OutOfSteps, HistoryInv
    <2> QED BY <2>1, <2>2, <2>3 DEF LoopInv
  <1>14. CASE Cancel
    <2>0. at \in {"reading", "executing"} /\ at' = "idle" /\ UNCHANGED <<runs, replies, stream, call, messages, executed>>
          /\ call = NoCall
      BY <1>14, <1>0 DEF Cancel, CallInv
    <2>1. spent' \in Seq({"provider", "estimated"}) /\ Len(spent') = replies
      <3>1. CASE at = "reading"
        <4>1. Len(spent) = replies - 1 /\ spent' = Append(spent, "estimated")
          BY <1>14, <1>0, <3>1 DEF Cancel, BilledOnce
        <4> QED BY <4>1, <1>t
      <3>2. CASE at = "executing"
        <4>1. Len(spent) = replies /\ spent' = spent
          BY <1>14, <1>0, <3>2 DEF Cancel, BilledOnce
        <4> QED BY <4>1, <1>t
      <3> QED BY <2>0, <3>1, <3>2
    <2>2. LoopTypeOK'
      BY <2>0, <2>1, <1>0 DEF LoopTypeOK
    <2>3. ReplyInv' /\ CallInv' /\ BilledOnce'
      BY <2>0, <2>1, <1>0 DEF ReplyInv, CallInv, BilledOnce
    <2>4. ExecutedInv'
      BY <2>0, <1>0, <1>t, NothingRun DEF UnderWay
    <2>5. HistoryInv'
      BY <2>0, <1>0, HistoryKept DEF HistoryInv
    <2> QED BY <2>2, <2>3, <2>4, <2>5 DEF LoopInv
  <1>15. CASE UNCHANGED loopVars
    <2>0. UNCHANGED <<at, runs, replies, stream, call, messages, spent, executed>>
      BY <1>15 DEF loopVars
    <2>1. LoopTypeOK' /\ ReplyInv' /\ CallInv' /\ BilledOnce'
      BY <2>0, <1>0 DEF LoopTypeOK, ReplyInv, CallInv, BilledOnce, Code, Whole
    <2>2. ExecutedInv'
      BY <2>0, <1>0, <1>t, NothingRun DEF UnderWay
    <2>3. HistoryInv'
      BY <2>0, <1>0, HistoryKept DEF HistoryInv
    <2> QED BY <2>1, <2>2, <2>3 DEF LoopInv
  <1> QED BY <1>1, <1>2, <1>3, <1>4, <1>5, <1>6, <1>7, <1>8, <1>9, <1>10, <1>11, <1>12, <1>13, <1>14, <1>15
        DEF LoopNext

\* Whatever the connections, the output limit and deadlines do, the loop's invariant holds.
THEOREM LoopHolds == LoopSpec => []LoopInv
  <1> QED BY LoopBegins, LoopSteps, PTL DEF LoopSpec

\* For every number of requests, connections and runs: what the loop runs is the first
\* call of its reply, whole, over one connection; nothing received is replayed over, and
\* a call the output limit cut is made again (_stream_once, _open_stream, _handle_turn).
THEOREM TheModelsCallIsRun == LoopSpec => []CallIsTheModels
  <1>1. LoopInv => CallIsTheModels
    <2> SUFFICES ASSUME LoopInv PROVE CallIsTheModels
      OBVIOUS
    <2>1. LoopTypeOK /\ RunsTheFirstCallWhole
      BY DEF LoopInv, ExecutedInv
    <2>2. NothingReplayedOver
      BY DEF LoopInv, ReplyInv, NothingReplayedOver
    <2>3. CutCallsAreMadeAgain
      BY DEF LoopInv, CallInv, CutCallsAreMadeAgain, Code
    <2> QED BY <2>1, <2>2, <2>3 DEF CallIsTheModels
  <1> QED BY <1>1, LoopHolds, PTL

\* However replies were refused, cut short or cancelled before, a history sent to the
\* provider pairs each call with its own answer (_tool_wire).
THEOREM HistoryIsWellFormed == LoopSpec => []EveryCallAnswered
  <1>1. LoopInv => EveryCallAnswered
    <2> SUFFICES ASSUME LoopInv, at = "reading" PROVE EveryCallAnswered
      BY DEF EveryCallAnswered
    <2>1. messages \in Seq(Entries) /\ Paired(messages) /\ ~Dangling(messages)
      BY DEF LoopInv, LoopTypeOK, HistoryInv, Entries
    <2> QED BY <2>1, WirePaired DEF EveryCallAnswered
  <1> QED BY <1>1, LoopHolds, PTL

\* Every request the loop made is billed once, however it ended (_finalize_turn_usage).
THEOREM RequestsAreBilled == LoopSpec => []BilledOnce
  <1>1. LoopInv => BilledOnce
    BY DEF LoopInv
  <1> QED BY <1>1, LoopHolds, PTL

---------------------------------------------------------------------------
(* The evaluation of a case *)

\* The outputs of the first n turns of the conversation being held.
AskedBy(n) == UNION {Conversations[conv][t] : t \in 1..n}

\* Where the calls are: in the finished conversations and, while one is being held,
\* with its agent.
CallsInv ==
  /\ pc \in {"open", "over"} => paid = finished
  /\ pc \in {"turn", "run", "judge", "lost", "raised", "stopped"} => paid = finished + agentSpent
  /\ pc = "raised" => errorSpent = paid

\* Where the calls of a conversation are: in its recorded turns and the one running.
RecordInv ==
  /\ pc \in {"turn", "over"} => recorded = agentSpent
  /\ pc \in {"run", "judge"} => agentSpent = recorded + turnSpent
  /\ pc = "run" => before = agentSpent

\* The steps the next run may take and those the turn took make up the budget, and
\* only the run being judged may have executed code.
NudgeInv ==
  /\ turnSteps <= Budget
  /\ pc = "run" => maxSteps + turnSteps = Budget
  /\ pc = "run" => ~ranCode
  /\ pc = "judge" => ranCode = result.code

\* The runtime names the outputs of the turns begun; before a conversation's first
\* turn, those of that turn.
NamedInv ==
  /\ pc = "turn" => registered \cup Conversations[conv][turn] = AskedBy(turn)
  /\ pc \in {"run", "judge"} => registered = AskedBy(turn)
  /\ pc = "open" => turn = 1

Inv == TypeOK /\ CallsInv /\ RecordInv /\ NudgeInv /\ NamedInv

\* The case read as data: a conversation has a turn, and a turn is a set of outputs.
LEMMA CaseShape ==
  /\ Len(Conversations) \in Nat \ {0} /\ DOMAIN Conversations = 1..Len(Conversations)
  /\ \A c \in DOMAIN Conversations :
       /\ Len(Conversations[c]) \in Nat \ {0}
       /\ Turns(c) = 1..Len(Conversations[c])
       /\ \A t \in Turns(c) : Conversations[c][t] \in SUBSET Outputs
<1> DEFINE Asked == SUBSET Outputs
           Conversation == Seq(Asked) \ {<<>>}
<1>1. Conversations \in Seq(Conversation) /\ Conversations # <<>>
  BY CaseAssumption
<1>2. \A s \in Conversation : /\ Len(s) \in Nat \ {0}
                              /\ DOMAIN s = 1..Len(s)
                              /\ \A t \in DOMAIN s : s[t] \in Asked
  <2> HIDE DEF Asked
  <2> QED OBVIOUS
<1> HIDE DEF Asked, Conversation
<1>3. /\ Len(Conversations) \in Nat \ {0} /\ DOMAIN Conversations = 1..Len(Conversations)
      /\ \A c \in DOMAIN Conversations : Conversations[c] \in Conversation
  BY <1>1
<1> QED BY <1>2, <1>3 DEF Turns, Asked

\* What a run brings back is well formed.
LEMMA RunShape ==
  ASSUME NEW limit \in 1..Budget, NEW r \in Result(limit)
  PROVE  /\ r \in [steps: 1..Budget, resumed: 0..MaxResumed, code: BOOLEAN, stop: Stops]
         /\ r.steps \in 1..limit
         /\ Calls(r) \in Nat
BY BudgetAssumption DEF Result, Calls

LEMMA InitInv == Init => Inv
<1> SUFFICES ASSUME Init PROVE Inv
  OBVIOUS
<1>1. TypeOK
  <2>1. 1 \in DOMAIN Conversations /\ 1 \in Turns(1)
    BY CaseShape
  <2>2. Budget \in Nat \ {0} /\ MaxNudges \in Nat /\ MaxResumed \in Nat
    BY BudgetAssumption
  <2>3. result \in [steps: 1..Budget, resumed: 0..MaxResumed, code: BOOLEAN, stop: Stops]
    BY <2>2 DEF Init, Stops
  <2>4. ranCode \in BOOLEAN
    BY Zenon DEF Init
  <2>5. pc \in PCs /\ registered \subseteq Outputs /\ maxSteps \in 1..Budget /\ nudges \in 0..MaxNudges
    BY <2>2 DEF Init, PCs
  <2>6. /\ agentSpent \in Nat /\ before \in Nat /\ turnSteps \in Nat /\ turnSpent \in Nat
        /\ recorded \in Nat /\ finished \in Nat /\ errorSpent \in Nat
        /\ paid \in Nat
    BY DEF Init
  <2>7. conv \in DOMAIN Conversations /\ turn \in Turns(conv)
    BY <2>1 DEF Init
  <2> QED BY <2>3, <2>4, <2>5, <2>6, <2>7, Zenon DEF TypeOK
<1>2. CallsInv /\ RecordInv /\ NudgeInv /\ NamedInv
  BY BudgetAssumption DEF Init, CallsInv, RecordInv, NudgeInv, NamedInv
<1> QED BY <1>1, <1>2 DEF Inv

\* The outputs asked for up to a turn are those of the turns before and its own.
LEMMA AskedNext ==
  ASSUME NEW n \in Nat
  PROVE  AskedBy(n + 1) = AskedBy(n) \cup Conversations[conv][n + 1]
<1>1. 1..(n + 1) = (1..n) \cup {n + 1}
  OBVIOUS
<1> QED BY <1>1 DEF AskedBy

LEMMA AskedFirst == AskedBy(1) = Conversations[conv][1]
BY DEF AskedBy

LEMMA StepTypeOK == TypeOK /\ RecordInv /\ NudgeInv /\ [Next]_vars => TypeOK'
<1> SUFFICES ASSUME TypeOK, RecordInv, NudgeInv, [Next]_vars PROVE TypeOK'
  OBVIOUS
<1> USE BudgetAssumption DEF TypeOK, PCs, Verdict
<1>1. CASE OpenConversation
  <2>1. Conversations[conv][1] \subseteq Outputs
    BY CaseShape
  <2> QED BY <1>1, <2>1 DEF OpenConversation, FirstOutputs, record, history
<1>2. CASE BeginTurn
  <2>1. Conversations[conv][turn] \subseteq Outputs
    BY CaseShape
  <2>2. ranCode' \in BOOLEAN
    BY <1>2, Zenon DEF BeginTurn
  <2>3. /\ pc' \in PCs /\ registered' \subseteq Outputs /\ maxSteps' \in 1..Budget /\ nudges' \in 0..MaxNudges
        /\ before' \in Nat /\ turnSteps' \in Nat /\ turnSpent' \in Nat
        /\ UNCHANGED <<conv, turn, agentSpent, result, recorded, finished, errorSpent, paid>>
    BY <1>2, <2>1 DEF BeginTurn, counts
  <2> QED BY <2>2, <2>3
<1>3. CASE Defect
  BY <1>3 DEF Defect, place, agent, record, counts, history
<1>4. CASE RaiseInfrastructureError
  BY <1>4 DEF RaiseInfrastructureError, SpentSoFar, place, agent, record, history
<1>5. ASSUME NEW r \in Result(maxSteps), RunAgent(r) PROVE TypeOK'
  <2>1. /\ r \in [steps: 1..Budget, resumed: 0..MaxResumed, code: BOOLEAN, stop: Stops]
        /\ Calls(r) \in Nat /\ r.steps \in Nat
    BY RunShape
  <2>2. ranCode' \in BOOLEAN
    BY <1>5, Zenon DEF RunAgent
  <2>3. result' \in [steps: 1..Budget, resumed: 0..MaxResumed, code: BOOLEAN, stop: Stops]
    BY <1>5, <2>1 DEF RunAgent
  <2>4. /\ agentSpent' \in Nat /\ paid' \in Nat
        /\ UNCHANGED <<conv, turn, registered, maxSteps, before, nudges, recorded, finished, errorSpent>>
    BY <1>5, <2>1 DEF RunAgent, place, counts
  <2>5. pc' \in PCs /\ turnSteps' \in Nat /\ turnSpent' \in Nat
    BY <1>5, <2>1 DEF RunAgent, RecordInv
  <2> QED BY <2>2, <2>3, <2>4, <2>5
<1>6. ASSUME NEW v \in Verdict, Nudge(v) PROVE TypeOK'
  <2>1. RemainingSteps \in 1..Budget /\ nudges + 1 \in 0..MaxNudges
    BY <1>6 DEF Nudge, NeedsRepair, MissedTurn, RemainingSteps
  <2> QED BY <1>6, <2>1 DEF Nudge, SpentBefore, place, counts, history
<1>7. ASSUME NEW v \in Verdict, RecordTurn(v) PROVE TypeOK'
  <2>1. CASE turn < Len(Conversations[conv])
    <3>1. turn + 1 \in Turns(conv)
      BY <2>1, CaseShape
    <3> QED BY <1>7, <2>1, <3>1 DEF RecordTurn, agent, record, history
  <2>2. CASE ~(turn < Len(Conversations[conv]))
    <3>1. conv' \in DOMAIN Conversations
      BY <1>7, <2>2, CaseShape, SMTT(30) DEF RecordTurn
    <3>2. 1 \in Turns(conv')
      BY <3>1, CaseShape
    <3> QED BY <1>7, <2>2, <3>1, <3>2 DEF RecordTurn, agent, record, history
  <2> QED BY <2>1, <2>2
<1>8. CASE UNCHANGED vars
  BY <1>8 DEF vars, place, agent, record, counts, history
<1> QED BY <1>1, <1>2, <1>3, <1>4, <1>5, <1>6, <1>7, <1>8 DEF Next

\* No call is lost between the agent, the finished conversations and the error.
LEMMA StepCallsInv == TypeOK /\ CallsInv /\ RecordInv /\ [Next]_vars => CallsInv'
<1> SUFFICES ASSUME TypeOK, CallsInv, RecordInv, [Next]_vars PROVE CallsInv'
  OBVIOUS
<1> USE DEF TypeOK, CallsInv
<1>1. CASE OpenConversation
  BY <1>1 DEF OpenConversation, history
<1>2. CASE BeginTurn
  BY <1>2 DEF BeginTurn, counts
<1>3. CASE Defect
  BY <1>3 DEF Defect, agent, counts, history
<1>4. CASE RaiseInfrastructureError
  BY <1>4 DEF RaiseInfrastructureError, SpentSoFar, agent, history
<1>5. ASSUME NEW r \in Result(maxSteps), RunAgent(r) PROVE CallsInv'
  <2>1. Calls(r) \in Nat
    BY RunShape
  <2>2. /\ pc = "run" /\ pc' \in {"lost", "judge"}
        /\ agentSpent' = agentSpent + Calls(r) /\ paid' = paid + Calls(r)
        /\ finished' = finished
    BY <1>5 DEF RunAgent, counts
  <2> QED BY <2>1, <2>2
<1>6. ASSUME NEW v \in Verdict, Nudge(v) PROVE CallsInv'
  BY <1>6 DEF Nudge, counts, history
<1>7. ASSUME NEW v \in Verdict, RecordTurn(v) PROVE CallsInv'
  <2>1. CASE turn < Len(Conversations[conv])
    BY <1>7, <2>1 DEF RecordTurn, agent, history
  <2>2. CASE ~(turn < Len(Conversations[conv]))
    <3>1. pc' \in {"open", "over"} /\ finished' = finished + agentSpent /\ paid' = paid
      BY <1>7, <2>2 DEF RecordTurn, history
    <3> QED BY <1>7, <3>1 DEF RecordTurn
  <2> QED BY <2>1, <2>2
<1>8. CASE UNCHANGED vars
  BY <1>8 DEF vars, agent, counts, history
<1> QED BY <1>1, <1>2, <1>3, <1>4, <1>5, <1>6, <1>7, <1>8 DEF Next

\* What a turn records is what its agent spent since the record before.
LEMMA StepRecordInv == TypeOK /\ RecordInv /\ [Next]_vars => RecordInv'
<1> SUFFICES ASSUME TypeOK, RecordInv, [Next]_vars PROVE RecordInv'
  OBVIOUS
<1> USE DEF TypeOK, RecordInv
<1>1. CASE OpenConversation
  BY <1>1 DEF OpenConversation
<1>2. CASE BeginTurn
  BY <1>2 DEF BeginTurn, counts
<1>3. CASE Defect
  BY <1>3 DEF Defect
<1>4. CASE RaiseInfrastructureError
  BY <1>4 DEF RaiseInfrastructureError
<1>5. ASSUME NEW r \in Result(maxSteps), RunAgent(r) PROVE RecordInv'
  <2>1. Calls(r) \in Nat
    BY RunShape
  <2>2. /\ pc = "run" /\ agentSpent' = agentSpent + Calls(r) /\ recorded' = recorded
        /\ pc' = "lost" \/ (pc' = "judge" /\ turnSpent' = turnSpent + agentSpent' - before)
    BY <1>5 DEF RunAgent, counts
  <2> QED BY <2>1, <2>2
<1>6. ASSUME NEW v \in Verdict, Nudge(v) PROVE RecordInv'
  BY <1>6 DEF Nudge, SpentBefore, counts
<1>7. ASSUME NEW v \in Verdict, RecordTurn(v) PROVE RecordInv'
  <2>1. /\ pc = "judge" /\ recorded' = recorded + turnSpent /\ agentSpent' = agentSpent
        /\ pc' \in {"turn", "open", "over"}
    BY <1>7 DEF RecordTurn, agent
  <2> QED BY <2>1
<1>8. CASE UNCHANGED vars
  BY <1>8 DEF vars, agent, record, counts
<1> QED BY <1>1, <1>2, <1>3, <1>4, <1>5, <1>6, <1>7, <1>8 DEF Next

\* A nudge follows a run without code and takes what is left of the budget.
LEMMA StepNudgeInv == TypeOK /\ NudgeInv /\ [Next]_vars => NudgeInv'
<1> SUFFICES ASSUME TypeOK, NudgeInv, [Next]_vars PROVE NudgeInv'
  OBVIOUS
<1> USE BudgetAssumption DEF TypeOK, NudgeInv
<1>1. CASE OpenConversation
  BY <1>1 DEF OpenConversation, record
<1>2. CASE BeginTurn
  BY <1>2 DEF BeginTurn
<1>3. CASE Defect
  BY <1>3 DEF Defect, record
<1>4. CASE RaiseInfrastructureError
  BY <1>4 DEF RaiseInfrastructureError, record
<1>5. ASSUME NEW r \in Result(maxSteps), RunAgent(r) PROVE NudgeInv'
  <2>1. r.steps \in 1..maxSteps /\ maxSteps + turnSteps = Budget
    BY <1>5, RunShape DEF RunAgent
  <2>2. ~ranCode /\ ranCode' = (ranCode \/ r.code) /\ result' = r
    BY <1>5 DEF RunAgent
  <2>3. ranCode' = result'.code
    <3>1. r.code \in BOOLEAN
      BY RunShape
    <3> QED BY <2>2, <3>1, Zenon
  <2>4. pc' \in {"lost", "judge"} /\ turnSteps' \in {turnSteps, turnSteps + r.steps}
    BY <1>5 DEF RunAgent
  <2>5. turnSteps' <= Budget
    BY <2>1, <2>4
  <2> QED BY <2>3, <2>4, <2>5
<1>6. ASSUME NEW v \in Verdict, Nudge(v) PROVE NudgeInv'
  <2>1. pc = "judge" /\ ~result.code /\ ranCode' = ranCode
    BY <1>6 DEF Nudge, NeedsRepair, MissedTurn, history
  <2>2. ~ranCode'
    BY <2>1
  <2>3. turnSteps' = turnSteps /\ maxSteps' = Budget - turnSteps /\ pc' = "run"
    BY <1>6 DEF Nudge, RemainingSteps
  <2> QED BY <2>2, <2>3
<1>7. ASSUME NEW v \in Verdict, RecordTurn(v) PROVE NudgeInv'
  <2>1. turnSteps' = turnSteps /\ pc' \in {"turn", "open", "over"}
    BY <1>7 DEF RecordTurn, record
  <2> QED BY <2>1
<1>8. CASE UNCHANGED vars
  BY <1>8 DEF vars, agent, record, history
<1> QED BY <1>1, <1>2, <1>3, <1>4, <1>5, <1>6, <1>7, <1>8 DEF Next

\* Outputs are added to those of the turns before when their turn begins.
LEMMA StepNamedInv == TypeOK /\ NamedInv /\ [Next]_vars => NamedInv'
<1> SUFFICES ASSUME TypeOK, NamedInv, [Next]_vars PROVE NamedInv'
  OBVIOUS
<1> USE DEF TypeOK
<1> DEFINE Same == conv' = conv /\ turn' = turn /\ registered' = registered
<1>0. conv' = conv => \A n : AskedBy(n)' = AskedBy(n)
  BY DEF AskedBy
<1>1. CASE OpenConversation
  <2>1. /\ pc' = "turn" /\ conv' = conv /\ turn' = 1
        /\ registered' = Conversations[conv][1]
    BY <1>1 DEF OpenConversation, FirstOutputs, NamedInv
  <2> QED BY <2>1, <1>0, AskedFirst DEF NamedInv
<1>2. CASE BeginTurn
  <2>1. /\ pc' = "run" /\ conv' = conv /\ turn' = turn
        /\ registered' = AskedBy(turn)
    BY <1>2 DEF BeginTurn, NamedInv
  <2> QED BY <2>1, <1>0 DEF NamedInv
<1>3. CASE Defect
  BY <1>3 DEF Defect, NamedInv
<1>4. CASE RaiseInfrastructureError
  BY <1>4 DEF RaiseInfrastructureError, NamedInv
<1>5. ASSUME NEW r \in Result(maxSteps), RunAgent(r) PROVE NamedInv'
  <2>1. Same /\ pc = "run" /\ pc' \in {"lost", "judge"}
    BY <1>5 DEF RunAgent, place
  <2> QED BY <2>1, <1>0 DEF NamedInv
<1>6. ASSUME NEW v \in Verdict, Nudge(v) PROVE NamedInv'
  <2>1. Same /\ pc = "judge" /\ pc' = "run"
    BY <1>6 DEF Nudge, place
  <2> QED BY <2>1, <1>0 DEF NamedInv
<1>7. ASSUME NEW v \in Verdict, RecordTurn(v) PROVE NamedInv'
  <2>1. CASE turn < Len(Conversations[conv])
    <3>1. /\ pc = "judge" /\ pc' = "turn" /\ conv' = conv /\ turn' = turn + 1
          /\ registered' = registered
      BY <1>7, <2>1 DEF RecordTurn
    <3>2. turn \in Nat
      BY CaseShape
    <3> QED BY <3>1, <3>2, <1>0, AskedNext DEF NamedInv
  <2>2. CASE ~(turn < Len(Conversations[conv]))
    BY <1>7, <2>2 DEF RecordTurn, NamedInv
  <2> QED BY <2>1, <2>2
<1>8. CASE UNCHANGED vars
  <2>1. Same /\ pc' = pc
    BY <1>8 DEF vars, place
  <2> QED BY <2>1, <1>0 DEF NamedInv
<1> QED BY <1>1, <1>2, <1>3, <1>4, <1>5, <1>6, <1>7, <1>8 DEF Next

\* The inductive invariant holds in every state of the evaluation.
LEMMA Invariance == Spec => []Inv
<1>1. Inv /\ [Next]_vars => Inv'
  BY StepTypeOK, StepCallsInv, StepRecordInv, StepNudgeInv, StepNamedInv DEF Inv
<1> QED BY InitInv, <1>1, PTL DEF Spec

\* The state is well formed, and the agent is never run with no steps to take
\* (evaluate_turn's max_steps and remaining_steps).
THEOREM TypeCorrect == Spec => []TypeOK
<1>1. Inv => TypeOK
  BY DEF Inv
<1> QED BY Invariance, <1>1, PTL

\* What a case and the error of a lost attempt say was spent is what was spent
\* (_evaluate_conversation's and evaluate_case's except clauses).
THEOREM CallsAreCounted == Spec => []EveryCallCounted
<1>1. Inv => EveryCallCounted
  BY DEF Inv, CallsInv, EveryCallCounted
<1> QED BY Invariance, <1>1, PTL

\* The turns of a conversation share out what its agent spent
\* (evaluate_turn's spent_before).
THEOREM TurnsShareTheCalls == Spec => []RecordsAddUp
<1>1. Inv => RecordsAddUp
  BY DEF Inv, RecordInv, RecordsAddUp
<1> QED BY Invariance, <1>1, PTL

\* A turn with its nudges keeps to the budget of the turn (remaining_steps).
THEOREM NudgesKeepToTheBudget == Spec => []TurnWithinBudget
<1>1. Inv => TurnWithinBudget
  BY DEF Inv, NudgeInv, TurnWithinBudget
<1> QED BY Invariance, <1>1, PTL

\* No answer is given a second try (_needs_protocol_repair).
THEOREM NoAnswerIsNudged == Spec => []OnlyMissedTurnsNudged
<1>1. Inv => OnlyMissedTurnsNudged
  BY DEF Inv, NudgeInv, OnlyMissedTurnsNudged
<1> QED BY Invariance, <1>1, PTL

\* The runtime names the outputs asked for so far and no other
\* (_evaluate_conversation's registered).
THEOREM NamedInTime == Spec => []NamedWhenAsked
<1>1. Inv => NamedWhenAsked
  BY DEF Inv, NamedInv, NamedWhenAsked, AskedBy
<1> QED BY Invariance, <1>1, PTL

\* What a study pays is what its records, its finished conversations and the errors
\* of its lost attempts say (evaluate_turn, evaluate_case).
THEOREM NoCallLost == Spec => []CallsCounted
<1>1. Inv => CallsCounted
  BY DEF Inv, CallsInv, RecordInv, EveryCallCounted, RecordsAddUp, CallsCounted
<1> QED BY Invariance, <1>1, PTL

\* However often a turn is asked, it keeps to one budget, gives no answer a second
\* try and is told of no later turn (evaluate_turn, _evaluate_conversation).
THEOREM TurnsAreAskedFairly == Spec => []AskedFairly
<1>1. Inv => AskedFairly
  BY DEF Inv, NudgeInv, NamedInv, AskedBy, TurnWithinBudget, OnlyMissedTurnsNudged,
         NamedWhenAsked, AskedFairly
<1> QED BY Invariance, <1>1, PTL

---------------------------------------------------------------------------
(* Recursion over a sequence, as a loop runs it *)

\* Induction over the naturals, as a fact about sets.
LEMMA NaturalSets ==
  ASSUME NEW S, 0 \in S, \A k \in Nat : k \in S => k + 1 \in S
  PROVE  Nat \subseteq S
<1> DEFINE Less == {p \in Nat \X Nat : p[1] < p[2]}
           T == Nat \ S
<1>1. IsWellFoundedOn(Less, Nat)
  BY NatLessThanWellFounded DEF OpToRel
<1>2. \A k, l \in Nat : <<k, l>> \in Less <=> k < l
  OBVIOUS
<1> HIDE DEF Less
<1> SUFFICES ASSUME T # {} PROVE FALSE
  OBVIOUS
<1>3. PICK k \in T : \A l \in T : ~(<<l, k>> \in Less)
  BY <1>1, WFMin
<1>4. k \in Nat \ {0} /\ k - 1 \in Nat /\ k - 1 < k /\ (k - 1) + 1 = k
  BY <1>3
<1>5. k - 1 \in S
  BY <1>2, <1>3, <1>4
<1> QED BY <1>3, <1>4, <1>5

\* A set of numbers that is not empty has a least.
LEMMA Least ==
  ASSUME NEW S, S \subseteq Nat, S # {}
  PROVE  \E i \in S : \A j \in S : i <= j
<1> DEFINE Less == {p \in Nat \X Nat : p[1] < p[2]}
<1>1. IsWellFoundedOn(Less, Nat)
  BY NatLessThanWellFounded DEF OpToRel
<1>2. \A k, l \in Nat : <<k, l>> \in Less <=> k < l
  OBVIOUS
<1> HIDE DEF Less
<1>3. PICK i \in S : \A j \in S : ~(<<j, i>> \in Less)
  BY <1>1, WFMin
<1>4. ASSUME NEW j \in S PROVE i <= j
  <2>1. i \in Nat /\ j \in Nat /\ ~(j < i)
    BY <1>2, <1>3
  <2> QED BY <2>1
<1> QED BY <1>4

(* f starts from x and is taken on by the steps of g. *)
Chained(f, x, g, n) == f[0] = x /\ \A i \in 1..n : f[i] = g[i][f[i - 1]]

LEMMA SomeChain ==
  ASSUME NEW S, NEW x \in S, NEW n \in Nat, NEW g \in [1..n -> [S -> S]]
  PROVE  \E f \in [0..n -> S] : Chained(f, x, g, n)
<1> DEFINE P == {k \in Nat : k <= n => \E f \in [0..k -> S] : Chained(f, x, g, k)}
<1>1. 0 \in P
  <2> DEFINE f == [i \in 0..0 |-> x]
  <2>1. f \in [0..0 -> S] /\ f[0] = x
    OBVIOUS
  <2>2. Chained(f, x, g, 0)
    BY <2>1 DEF Chained
  <2> QED BY <2>1, <2>2
<1>2. ASSUME NEW k \in Nat, k \in P PROVE k + 1 \in P
  <2> SUFFICES ASSUME k + 1 <= n PROVE \E f \in [0..k + 1 -> S] : Chained(f, x, g, k + 1)
    OBVIOUS
  <2>1. PICK f \in [0..k -> S] : Chained(f, x, g, k)
    BY <1>2
  <2> DEFINE h == [i \in 0..k + 1 |-> IF i = k + 1 THEN g[k + 1][f[k]] ELSE f[i]]
  <2>2. g[k + 1] \in [S -> S] /\ f[k] \in S
    OBVIOUS
  <2>3. g[k + 1][f[k]] \in S
    BY <2>2
  <2>4. h \in [0..k + 1 -> S]
    <3>1. \A i \in 0..k + 1 : i # k + 1 => i \in 0..k
      OBVIOUS
    <3> QED BY <2>3, <3>1
  <2>5. h[0] = x
    BY <2>1 DEF Chained
  <2>6. ASSUME NEW i \in 1..k + 1 PROVE h[i] = g[i][h[i - 1]]
    <3>1. i - 1 \in 0..k + 1 /\ i - 1 # k + 1 /\ i \in 0..k + 1
      OBVIOUS
    <3>2. h[i - 1] = f[i - 1]
      BY <3>1
    <3>3. CASE i = k + 1
      <4>1. i - 1 = k
        BY <3>3
      <4> QED BY <3>1, <3>2, <3>3, <4>1
    <3>4. CASE i # k + 1
      <4>1. i \in 1..k
        BY <3>4
      <4>2. h[i] = f[i]
        BY <3>1, <3>4
      <4> QED BY <2>1, <3>2, <4>1, <4>2 DEF Chained
    <3> QED BY <3>3, <3>4
  <2> HIDE DEF h
  <2>7. Chained(h, x, g, k + 1)
    BY <2>5, <2>6 DEF Chained
  <2> QED BY <2>4, <2>7
<1>3. Nat \subseteq P
  <2> HIDE DEF P
  <2> QED BY <1>1, <1>2, NaturalSets
<1> QED BY <1>3

---------------------------------------------------------------------------
(* Replies *)

LEMMA JoinedTyped ==
  ASSUME NEW S, NEW s \in Seq(Seq(S))
  PROVE  FlattenSeq(s) \in Seq(S)
<1>0. Len(s) \in Nat /\ \A i \in 1..Len(s) : s[i] \in Seq(S)
  OBVIOUS
<1>1. CASE Len(s) = 0
  <2>1. s = <<>> /\ FlattenSeq(s) = s
    BY <1>1 DEF FlattenSeq
  <2> QED BY <2>1, EmptySeq
<1>2. CASE Len(s) # 0
  <2> DEFINE Joins(f) == f = [i \in 1..Len(s) |-> IF i = 1 THEN s[i] ELSE f[i - 1] \o s[i]]
             g == [i \in 1..Len(s) |-> [t \in Seq(S) |-> t \o s[i]]]
  <2>1. FlattenSeq(s) = (CHOOSE f : Joins(f))[Len(s)]
    BY <1>2, Zenon DEF FlattenSeq
  <2>2. g \in [1..Len(s) -> [Seq(S) -> Seq(S)]]
    BY <1>0, ConcatProperties
  <2>3. <<>> \in Seq(S)
    BY EmptySeq
  <2>4. \A i \in 1..Len(s), t \in Seq(S) : g[i][t] = t \o s[i]
    OBVIOUS
  <2> HIDE DEF g
  <2>5. PICK f \in [0..Len(s) -> Seq(S)] : Chained(f, <<>>, g, Len(s))
    BY <1>0, <2>2, <2>3, SomeChain
  <2> DEFINE h == [i \in 1..Len(s) |-> f[i]]
  <2>6. ASSUME NEW i \in 1..Len(s) PROVE h[i] = IF i = 1 THEN s[i] ELSE h[i - 1] \o s[i]
    <3>1. f[i - 1] \in Seq(S)
      <4>1. i - 1 \in 0..Len(s)
        BY <1>0
      <4> QED BY <4>1
    <3>2. f[i] = f[i - 1] \o s[i]
      <4>1. f[i] = g[i][f[i - 1]]
        BY <2>5, Zenon DEF Chained
      <4> QED BY <2>4, <3>1, <4>1, Zenon
    <3>3. CASE i = 1
      <4>1. f[i - 1] = <<>>
        BY <2>5, <3>3 DEF Chained
      <4>2. <<>> \o s[i] = s[i]
        BY <1>0, ConcatEmptySeq
      <4> QED BY <3>2, <3>3, <4>1, <4>2
    <3>4. CASE i # 1
      <4>1. i - 1 \in 1..Len(s)
        BY <1>0, <3>4
      <4> QED BY <3>2, <3>4, <4>1
    <3> QED BY <3>3, <3>4
  <2>7. Joins(h)
    <3>1. h = [i \in 1..Len(s) |-> h[i]]
      OBVIOUS
    <3> HIDE DEF h
    <3> QED BY <2>6, <3>1
  <2> DEFINE c == CHOOSE e : Joins(e)
  <2>8. Joins(c) /\ FlattenSeq(s) = c[Len(s)]
    BY <2>1, <2>7, Zenon
  <2> HIDE DEF h
  <2> HIDE DEF c
  <2> DEFINE P == {k \in Nat : k + 1 <= Len(s) => c[k + 1] \in Seq(S)}
  <2>9. \A i \in 1..Len(s) : c[i] = IF i = 1 THEN s[i] ELSE c[i - 1] \o s[i]
    BY <2>8
  <2>10. 0 \in P
    <3>1. 1 \in 1..Len(s) /\ s[1] \in Seq(S)
      BY <1>0, <1>2
    <3>2. c[1] = s[1]
      BY <2>9, <3>1
    <3>3. c[0 + 1] \in Seq(S)
      BY <3>1, <3>2
    <3> QED BY <3>3
  <2>11. ASSUME NEW k \in Nat, k \in P PROVE k + 1 \in P
    <3> SUFFICES ASSUME k + 2 <= Len(s) PROVE c[k + 2] \in Seq(S)
      OBVIOUS
    <3>1. c[k + 1] \in Seq(S) /\ k + 2 \in 1..Len(s) /\ k + 2 # 1 /\ (k + 2) - 1 = k + 1 /\ s[k + 2] \in Seq(S)
      BY <1>0, <2>11
    <3>2. c[k + 2] = c[k + 1] \o s[k + 2]
      BY <2>9, <3>1
    <3> QED BY <3>1, <3>2, ConcatProperties
  <2>12. Nat \subseteq P
    <3> HIDE DEF P
    <3> QED BY <2>10, <2>11, NaturalSets
  <2>13. PICK k \in Nat : k + 1 = Len(s)
    <3>1. Len(s) - 1 \in Nat /\ (Len(s) - 1) + 1 = Len(s)
      BY <1>0, <1>2
    <3> QED BY <3>1
  <2>14. c[k + 1] \in Seq(S)
    BY <2>12, <2>13
  <2> QED BY <2>8, <2>13, <2>14
<1> QED BY <1>1, <1>2

\* What a model writes is a text.
LEMMA RepliesAreTexts == Replies \subseteq Seq(Symbols)
<1> SUFFICES ASSUME NEW blocks \in BoundedSeq(Blocks, MaxBlocks) PROVE FlattenSeq(blocks) \in Seq(Symbols)
  BY Zenon DEF Replies
<1>1. PICK m \in 0..MaxBlocks : blocks \in [1..m -> Blocks]
  BY DEF BoundedSeq, SeqOf
<1>2. m \in Nat /\ blocks \in Seq(Blocks)
  BY <1>1, BlocksAssumption
<1>3. blocks \in Seq(Seq(Symbols))
  BY <1>2, BlocksAssumption, SeqMonotonic
<1> QED BY <1>3, JoinedTyped

---------------------------------------------------------------------------
(* The parser *)

LEMMA FeedTyped ==
  ASSUME NEW s
  PROVE  Feed(s) \in [Parser -> Parser]
<1> SUFFICES ASSUME NEW p \in Parser PROVE Feed(s)[p] \in Parser
  BY Zenon DEF Feed
<1>1. p.mode \in {"text", "code", "string"} /\ p.line \in 0..5
  BY DEF Parser, Other
<1>2. LineAfter(p.line, s) \in 0..5
  BY <1>1 DEF LineAfter, Named, Other
<1> QED BY <1>1, <1>2 DEF Feed, Parser, Other

(* What Observe chooses: the parser after each symbol. *)
Seen(f, p, said) == f = [n \in 0..Len(said) |-> IF n = 0 THEN p ELSE Feed(said[n])[f[n - 1]]]

LEMMA Watched ==
  ASSUME NEW p \in Parser, NEW said \in Seq(Symbols)
  PROVE  \E f \in [0..Len(said) -> Parser] :
           Seen(f, p, said) /\ Observe(p, said) = f[Len(said)]
<1> DEFINE N == Len(said)
           g == [i \in 1..N |-> Feed(said[i])]
           c == CHOOSE f : Seen(f, p, said)
<1>0. N \in Nat
  OBVIOUS
<1>1. Observe(p, said) = c[N]
  BY Zenon DEF Observe, Seen
<1>2. g \in [1..N -> [Parser -> Parser]]
  BY FeedTyped
<1>3. \A i \in 1..N : g[i] = Feed(said[i])
  OBVIOUS
<1> HIDE DEF N, g
<1>4. PICK f \in [0..N -> Parser] : Chained(f, p, g, N)
  BY <1>0, <1>2, SomeChain
<1>5. Seen(f, p, said)
  <2>1. f = [n \in 0..N |-> f[n]]
    OBVIOUS
  <2>2. ASSUME NEW n \in 0..N PROVE f[n] = IF n = 0 THEN p ELSE Feed(said[n])[f[n - 1]]
    <3>1. n # 0 => n \in 1..N
      BY <1>0
    <3> QED BY <1>3, <1>4, <3>1 DEF Chained
  <2> QED BY <2>1, <2>2 DEF Seen, N
<1>6. Seen(c, p, said)
  BY <1>5, Zenon
<1> HIDE DEF c
<1>7. /\ c = [n \in 0..N |-> c[n]]
      /\ \A n \in 0..N : c[n] = IF n = 0 THEN p ELSE Feed(said[n])[c[n - 1]]
  BY <1>6 DEF Seen, N
<1> DEFINE P == {k \in Nat : k <= N => c[k] \in Parser}
<1>8. 0 \in P
  BY <1>0, <1>7
<1>9. ASSUME NEW k \in Nat, k \in P PROVE k + 1 \in P
  <2> SUFFICES ASSUME k + 1 <= N PROVE c[k + 1] \in Parser
    OBVIOUS
  <2>1. c[k] \in Parser /\ k + 1 \in 0..N /\ k + 1 # 0 /\ (k + 1) - 1 = k
    BY <1>0, <1>9
  <2>2. c[k + 1] = Feed(said[k + 1])[c[k]]
    BY <1>7, <2>1
  <2> QED BY <2>1, <2>2, FeedTyped
<1>10. Nat \subseteq P
  <2> HIDE DEF P
  <2> QED BY <1>8, <1>9, NaturalSets
<1>11. \A n \in 0..N : c[n] \in Parser
  BY <1>0, <1>10
<1>12. c \in [0..N -> Parser]
  BY <1>7, <1>11
<1> QED BY <1>1, <1>6, <1>12 DEF N

LEMMA ObserveTyped ==
  ASSUME NEW p \in Parser, NEW said \in Seq(Symbols)
  PROVE  Observe(p, said) \in Parser
<1>1. Len(said) \in 0..Len(said)
  OBVIOUS
<1> QED BY <1>1, Watched

LEMMA ObserveNothing ==
  ASSUME NEW p \in Parser
  PROVE  Observe(p, <<>>) = p
<1>1. <<>> \in Seq(Symbols) /\ Len(<<>>) = 0
  OBVIOUS
<1>2. PICK f : Seen(f, p, <<>>) /\ Observe(p, <<>>) = f[Len(<<>>)]
  BY <1>1, Watched
<1> QED BY <1>1, <1>2 DEF Seen

\* One symbol more is one step more.
LEMMA ObserveAppend ==
  ASSUME NEW p \in Parser, NEW said \in Seq(Symbols), NEW s \in Symbols
  PROVE  Observe(p, Append(said, s)) = Feed(s)[Observe(p, said)]
<1> DEFINE N == Len(said)
           more == Append(said, s)
<1>1. /\ more \in Seq(Symbols) /\ Len(more) = N + 1 /\ N \in Nat
      /\ \A i \in 1..N : more[i] = said[i]
      /\ more[N + 1] = s
  OBVIOUS
<1> HIDE DEF more
<1>2. PICK f \in [0..N -> Parser] : Seen(f, p, said) /\ Observe(p, said) = f[N]
  BY Watched
<1>3. PICK h \in [0..N + 1 -> Parser] : Seen(h, p, more) /\ Observe(p, more) = h[N + 1]
  BY <1>1, Watched
<1>4. /\ \A n \in 0..N : f[n] = IF n = 0 THEN p ELSE Feed(said[n])[f[n - 1]]
      /\ \A n \in 0..N + 1 : h[n] = IF n = 0 THEN p ELSE Feed(more[n])[h[n - 1]]
  BY <1>1, <1>2, <1>3 DEF Seen
<1> HIDE DEF N
<1> DEFINE P == {k \in Nat : k <= N => h[k] = f[k]}
<1>5. 0 \in P
  BY <1>1, <1>4
<1>6. ASSUME NEW k \in Nat, k \in P PROVE k + 1 \in P
  <2> SUFFICES ASSUME k + 1 <= N PROVE h[k + 1] = f[k + 1]
    OBVIOUS
  <2>1. /\ h[k] = f[k] /\ k + 1 \in 0..N /\ k + 1 \in 0..N + 1 /\ k + 1 # 0 /\ (k + 1) - 1 = k
        /\ more[k + 1] = said[k + 1]
    BY <1>1, <1>6
  <2> QED BY <1>4, <2>1
<1>7. Nat \subseteq P
  <2> HIDE DEF P
  <2> QED BY <1>5, <1>6, NaturalSets
<1>8. h[N] = f[N]
  BY <1>1, <1>7
<1>9. h[N + 1] = Feed(s)[h[N]]
  <2>1. N + 1 \in 0..N + 1 /\ N + 1 # 0 /\ (N + 1) - 1 = N
    BY <1>1
  <2> QED BY <1>1, <1>4, <2>1
<1> QED BY <1>2, <1>3, <1>8, <1>9 DEF more

\* A text in two parts is watched in two parts.
LEMMA ObserveConcat ==
  ASSUME NEW p \in Parser, NEW s \in Seq(Symbols), NEW t \in Seq(Symbols)
  PROVE  Observe(p, s \o t) = Observe(Observe(p, s), t)
<1> DEFINE P == {n \in Nat : \A u \in Seq(Symbols) :
                   Len(u) = n => Observe(p, s \o u) = Observe(Observe(p, s), u)}
<1>0. Observe(p, s) \in Parser
  BY ObserveTyped
<1>1. 0 \in P
  <2> SUFFICES ASSUME NEW u \in Seq(Symbols), Len(u) = 0
               PROVE  Observe(p, s \o u) = Observe(Observe(p, s), u)
    OBVIOUS
  <2>1. u = <<>>
    OBVIOUS
  <2>2. s \o <<>> = s
    BY ConcatEmptySeq
  <2> QED BY <1>0, <2>1, <2>2, ObserveNothing
<1>2. ASSUME NEW n \in Nat, n \in P PROVE n + 1 \in P
  <2> SUFFICES ASSUME NEW u \in Seq(Symbols), Len(u) = n + 1
               PROVE  Observe(p, s \o u) = Observe(Observe(p, s), u)
    OBVIOUS
  <2> DEFINE v == SubSeq(u, 1, n)
             x == u[n + 1]
  <2>1. v \in Seq(Symbols) /\ Len(v) = n /\ x \in Symbols /\ u = Append(v, x)
    OBVIOUS
  <2> HIDE DEF v, x
  <2>2. s \o Append(v, x) = Append(s \o v, x) /\ s \o v \in Seq(Symbols)
    BY <2>1
  <2>3. Observe(p, s \o v) = Observe(Observe(p, s), v)
    BY <1>2, <2>1
  <2>4. Observe(p, Append(s \o v, x)) = Feed(x)[Observe(p, s \o v)]
    BY <2>1, <2>2, ObserveAppend
  <2>5. Observe(Observe(p, s), Append(v, x)) = Feed(x)[Observe(Observe(p, s), v)]
    BY <1>0, <2>1, ObserveAppend
  <2> QED BY <2>1, <2>2, <2>3, <2>4, <2>5
<1>3. Nat \subseteq P
  <2> HIDE DEF P
  <2> QED BY <1>1, <1>2, NaturalSets
<1>4. Len(t) \in Nat
  OBVIOUS
<1> QED BY <1>3, <1>4
---------------------------------------------------------------------------
(* Where things are in a text *)

LEMMA FirstOfFinds ==
  ASSUME NEW said \in Seq(Symbols), NEW part \in Seq(Symbols), Len(part) > 0
  PROVE  /\ FirstOf(said, part) \in 0..Len(said)
         /\ FirstOf(said, part) # 0 =>
              /\ FirstOf(said, part) + Len(part) - 1 <= Len(said)
              /\ SubSeq(said, FirstOf(said, part), FirstOf(said, part) + Len(part) - 1) = part
         /\ FirstOf(said, part) = 0 =>
              \A i \in 1..Len(said) - Len(part) + 1 : SubSeq(said, i, i + Len(part) - 1) # part
<1> DEFINE hits == {i \in 1..(Len(said) - Len(part) + 1) : SubSeq(said, i, i + Len(part) - 1) = part}
           first == CHOOSE i \in hits : \A j \in hits : i <= j
<1>0. Len(said) \in Nat /\ Len(part) \in Nat
  OBVIOUS
<1>1. FirstOf(said, part) = IF hits = {} THEN 0 ELSE first
  BY Zenon DEF FirstOf
<1>2. CASE hits = {}
  <2>1. FirstOf(said, part) = 0
    BY <1>1, <1>2
  <2>2. \A i \in 1..Len(said) - Len(part) + 1 : SubSeq(said, i, i + Len(part) - 1) # part
    BY <1>2
  <2>3. 0 \in 0..Len(said)
    BY <1>0
  <2> HIDE DEF hits, first
  <2> QED BY Zenon, <2>1, <2>2, <2>3
<1>3. CASE hits # {}
  <2>1. hits \subseteq Nat
    BY <1>0
  <2>2. \E i \in hits : \A j \in hits : i <= j
    <3> HIDE DEF hits
    <3> QED BY <1>3, <2>1, Least
  <2>3. first \in hits
    BY <2>2, Zenon
  <2>4. FirstOf(said, part) = first
    BY <1>1, <1>3
  <2> HIDE DEF first
  <2>5. first \in 1..Len(said) - Len(part) + 1 /\ SubSeq(said, first, first + Len(part) - 1) = part
    BY <2>3
  <2> QED BY <1>0, <2>4, <2>5
<1> QED BY <1>2, <1>3

\* A part of a text is a text.
LEMMA PartsAreTexts ==
  ASSUME NEW said \in Seq(Symbols), NEW i \in Nat \ {0}, NEW n \in Int, n <= Len(said)
  PROVE  /\ SubSeq(said, i, n) \in Seq(Symbols)
         /\ Len(SubSeq(said, i, n)) = IF i <= n THEN n - i + 1 ELSE 0
         /\ \A k \in 1..n - i + 1 : SubSeq(said, i, n)[k] = said[i + k - 1]
<1>1. \A k \in i..n : said[k] \in Symbols
  OBVIOUS
<1> QED BY <1>1, SubSeqProperties

LEMMA RestIsText ==
  ASSUME NEW said \in Seq(Symbols), NEW i \in 1..Len(said) + 1
  PROVE  /\ From(said, i) \in Seq(Symbols) /\ Len(From(said, i)) = Len(said) - i + 1
         /\ \A k \in 1..Len(said) - i + 1 : From(said, i)[k] = said[i + k - 1]
<1>1. Len(said) \in Nat /\ i \in Nat \ {0}
  OBVIOUS
<1>2. /\ SubSeq(said, i, Len(said)) \in Seq(Symbols)
      /\ Len(SubSeq(said, i, Len(said))) = IF i <= Len(said) THEN Len(said) - i + 1 ELSE 0
      /\ \A k \in 1..Len(said) - i + 1 : SubSeq(said, i, Len(said))[k] = said[i + k - 1]
  BY <1>1, PartsAreTexts
<1>3. Len(SubSeq(said, i, Len(said))) = Len(said) - i + 1
  BY <1>1, <1>2
<1> QED BY <1>2, <1>3 DEF From

\* A text that is not blank has something that is.
LEMMA StrippedIsThere ==
  ASSUME NEW said \in Seq(Symbols), ~Blank(said)
  PROVE  \E i \in 1..Len(said) :
           Stripped(said) = SubSeq(said, i, Len(said)) /\ said[i] # "nl" /\ Blank(Before(said, i))
<1> DEFINE T == {i \in 1..Len(said) : said[i] # "nl"}
           i == CHOOSE i \in DOMAIN said : said[i] # "nl" /\ Blank(Before(said, i))
<1>0. Len(said) \in Nat /\ DOMAIN said = 1..Len(said)
  OBVIOUS
<1>1. T # {} /\ T \subseteq Nat
  BY <1>0 DEF Blank
<1>2. PICK m \in T : \A j \in T : m <= j
  <2> HIDE DEF T
  <2> QED BY <1>1, Least
<1>3. m \in DOMAIN said /\ said[m] # "nl" /\ m \in Nat \ {0} /\ m <= Len(said)
  BY <1>0, <1>2
<1>4. Blank(Before(said, m))
  <2>1. m - 1 \in Int /\ m - 1 <= Len(said) /\ 1 \in Nat \ {0}
    BY <1>0, <1>3
  <2>2. /\ SubSeq(said, 1, m - 1) \in Seq(Symbols)
        /\ Len(SubSeq(said, 1, m - 1)) = IF 1 <= m - 1 THEN m - 1 - 1 + 1 ELSE 0
        /\ \A k \in 1..m - 1 - 1 + 1 : SubSeq(said, 1, m - 1)[k] = said[1 + k - 1]
    BY <2>1, PartsAreTexts
  <2>3. DOMAIN SubSeq(said, 1, m - 1) = 1..m - 1
    BY <1>3, <2>2, LenProperties
  <2>4. ASSUME NEW k \in 1..m - 1 PROVE SubSeq(said, 1, m - 1)[k] = "nl"
    <3>1. SubSeq(said, 1, m - 1)[k] = said[k]
      BY <1>3, <2>2
    <3>2. k \in 1..Len(said) /\ ~(m <= k)
      BY <1>0, <1>3
    <3>3. said[k] = "nl"
      BY <1>2, <3>2
    <3> QED BY <3>1, <3>3
  <2> QED BY <2>3, <2>4 DEF Blank, Before
<1>5. i \in DOMAIN said /\ said[i] # "nl" /\ Blank(Before(said, i))
  BY <1>3, <1>4, Zenon
<1>6. Stripped(said) = From(said, i)
  BY Zenon DEF Stripped
<1> HIDE DEF i
<1> QED BY <1>0, <1>5, <1>6 DEF From

LEMMA Fences ==
  /\ Fence \in Seq(Symbols) /\ Len(Fence) = 3
  /\ OpeningFence \in Seq(Symbols) /\ ClosingFence \in Seq(Symbols)
  /\ CDataClose \in Seq(Symbols) /\ Len(CDataClose) = 3
<1>1. Fence \in Seq(Symbols) /\ Len(Fence) = 3
  BY DEF Fence, Symbols
<1>2. <<"python", "nl">> \in Seq(Symbols) /\ <<"nl">> \in Seq(Symbols)
  BY DEF Symbols
<1>3. OpeningFence \in Seq(Symbols) /\ ClosingFence \in Seq(Symbols)
  BY <1>1, <1>2, ConcatProperties DEF OpeningFence, ClosingFence
<1>4. CDataClose \in Seq(Symbols) /\ Len(CDataClose) = 3
  BY DEF CDataClose, Symbols
<1> QED BY <1>1, <1>3, <1>4

\* A text whose first fence is swallowed has a fence, and what follows its line is a text.
LEMMA AfterFenceLineTyped ==
  ASSUME NEW said \in Seq(Symbols), NEW r, Swallowed(r, said)
  PROVE  AfterFenceLine(said) \in Seq(Symbols)
<1> DEFINE f == FirstOf(said, Fence)
           rest == From(said, f)
           end == FirstOf(rest, <<"nl">>)
<1>0. Len(said) \in Nat
  OBVIOUS
<1>a. /\ f \in 0..Len(said)
      /\ f = 0 => \A i \in 1..Len(said) - Len(Fence) + 1 : SubSeq(said, i, i + Len(Fence) - 1) # Fence
  <2>1. Fence \in Seq(Symbols) /\ Len(Fence) > 0
    BY Fences
  <2> QED BY <2>1, FirstOfFinds
<1>1. f # 0
  <2>1. ~Blank(said) /\ IsPrefix(Fence, Stripped(said))
    BY DEF Swallowed
  <2>2. PICK i \in 1..Len(said) : Stripped(said) = SubSeq(said, i, Len(said))
    BY <2>1, StrippedIsThere
  <2>3. Len(SubSeq(said, i, Len(said))) = Len(said) - i + 1
    BY <1>0, PartsAreTexts
  <2>4. 3 <= Len(said) - i + 1 /\ SubSeq(Fence, 1, 3) = SubSeq(SubSeq(said, i, Len(said)), 1, 3)
    BY <2>1, <2>2, <2>3, Fences DEF IsPrefix
  <2>5. SubSeq(Fence, 1, 3) = Fence
    BY Fences, SubSeqFull
  <2>6. SubSeq(SubSeq(said, i, Len(said)), 1, 3) = SubSeq(said, i + 1 - 1, i + 3 - 1)
    <3>1. Len(said) \in 1..Len(said) /\ 1 \in 1..Len(said) - i + 1 /\ 3 \in 1..Len(said) - i + 1
      BY <1>0, <2>4
    <3> QED BY <3>1, SubSeqOfSubSeq
  <2>7. i \in 1..Len(said) - Len(Fence) + 1 /\ SubSeq(said, i, i + Len(Fence) - 1) = Fence
    <3>1. i + 1 - 1 = i /\ i + 3 - 1 = i + Len(Fence) - 1
      BY Fences
    <3> QED BY <1>0, <2>4, <2>5, <2>6, <3>1, Fences
  <2> HIDE DEF f
  <2> QED BY <1>a, <2>7
<1>2. f \in 1..Len(said)
  BY <1>0, <1>a, <1>1
<1>3. rest \in Seq(Symbols)
  BY <1>0, <1>2, PartsAreTexts DEF From
<1>4. AfterFenceLine(said) = IF end = 0 THEN <<>> ELSE From(rest, end + 1)
  BY Zenon DEF AfterFenceLine
<1> HIDE DEF f, rest
<1>5. end \in 0..Len(rest)
  <2>1. <<"nl">> \in Seq(Symbols) /\ Len(<<"nl">>) > 0
    BY DEF Symbols
  <2> QED BY Zenon, <1>3, <2>1, FirstOfFinds
<1> HIDE DEF end
<1>6. From(rest, end + 1) \in Seq(Symbols)
  <2>1. Len(rest) \in Nat /\ end + 1 \in Nat \ {0}
    BY <1>3, <1>5
  <2> QED BY <1>3, <2>1, PartsAreTexts DEF From
<1> QED BY <1>4, <1>6, EmptySeq
---------------------------------------------------------------------------
(* The repair *)

HeldTexts == {<<>>, <<"]">>, <<"]", "]">>, <<"<">>, <<"<", "tick">>, <<"<", "tick", "tick">>}

\* The repair knows of the block that the parser has open.
Knows(r) == r \in Repairs /\ r.fence = Observe(FreshParser, r.out)

LEMMA FreshKnows == Knows(FreshRepair) /\ FreshParser \in Parser
<1>1. FreshParser \in Parser
  BY DEF FreshParser, Parser, Other
<1>2. Observe(FreshParser, <<>>) = FreshParser
  BY <1>1, ObserveNothing
<1>3. FreshRepair \in Repairs
  BY <1>1 DEF FreshRepair, Repairs
<1> QED BY <1>1, <1>2, <1>3 DEF Knows, FreshRepair

\* What is passed on is passed on to the parser too.
LEMMA PassedOn ==
  ASSUME NEW r, Knows(r), NEW said \in Seq(Symbols)
  PROVE  /\ r.out \o said \in Seq(Symbols) /\ Observe(r.fence, said) \in Parser
         /\ Observe(r.fence, said) = Observe(FreshParser, r.out \o said)
<1>1. r.out \in Seq(Symbols) /\ r.fence \in Parser /\ r.fence = Observe(FreshParser, r.out)
  BY DEF Knows, Repairs
<1>2. Observe(FreshParser, r.out \o said) = Observe(Observe(FreshParser, r.out), said)
  BY <1>1, FreshKnows, ObserveConcat
<1> QED BY <1>1, <1>2, ConcatProperties, ObserveTyped

LEMMA EmitKnows ==
  ASSUME NEW r, Knows(r), NEW said \in Seq(Symbols)
  PROVE  Knows(Emit(r, said)) /\ Emit(r, said).held = r.held
<1> DEFINE kept == IF Swallowed(r, said) THEN AfterFenceLine(said) ELSE said
           swallow == r.swallow /\ Blank(said)
           lineStart == IF kept = <<>> THEN r.lineStart ELSE Last(kept) = "nl"
<1>1. kept \in Seq(Symbols)
  BY AfterFenceLineTyped
<1>2. r \in Repairs
  BY DEF Knows
<1>3. swallow \in BOOLEAN /\ lineStart \in BOOLEAN
  BY <1>2, Zenon DEF Repairs
<1>4. Emit(r, said) = [r EXCEPT !.swallow = swallow, !.out = @ \o kept,
                                !.fence = Observe(r.fence, kept), !.lineStart = lineStart]
  BY Zenon DEF Emit, Observed
<1> HIDE DEF kept, swallow, lineStart
<1>5. /\ r.out \o kept \in Seq(Symbols) /\ Observe(r.fence, kept) \in Parser
      /\ Observe(r.fence, kept) = Observe(FreshParser, r.out \o kept)
  BY <1>1, PassedOn
<1>6. Emit(r, said) = [held |-> r.held, fence |-> Observe(r.fence, kept), swallow |-> swallow,
                       lineStart |-> lineStart, out |-> r.out \o kept]
  BY <1>2, <1>4 DEF Repairs
<1>7. r.held \in Seq(Symbols)
  BY <1>2 DEF Repairs
<1> QED BY <1>3, <1>5, <1>6, <1>7 DEF Knows, Repairs

LEMMA FencesKnown ==
  ASSUME NEW r, Knows(r)
  PROVE  /\ Knows(OpenFence(r)) /\ OpenFence(r).held = r.held
         /\ Knows(CloseFence(r)) /\ CloseFence(r).held = r.held
<1>1. Knows(CloseFence(r)) /\ CloseFence(r).held = r.held
  BY Fences, EmitKnows DEF CloseFence
<1>2. CASE IsOpen(r.fence)
  BY <1>1, <1>2 DEF OpenFence
<1>3. CASE ~IsOpen(r.fence)
  <2> DEFINE e == Emit(r, OpeningFence)
  <2>1. Knows(e) /\ e.held = r.held
    BY Fences, EmitKnows
  <2>2. OpenFence(r) = [e EXCEPT !.swallow = TRUE]
    BY <1>3 DEF OpenFence
  <2> HIDE DEF e
  <2>3. Knows(OpenFence(r)) /\ OpenFence(r).held = r.held
    BY <2>1, <2>2 DEF Knows, Repairs
  <2> QED BY <1>1, <2>3
<1> QED BY <1>2, <1>3

\* A repair that knows, and holds a text.
LEMMA HoldingKnows ==
  ASSUME NEW r, Knows(r), NEW said \in HeldTexts
  PROVE  /\ Knows([r EXCEPT !.held = said]) /\ [r EXCEPT !.held = said].held = said
         /\ HeldTexts \subseteq Seq(Symbols)
<1>1. HeldTexts \subseteq Seq(Symbols)
  BY DEF HeldTexts, Symbols
<1> QED BY <1>1 DEF Knows, Repairs

\* What is held of a buffer's end may be the front of a CDATA close.
LEMMA HeldAtTheEnd ==
  ASSUME NEW buf \in Seq(Symbols)
  PROVE  /\ Len(buf) - HeldWidth(buf) \in 0..Len(buf)
         /\ From(buf, Len(buf) - HeldWidth(buf) + 1) \in HeldTexts
<1>0. Len(buf) \in Nat
  OBVIOUS
<1>1. CASE IsSuffix(<<"]", "]">>, buf)
  <2>1. Reverse(<<"]", "]">>) = <<"]", "]">>
    BY DEF Reverse
  <2>2. Len(Reverse(buf)) = Len(buf) /\ \A i \in 1..Len(buf) : Reverse(buf)[i] = buf[(Len(buf) - i) + 1]
    BY DEF Reverse
  <2>3. 2 <= Len(buf) /\ SubSeq(<<"]", "]">>, 1, 2) = SubSeq(Reverse(buf), 1, 2)
    BY <1>1, <2>1, <2>2 DEF IsSuffix, IsPrefix
  <2>4. buf[Len(buf)] = "]" /\ buf[Len(buf) - 1] = "]"
    <3>1. SubSeq(<<"]", "]">>, 1, 2)[1] = "]" /\ SubSeq(<<"]", "]">>, 1, 2)[2] = "]"
      OBVIOUS
    <3>2. SubSeq(Reverse(buf), 1, 2)[1] = Reverse(buf)[1] /\ SubSeq(Reverse(buf), 1, 2)[2] = Reverse(buf)[2]
      OBVIOUS
    <3>3. Reverse(buf)[1] = buf[Len(buf)] /\ Reverse(buf)[2] = buf[Len(buf) - 1]
      BY <1>0, <2>2, <2>3
    <3> QED BY <2>3, <3>1, <3>2, <3>3
  <2>5. HeldWidth(buf) = 2
    BY <1>1 DEF HeldWidth
  <2> DEFINE t == From(buf, Len(buf) - 1)
  <2>6. Len(t) = 2 /\ t \in Seq(Symbols) /\ t[1] = buf[Len(buf) - 1] /\ t[2] = buf[Len(buf)]
    <3> DEFINE a == Len(buf) - 1
    <3>1. a \in 1..Len(buf) + 1 /\ a \in Nat /\ Len(buf) = a + 1
      BY <1>0, <2>3
    <3> HIDE DEF a
    <3>2. /\ From(buf, a) \in Seq(Symbols) /\ Len(From(buf, a)) = Len(buf) - a + 1
          /\ \A k \in 1..Len(buf) - a + 1 : From(buf, a)[k] = buf[a + k - 1]
      BY <3>1, RestIsText
    <3>3. Len(From(buf, a)) = 2 /\ From(buf, a)[1] = buf[a] /\ From(buf, a)[2] = buf[a + 1]
      BY <3>1, <3>2
    <3> QED BY <3>1, <3>2, <3>3 DEF a
  <2> HIDE DEF t
  <2>7. t = <<"]", "]">>
    BY <2>4, <2>6
  <2> QED BY <1>0, <2>3, <2>5, <2>7 DEF HeldTexts, t
<1>2. CASE ~IsSuffix(<<"]", "]">>, buf) /\ IsSuffix(<<"]">>, buf)
  <2>1. Reverse(<<"]">>) = <<"]">>
    BY DEF Reverse
  <2>2. Len(Reverse(buf)) = Len(buf) /\ \A i \in 1..Len(buf) : Reverse(buf)[i] = buf[(Len(buf) - i) + 1]
    BY DEF Reverse
  <2>3. 1 <= Len(buf) /\ SubSeq(<<"]">>, 1, 1) = SubSeq(Reverse(buf), 1, 1)
    BY <1>2, <2>1, <2>2 DEF IsSuffix, IsPrefix
  <2>4. buf[Len(buf)] = "]"
    <3>1. SubSeq(<<"]">>, 1, 1)[1] = "]"
      OBVIOUS
    <3>2. SubSeq(Reverse(buf), 1, 1)[1] = Reverse(buf)[1]
      OBVIOUS
    <3>3. Reverse(buf)[1] = buf[Len(buf)]
      BY <1>0, <2>2, <2>3
    <3> QED BY <2>3, <3>1, <3>2, <3>3
  <2>5. HeldWidth(buf) = 1
    BY <1>2 DEF HeldWidth
  <2> DEFINE t == From(buf, Len(buf))
  <2>6. Len(t) = 1 /\ t \in Seq(Symbols) /\ t[1] = buf[Len(buf)]
    <3>1. Len(buf) \in Nat \ {0} /\ Len(buf) \in Int
      BY <1>0, <2>3
    <3> QED BY <1>0, <3>1, PartsAreTexts DEF From
  <2> HIDE DEF t
  <2>7. t = <<"]">>
    BY <2>4, <2>6
  <2>8. Len(buf) - 1 + 1 = Len(buf) /\ Len(buf) - 1 \in 0..Len(buf)
    BY <1>0, <2>3
  <2> QED BY <2>5, <2>7, <2>8 DEF HeldTexts, t
<1>3. CASE ~IsSuffix(<<"]", "]">>, buf) /\ ~IsSuffix(<<"]">>, buf)
  <2>1. HeldWidth(buf) = 0
    BY <1>3 DEF HeldWidth
  <2>2. From(buf, Len(buf) + 1) = <<>>
    BY <1>0, SubSeqEmpty DEF From
  <2> QED BY <1>0, <2>1, <2>2 DEF HeldTexts
<1> QED BY <1>1, <1>2, <1>3
---------------------------------------------------------------------------
(* The loop over the buffer *)

\* What is so before each pass of the loop.
Steady == {loop \in Loops : Knows(loop.repair) /\ loop.repair.held \in HeldTexts}

LEMMA LeftSteady ==
  ASSUME NEW r, Knows(r), r.held \in HeldTexts, NEW unread \in Seq(Symbols)
  PROVE  [repair |-> r, buf |-> unread] \in Steady
BY DEF Steady, Loops, Knows

\* What may be the front of a tag is of the texts that are held, and the rest is longer.
LEMMA HalfATag ==
  ASSUME NEW rest \in Seq(Symbols), rest # <<>>, rest[1] = "<"
  PROVE  IF CouldBecomeTag(rest) THEN rest \in HeldTexts ELSE Len(rest) >= 2
<1>a. PICK n \in Nat : Len(rest) = n + 1
  <2>1. Len(rest) \in Nat
    OBVIOUS
  <2>2. Len(rest) # 0
    OBVIOUS
  <2>3. Len(rest) - 1 \in Nat /\ Len(rest) = (Len(rest) - 1) + 1
    BY <2>1, <2>2
  <2> QED BY <2>3
<1>1. PICK t \in Seq(Symbols) : /\ t = Tail(rest) /\ Len(t) = n
                               /\ \A i \in 1..n : t[i] = rest[i + 1]
  <2>1. /\ Tail(rest) \in Seq(Symbols) /\ Len(Tail(rest)) = Len(rest) - 1
        /\ \A i \in 1..Len(Tail(rest)) : Tail(rest)[i] = rest[i + 1]
    BY HeadTailProperties, Zenon
  <2>2. Len(Tail(rest)) = n
    BY <1>a, <2>1
  <2>3. \A i \in 1..n : Tail(rest)[i] = rest[i + 1]
    BY <2>1, <2>2, Zenon
  <2> QED BY <2>1, <2>2, <2>3, Zenon
<1>2. CouldBecomeTag(rest) <=> t \in {<<>>, <<"tick">>, <<"tick", "tick">>}
  BY <1>1 DEF CouldBecomeTag
<1>b. Len(t) = n
  BY <1>1, Zenon
<1>3. CASE t = <<>>
  <2>1. n = 0
    BY <1>1, <1>3
  <2>2. rest = <<"<">>
    BY <1>a, <2>1
  <2> QED BY <1>2, <1>3, <2>2 DEF HeldTexts
<1>4. CASE t = <<"tick">>
  <2>0. Len(t) = 1 /\ t[1] = "tick"
    BY <1>4
  <2>1. n = 1 /\ t[1] = "tick"
    BY <1>b, <2>0, Zenon
  <2>2. Len(rest) = 2 /\ 1 \in 1..n
    BY <1>a, <2>1
  <2>3. rest[1 + 1] = "tick"
    BY <1>1, <2>1, <2>2, Zenon
  <2>4. rest = <<"<", "tick">>
    BY <2>2, <2>3
  <2> QED BY <1>2, <1>4, <2>4 DEF HeldTexts
<1>5. CASE t = <<"tick", "tick">>
  <2>0. Len(t) = 2 /\ t[1] = "tick" /\ t[2] = "tick"
    BY <1>5
  <2>1. n = 2 /\ t[1] = "tick" /\ t[2] = "tick"
    BY <1>b, <2>0, Zenon
  <2>2. Len(rest) = 3 /\ 1 \in 1..n /\ 2 \in 1..n
    BY <1>a, <2>1
  <2>3. rest[1 + 1] = "tick" /\ rest[2 + 1] = "tick"
    BY <1>1, <2>1, <2>2, Zenon
  <2>4. rest = <<"<", "tick", "tick">>
    BY <2>2, <2>3
  <2> QED BY <1>2, <1>5, <2>4 DEF HeldTexts
<1>6. CASE t \notin {<<>>, <<"tick">>, <<"tick", "tick">>}
  <2>1. n # 0
    BY <1>1, <1>6
  <2> QED BY <1>a, <1>2, <1>6, <2>1
<1> QED BY <1>3, <1>4, <1>5, <1>6

\* A pass leaves the repair knowing, and takes a symbol of the buffer at least.
LEMMA PassSteady ==
  ASSUME NEW loop \in Steady
  PROVE  /\ Pass[loop] \in Steady
         /\ IF loop.buf = <<>> THEN Pass[loop].buf = <<>> ELSE Len(Pass[loop].buf) < Len(loop.buf)
<1> DEFINE buf    == loop.buf
           r      == loop.repair
           close  == FirstOf(buf, CDataClose)
           lt     == FirstOf(buf, <<"<">>)
           passed == Emit(r, Before(buf, lt))
           rest   == From(buf, lt)
           tail   == Len(buf) - HeldWidth(buf)
           Left(q, unread) == [repair |-> q, buf |-> unread]
           Ok(q, unread) == Knows(q) /\ q.held \in HeldTexts /\ unread \in Seq(Symbols) /\ Len(unread) < Len(buf)
<1>0. /\ loop \in Loops /\ buf \in Seq(Symbols) /\ Knows(r) /\ r.held \in HeldTexts
      /\ Len(buf) \in Nat
  BY DEF Steady, Loops
<1>1. Pass[loop] =
        IF buf = <<>> THEN loop
        ELSE IF close # 0 /\ (lt = 0 \/ close < lt)
             THEN Left(CloseFence(Emit(r, Before(buf, close))), From(buf, close + Len(CDataClose)))
        ELSE IF lt = 0
             THEN Left([Emit(r, SubSeq(buf, 1, tail)) EXCEPT !.held = From(buf, tail + 1)], <<>>)
        ELSE IF CouldBecomeTag(rest) THEN Left([passed EXCEPT !.held = rest], <<>>)
        ELSE IF rest[2] \in {"![CDATA[", "code>"} THEN Left(OpenFence(passed), From(rest, 3))
        ELSE IF rest[2] = "/code>" THEN Left(CloseFence(passed), From(rest, 3))
        ELSE IF IsPrefix(<<"<">> \o Fence, rest) /\ passed.lineStart THEN Left(passed, From(rest, 2))
        ELSE Left(Emit(passed, <<"<">>), From(rest, 2))
  BY <1>0, Zenon DEF Pass
<1>2. /\ close \in 0..Len(buf)
      /\ close # 0 => close + 3 - 1 <= Len(buf)
  <2>1. CDataClose \in Seq(Symbols) /\ Len(CDataClose) > 0 /\ Len(CDataClose) = 3
    BY Fences
  <2>2. /\ close \in 0..Len(buf)
        /\ close # 0 => close + Len(CDataClose) - 1 <= Len(buf)
    BY <1>0, <2>1, FirstOfFinds
  <2> HIDE DEF close
  <2> QED BY <2>1, <2>2
<1>3. /\ lt \in 0..Len(buf)
      /\ lt # 0 => SubSeq(buf, lt, lt) = <<"<">>
  <2>1. <<"<">> \in Seq(Symbols) /\ Len(<<"<">>) > 0 /\ Len(<<"<">>) = 1
    BY DEF Symbols
  <2>2. /\ lt \in 0..Len(buf)
        /\ lt # 0 => SubSeq(buf, lt, lt + Len(<<"<">>) - 1) = <<"<">>
    BY <1>0, <2>1, FirstOfFinds, Zenon
  <2>3. lt + Len(<<"<">>) - 1 = lt
    <3> HIDE DEF lt
    <3> QED BY <1>0, <2>1, <2>2
  <2> QED BY <2>2, <2>3
<1>4. ASSUME NEW q, NEW unread, Ok(q, unread), Pass[loop] = Left(q, unread)
      PROVE  Pass[loop] \in Steady /\ Len(Pass[loop].buf) < Len(buf)
  <2>1. Left(q, unread) \in Steady
    BY <1>4, LeftSteady
  <2>2. Left(q, unread).buf = unread
    OBVIOUS
  <2> QED BY <1>4, <2>1, <2>2, Zenon
<1>5. ASSUME NEW i \in 1..Len(buf)
      PROVE  /\ Before(buf, i) \in Seq(Symbols)
             /\ Knows(Emit(r, Before(buf, i))) /\ Emit(r, Before(buf, i)).held \in HeldTexts
  <2>1. Before(buf, i) \in Seq(Symbols)
    <3>1. i - 1 \in Int /\ i - 1 <= Len(buf) /\ 1 \in Nat \ {0}
      BY <1>0
    <3> QED BY <1>0, <3>1, PartsAreTexts DEF Before
  <2> QED BY <1>0, <2>1, EmitKnows
<1>6. CASE buf = <<>>
  BY <1>1, <1>6, Zenon
<1>7. CASE buf # <<>> /\ close # 0 /\ (lt = 0 \/ close < lt)
  <2> DEFINE e == Emit(r, Before(buf, close))
  <2>1. Pass[loop] = Left(CloseFence(e), From(buf, close + Len(CDataClose)))
    BY <1>1, <1>7, Zenon
  <2>2. Knows(e) /\ e.held \in HeldTexts
    <3>1. close \in 1..Len(buf)
      BY <1>0, <1>2, <1>7
    <3> QED BY <1>5, <3>1
  <2>3. close + 3 \in 1..Len(buf) + 1 /\ Len(CDataClose) = 3 /\ close + 3 > 1
    <3> HIDE DEF close, lt
    <3> QED BY <1>0, <1>2, <1>7, Fences
  <2>4. From(buf, close + 3) \in Seq(Symbols) /\ Len(From(buf, close + 3)) = Len(buf) - (close + 3) + 1
    BY <1>0, <2>3, RestIsText
  <2>5. Len(From(buf, close + 3)) < Len(buf)
    <3> HIDE DEF close
    <3> QED BY <1>0, <2>3, <2>4
  <2> HIDE DEF e
  <2>6. Knows(CloseFence(e)) /\ CloseFence(e).held \in HeldTexts
    BY <2>2, FencesKnown
  <2>7. Ok(CloseFence(e), From(buf, close + Len(CDataClose)))
    BY <2>3, <2>4, <2>5, <2>6, Zenon
  <2> QED BY <1>4, <1>7, <2>1, <2>7, Zenon
<1>8. CASE buf # <<>> /\ ~(close # 0 /\ (lt = 0 \/ close < lt)) /\ lt = 0
  <2> DEFINE e == Emit(r, SubSeq(buf, 1, tail))
             held == From(buf, tail + 1)
  <2>1. Pass[loop] = Left([e EXCEPT !.held = held], <<>>)
    BY <1>1, <1>8, Zenon
  <2>2. tail \in 0..Len(buf) /\ held \in HeldTexts
    BY <1>0, HeldAtTheEnd
  <2>3. SubSeq(buf, 1, tail) \in Seq(Symbols)
    <3>1. tail \in Int /\ tail <= Len(buf) /\ 1 \in Nat \ {0}
      BY <1>0, <2>2
    <3> QED BY <1>0, <3>1, PartsAreTexts
  <2>4. Knows(e)
    BY <1>0, <2>3, EmitKnows
  <2> HIDE DEF e, held
  <2>5. Knows([e EXCEPT !.held = held]) /\ [e EXCEPT !.held = held].held \in HeldTexts
    BY <2>2, <2>4, HoldingKnows
  <2>6. <<>> \in Seq(Symbols) /\ Len(<<>>) < Len(buf)
    BY <1>0, <1>8
  <2>7. Ok([e EXCEPT !.held = held], <<>>)
    BY <2>5, <2>6, Zenon
  <2> QED BY <1>4, <1>8, <2>1, <2>7, Zenon
<1>9. CASE buf # <<>> /\ ~(close # 0 /\ (lt = 0 \/ close < lt)) /\ lt # 0
  <2>1. lt \in 1..Len(buf)
    BY <1>0, <1>3, <1>9
  <2>2. Knows(passed) /\ passed.held \in HeldTexts
    BY <1>5, <2>1
  <2>3. /\ rest \in Seq(Symbols) /\ Len(rest) = Len(buf) - lt + 1
        /\ \A k \in 1..Len(buf) - lt + 1 : rest[k] = buf[lt + k - 1]
    <3>1. lt \in 1..Len(buf) + 1
      BY <1>0, <2>1
    <3> QED BY <1>0, <3>1, RestIsText
  <2>4. rest # <<>> /\ rest[1] = "<" /\ Len(rest) <= Len(buf)
    <3>1. SubSeq(buf, lt, lt) = <<"<">>
      BY <1>3, <1>9, Zenon
    <3> HIDE DEF lt, rest, close
    <3>2. SubSeq(buf, lt, lt)[1] = "<"
      BY <3>1
    <3>3. SubSeq(buf, lt, lt)[1] = buf[lt]
      BY <1>0, <2>1
    <3> QED BY <1>0, <2>1, <2>3, <3>2, <3>3
  <2> HIDE DEF passed, rest, lt, close
  <2>5. CASE CouldBecomeTag(rest)
    <3>1. Pass[loop] = Left([passed EXCEPT !.held = rest], <<>>)
      BY <1>1, <1>9, <2>5, Zenon
    <3>2. rest \in HeldTexts
      BY <2>3, <2>4, <2>5, HalfATag
    <3>3. Knows([passed EXCEPT !.held = rest]) /\ [passed EXCEPT !.held = rest].held \in HeldTexts
      BY <2>2, <3>2, HoldingKnows
    <3>4. <<>> \in Seq(Symbols) /\ Len(<<>>) < Len(buf)
      BY <1>0, <1>9
    <3>5. Ok([passed EXCEPT !.held = rest], <<>>)
      BY <3>3, <3>4, Zenon
    <3> QED BY <1>4, <1>9, <3>1, <3>5, Zenon
  <2>6. CASE ~CouldBecomeTag(rest)
    <3>1. Len(rest) >= 2
      BY <2>3, <2>4, <2>6, HalfATag
    <3>2. /\ From(rest, 3) \in Seq(Symbols) /\ Len(From(rest, 3)) < Len(buf)
          /\ From(rest, 2) \in Seq(Symbols) /\ Len(From(rest, 2)) < Len(buf)
      <4>1. 3 \in 1..Len(rest) + 1 /\ 2 \in 1..Len(rest) + 1 /\ Len(rest) \in Nat
        BY <2>3, <3>1
      <4>2. From(rest, 3) \in Seq(Symbols) /\ Len(From(rest, 3)) = Len(rest) - 3 + 1
        BY <2>3, <4>1, RestIsText
      <4>3. From(rest, 2) \in Seq(Symbols) /\ Len(From(rest, 2)) = Len(rest) - 2 + 1
        BY <2>3, <4>1, RestIsText
      <4> QED BY <1>0, <2>4, <4>1, <4>2, <4>3
    <3>3. /\ Knows(OpenFence(passed)) /\ OpenFence(passed).held \in HeldTexts
          /\ Knows(CloseFence(passed)) /\ CloseFence(passed).held \in HeldTexts
      BY <2>2, FencesKnown
    <3>4. Knows(Emit(passed, <<"<">>)) /\ Emit(passed, <<"<">>).held \in HeldTexts
      <4>1. <<"<">> \in Seq(Symbols)
        BY DEF Symbols
      <4> QED BY <2>2, <4>1, EmitKnows
    <3>5. Ok(OpenFence(passed), From(rest, 3)) /\ Ok(CloseFence(passed), From(rest, 3))
      BY <3>2, <3>3, Zenon
    <3>6. Ok(passed, From(rest, 2)) /\ Ok(Emit(passed, <<"<">>), From(rest, 2))
      BY <2>2, <3>2, <3>4, Zenon
    <3>7. \/ Pass[loop] = Left(OpenFence(passed), From(rest, 3))
          \/ Pass[loop] = Left(CloseFence(passed), From(rest, 3))
          \/ Pass[loop] = Left(passed, From(rest, 2))
          \/ Pass[loop] = Left(Emit(passed, <<"<">>), From(rest, 2))
      BY <1>1, <1>9, <2>6, Zenon
    <3> HIDE DEF Ok, Left
    <3>8. Pass[loop] \in Steady /\ Len(Pass[loop].buf) < Len(buf)
      BY <1>4, <3>5, <3>6, <3>7, Zenon
    <3> QED BY <1>9, <3>8, Zenon
  <2> QED BY <2>5, <2>6
<1> QED BY <1>6, <1>7, <1>8, <1>9, Zenon
(* What Rewrite chooses: the loop after each pass. *)
Looped(f, r, buf) ==
  f = [n \in 0..Len(buf) |-> IF n = 0 THEN [repair |-> r, buf |-> buf] ELSE Pass[f[n - 1]]]

\* The passes leave nothing in the buffer, and a repair that knows.
LEMMA RewriteEnds ==
  ASSUME NEW r, Knows(r), r.held \in HeldTexts, NEW buf \in Seq(Symbols)
  PROVE  \E f : /\ Looped(f, r, buf) /\ Rewrite(r, buf) = f[Len(buf)].repair
                /\ f[Len(buf)] \in Steady /\ f[Len(buf)].buf = <<>>
<1> DEFINE N == Len(buf)
           start == [repair |-> r, buf |-> buf]
           step == [loop \in Steady |-> Pass[loop]]
           g == [i \in 1..N |-> step]
           c == CHOOSE f : Looped(f, r, buf)
<1>0. N \in Nat
  OBVIOUS
<1>1. Rewrite(r, buf) = c[N].repair
  BY Zenon DEF Rewrite, Looped
<1>2. start \in Steady /\ start.buf = buf
  BY LeftSteady
<1>3. step \in [Steady -> Steady]
  BY PassSteady
<1>4. \A loop \in Steady : step[loop] = Pass[loop]
  OBVIOUS
<1> HIDE DEF step
<1>5. g \in [1..N -> [Steady -> Steady]] /\ \A i \in 1..N : g[i] = step
  BY <1>3
<1> HIDE DEF N, g, start
<1>6. PICK f \in [0..N -> Steady] : Chained(f, start, g, N)
  BY <1>0, <1>2, <1>5, SomeChain
<1>7. Looped(f, r, buf)
  <2>1. f = [n \in 0..N |-> f[n]]
    OBVIOUS
  <2>2. ASSUME NEW n \in 0..N PROVE f[n] = IF n = 0 THEN start ELSE Pass[f[n - 1]]
    <3>1. CASE n = 0
      BY <1>6, <3>1 DEF Chained
    <3>2. CASE n # 0
      <4>1. n \in 1..N /\ n - 1 \in 0..N
        BY <1>0, <3>2
      <4>2. f[n] = g[n][f[n - 1]] /\ f[n - 1] \in Steady
        BY <1>6, <4>1 DEF Chained
      <4> QED BY <1>4, <1>5, <3>2, <4>1, <4>2
    <3> QED BY <3>1, <3>2
  <2> QED BY <2>1, <2>2 DEF Looped, N, start
<1>8. Looped(c, r, buf)
  BY <1>7, Zenon
<1> HIDE DEF c
<1>9. \A n \in 0..N : c[n] = IF n = 0 THEN start ELSE Pass[c[n - 1]]
  BY <1>8 DEF Looped, N, start
<1> DEFINE P == {k \in Nat : k <= N => c[k] \in Steady /\ Len(c[k].buf) <= N - k}
<1>10. 0 \in P
  <2>1. c[0] = start
    BY <1>0, <1>9
  <2>2. Len(start.buf) = N
    BY <1>2 DEF N
  <2>3. c[0] \in Steady /\ Len(c[0].buf) <= N - 0
    BY <1>0, <1>2, <2>1, <2>2
  <2> QED BY <2>3
<1>11. ASSUME NEW k \in Nat, k \in P PROVE k + 1 \in P
  <2> SUFFICES ASSUME k + 1 <= N PROVE c[k + 1] \in Steady /\ Len(c[k + 1].buf) <= N - (k + 1)
    OBVIOUS
  <2>1. c[k] \in Steady /\ Len(c[k].buf) <= N - k
    BY <1>0, <1>11
  <2>2. c[k + 1] = Pass[c[k]]
    <3>1. k + 1 \in 0..N /\ k + 1 # 0 /\ (k + 1) - 1 = k
      BY <1>0
    <3> QED BY <1>9, <3>1
  <2>3. /\ c[k + 1] \in Steady
        /\ IF c[k].buf = <<>> THEN c[k + 1].buf = <<>> ELSE Len(c[k + 1].buf) < Len(c[k].buf)
    BY <2>1, <2>2, PassSteady
  <2>4. Len(c[k].buf) \in Nat /\ Len(c[k + 1].buf) \in Nat
    BY <2>1, <2>3 DEF Steady, Loops
  <2>5. CASE c[k].buf = <<>>
    <3>1. Len(c[k + 1].buf) = 0
      BY <2>3, <2>5
    <3> QED BY <1>0, <2>3, <3>1
  <2>6. CASE c[k].buf # <<>>
    BY <1>0, <2>1, <2>3, <2>4, <2>6
  <2> QED BY <2>5, <2>6
<1>12. Nat \subseteq P
  <2> HIDE DEF P
  <2> QED BY <1>10, <1>11, NaturalSets
<1>13. c[N] \in Steady /\ Len(c[N].buf) <= 0
  BY <1>0, <1>12
<1>14. c[N].buf = <<>>
  <2>1. c[N].buf \in Seq(Symbols)
    BY <1>13 DEF Steady, Loops
  <2> QED BY <1>13, <2>1
<1> QED BY <1>1, <1>8, <1>13, <1>14 DEF N

LEMMA DeltaKnows ==
  ASSUME NEW r, Knows(r), r.held \in HeldTexts, NEW chunk \in Seq(Symbols)
  PROVE  Knows(Delta(r, chunk)) /\ Delta(r, chunk).held \in HeldTexts
<1> DEFINE q == [r EXCEPT !.held = <<>>]
           buf == r.held \o chunk
<1>1. <<>> \in HeldTexts
  BY DEF HeldTexts
<1>2. Knows(q) /\ q.held \in HeldTexts
  BY <1>1, HoldingKnows
<1>3. buf \in Seq(Symbols)
  <2>1. r.held \in Seq(Symbols)
    BY <1>1, HoldingKnows
  <2> QED BY <2>1, ConcatProperties
<1>4. Delta(r, chunk) = Rewrite(q, buf)
  BY Zenon DEF Delta
<1> HIDE DEF q, buf
<1>5. Rewrite(q, buf) \in {loop.repair : loop \in Steady}
  BY <1>2, <1>3, RewriteEnds
<1> QED BY <1>4, <1>5 DEF Steady

LEMMA FlushKnows ==
  ASSUME NEW r, Knows(r), r.held \in HeldTexts
  PROVE  Knows(FlushHeld(r)) /\ FlushHeld(r).held = <<>>
<1>1. r.held \in Seq(Symbols) /\ r \in Repairs /\ <<>> \in Seq(Symbols)
  BY EmptySeq DEF Knows, Repairs
<1>a. FlushHeld(r) = [r EXCEPT !.held = <<>>, !.out = r.out \o r.held, !.fence = Observe(r.fence, r.held)]
  BY Zenon DEF FlushHeld
<1>2. FlushHeld(r) = [held |-> <<>>, fence |-> Observe(r.fence, r.held), swallow |-> r.swallow,
                      lineStart |-> r.lineStart, out |-> r.out \o r.held]
  BY <1>1, <1>a DEF Repairs
<1>3. /\ r.out \o r.held \in Seq(Symbols) /\ Observe(r.fence, r.held) \in Parser
      /\ Observe(r.fence, r.held) = Observe(FreshParser, r.out \o r.held)
  BY <1>1, PassedOn
<1>4. r.swallow \in BOOLEAN /\ r.lineStart \in BOOLEAN
  BY <1>1 DEF Repairs
<1> QED BY <1>1, <1>2, <1>3, <1>4 DEF Knows, Repairs

\* A fence on a line of its own closes a block that is not in a string.
LEMMA FenceCloses ==
  ASSUME NEW p \in Parser, IsOpen(p)
  PROVE  Observe(p, ClosingFence).mode # "code"
<1> DEFINE a == Feed("nl")[p]
           b == Feed("tick")[a]
           c == Feed("tick")[b]
           d == Feed("tick")[c]
           e == Feed("nl")[d]
<1>1. \A s : Feed(s) \in [Parser -> Parser]
  BY FeedTyped
<1>2. a \in Parser /\ b \in Parser /\ c \in Parser /\ d \in Parser /\ e \in Parser
  BY <1>1
<1>3. "nl" \in Symbols /\ "tick" \in Symbols
  BY DEF Symbols
<1>4. \A q \in Parser, s \in Symbols : Observe(q, <<s>>) = Feed(s)[q]
  <2> SUFFICES ASSUME NEW q \in Parser, NEW s \in Symbols PROVE Observe(q, <<s>>) = Feed(s)[q]
    OBVIOUS
  <2>1. <<s>> = Append(<<>>, s) /\ <<>> \in Seq(Symbols)
    OBVIOUS
  <2>2. Observe(q, Append(<<>>, s)) = Feed(s)[Observe(q, <<>>)]
    BY <2>1, ObserveAppend
  <2> QED BY <2>1, <2>2, ObserveNothing
<1> HIDE DEF a, b, c, d, e
<1>5. Observe(a, Fence) = d
  <2> DEFINE t1 == <<"tick">>
             t2 == <<"tick", "tick">>
  <2>1. t1 \in Seq(Symbols) /\ t2 \in Seq(Symbols) /\ t2 = Append(t1, "tick") /\ Fence = Append(t2, "tick")
    BY DEF Fence, Symbols
  <2>2. Observe(a, t1) = b
    BY <1>2, <1>3, <1>4 DEF b
  <2> HIDE DEF t1, t2
  <2>3. Observe(a, t2) = c
    BY <1>2, <1>3, <2>1, <2>2, ObserveAppend DEF c
  <2> QED BY <1>2, <1>3, <2>1, <2>3, ObserveAppend DEF d
<1>6. Observe(p, ClosingFence) = e
  <2> DEFINE nl == <<"nl">>
  <2>1. nl \in Seq(Symbols)
    BY <1>3
  <2>2. Observe(p, nl) = a /\ Observe(d, nl) = e
    BY <1>2, <1>3, <1>4 DEF a, e
  <2>3. ClosingFence = (nl \o Fence) \o nl
    BY DEF ClosingFence
  <2> HIDE DEF nl
  <2>4. nl \o Fence \in Seq(Symbols)
    BY <2>1, Fences, ConcatProperties
  <2>5. Observe(p, nl \o Fence) = d
    BY <1>5, <2>1, <2>2, Fences, ObserveConcat
  <2>6. Observe(p, (nl \o Fence) \o nl) = e
    BY <2>1, <2>2, <2>4, <2>5, ObserveConcat
  <2> QED BY <2>3, <2>6
<1>7. CASE p.mode = "code"
  <2>1. a.mode = "code" /\ a.line = 0
    BY <1>7 DEF a, Feed, LineAfter
  <2>2. b.mode = "code" /\ b.line = 1
    BY <1>2, <2>1 DEF b, Feed, LineAfter
  <2>3. c.mode = "code" /\ c.line = 2
    BY <1>2, <2>2 DEF c, Feed, LineAfter
  <2>4. d.mode = "text" /\ d.line = Other
    BY <1>2, <2>3 DEF d, Feed
  <2>5. e.mode = "text"
    BY <1>2, <2>4 DEF e, Feed, Named, Other
  <2> QED BY <1>6, <2>5
<1>8. CASE p.mode = "string"
  <2>1. a.mode = "string"
    BY <1>8 DEF a, Feed
  <2>2. b.mode = "string"
    BY <1>2, <2>1 DEF b, Feed
  <2>3. c.mode = "string"
    BY <1>2, <2>2 DEF c, Feed
  <2>4. d.mode = "string"
    BY <1>2, <2>3 DEF d, Feed
  <2>5. e.mode = "string"
    BY <1>2, <2>4 DEF e, Feed
  <2> QED BY <1>6, <2>5
<1> QED BY <1>7, <1>8 DEF IsOpen, Parser

LEMMA CloseAtEndKnows ==
  ASSUME NEW r, Knows(r), IsOpen(r.fence)
  PROVE  /\ Knows(CloseAtEnd(r)) /\ CloseAtEnd(r).held = r.held
         /\ CloseAtEnd(r).fence.mode # "code"
<1>1. r \in Repairs /\ r.fence \in Parser /\ r.held \in Seq(Symbols)
  BY DEF Knows, Repairs
<1>a. CloseAtEnd(r) = [r EXCEPT !.out = r.out \o ClosingFence, !.fence = Observe(r.fence, ClosingFence)]
  BY Zenon DEF CloseAtEnd
<1>2. CloseAtEnd(r) = [held |-> r.held, fence |-> Observe(r.fence, ClosingFence), swallow |-> r.swallow,
                       lineStart |-> r.lineStart, out |-> r.out \o ClosingFence]
  BY <1>1, <1>a DEF Repairs
<1>3. /\ r.out \o ClosingFence \in Seq(Symbols) /\ Observe(r.fence, ClosingFence) \in Parser
      /\ Observe(r.fence, ClosingFence) = Observe(FreshParser, r.out \o ClosingFence)
  BY Fences, PassedOn
<1>4. r.swallow \in BOOLEAN /\ r.lineStart \in BOOLEAN
  BY <1>1 DEF Repairs
<1>5. Observe(r.fence, ClosingFence).mode # "code"
  BY <1>1, FenceCloses
<1> QED BY <1>1, <1>2, <1>3, <1>4, <1>5 DEF Knows, Repairs
---------------------------------------------------------------------------
(* A reply *)

\* The repair knows of the parser's block all along, and what was closed at the end
\* is closed and nothing is passed on behind it.
StreamInv ==
  /\ StreamTypeOK /\ Knows(repair)
  /\ closedAtEnd => phase \in {"ending", "done"} /\ repair.held = <<>> /\ repair.fence.mode # "code"
  /\ phase = "done" /\ finishReason = "stop" => repair.fence.mode # "code"

\* What is so of a repair that knows is the part of the type that is about it.
LEMMA KnowingIsTyped ==
  ASSUME NEW r, Knows(r), r.held \in HeldTexts
  PROVE  /\ r.out \in Seq(Symbols) /\ r.fence \in Parser
         /\ {r.swallow, r.lineStart} \subseteq BOOLEAN
         /\ r.held \in {<<>>, <<"]">>, <<"]", "]">>, <<"<">>, <<"<", "tick">>, <<"<", "tick", "tick">>}
BY DEF Knows, Repairs, HeldTexts

LEMMA StreamStarts == StreamInit => StreamInv
<1> SUFFICES ASSUME StreamInit PROVE StreamInv
  OBVIOUS
<1>1. reply \in Seq(Symbols)
  BY RepliesAreTexts DEF StreamInit
<1>2. MaxFailures \in Nat /\ Len(reply) \in Nat
  BY <1>1, BlocksAssumption
<1>3. FreshRepair.held = <<>> /\ FreshRepair.fence = FreshParser /\ FreshRepair.out = <<>>
      /\ FreshRepair.swallow = FALSE /\ FreshRepair.lineStart = TRUE
  BY DEF FreshRepair
<1>4. Knows(FreshRepair) /\ FreshRepair.held \in HeldTexts
  BY <1>3, FreshKnows DEF HeldTexts
<1>5. /\ repair = FreshRepair /\ phase = "reading" /\ finishReason \in {"stop", "length"}
      /\ arrived = 0 /\ closedAtEnd = FALSE /\ connections = 0
  BY DEF StreamInit
<1>6. /\ repair.out \in Seq(Symbols) /\ repair.fence \in Parser
      /\ {repair.swallow, repair.lineStart} \subseteq BOOLEAN
      /\ repair.held \in {<<>>, <<"]">>, <<"]", "]">>, <<"<">>, <<"<", "tick">>, <<"<", "tick", "tick">>}
  BY <1>4, <1>5, KnowingIsTyped
<1>7. StreamTypeOK
  <2>1. arrived \in 0..Len(reply) /\ connections \in 0..MaxFailures
    BY <1>2, <1>5
  <2>2. closedAtEnd \in BOOLEAN /\ phase \in {"reading", "ending", "done", "failed"}
    BY <1>5
  <2> QED BY <1>1, <1>5, <1>6, <2>1, <2>2, Zenon DEF StreamTypeOK
<1> QED BY <1>4, <1>5, <1>7 DEF StreamInv

LEMMA StreamStep == StreamInv /\ [StreamNext]_streamVars => StreamInv'
<1> SUFFICES ASSUME StreamInv, [StreamNext]_streamVars PROVE StreamInv'
  OBVIOUS
<1>1. StreamTypeOK /\ Knows(repair) /\ repair.held \in HeldTexts
  BY DEF StreamInv, StreamTypeOK, HeldTexts
<1>2. reply \in Seq(Symbols) /\ Len(reply) \in Nat /\ arrived \in 0..Len(reply)
  BY <1>1 DEF StreamTypeOK
<1>3. ASSUME Knows(repair'), repair'.held \in HeldTexts,
             reply' = reply, finishReason' = finishReason,
             phase' \in {"reading", "ending", "done", "failed"}, arrived' \in 0..Len(reply),
             closedAtEnd' \in BOOLEAN, connections' \in 0..MaxFailures
      PROVE  StreamTypeOK' /\ Knows(repair)'
  <2>1. /\ repair'.out \in Seq(Symbols) /\ repair'.fence \in Parser
        /\ {repair'.swallow, repair'.lineStart} \subseteq BOOLEAN
        /\ repair'.held \in {<<>>, <<"]">>, <<"]", "]">>, <<"<">>, <<"<", "tick">>, <<"<", "tick", "tick">>}
    BY <1>3, KnowingIsTyped
  <2>2. StreamTypeOK'
    BY <1>1, <1>3, <2>1 DEF StreamTypeOK
  <2> QED BY <1>3, <2>2 DEF Knows
<1>4. ASSUME NEW upTo \in 1..Len(reply), Receive(upTo) PROVE StreamInv'
  <2> DEFINE chunk == SubSeq(reply, arrived + 1, upTo)
  <2>1. chunk \in Seq(Symbols)
    <3>1. arrived + 1 \in Nat \ {0} /\ upTo \in Int /\ upTo <= Len(reply)
      BY <1>2
    <3> QED BY <1>2, <3>1, PartsAreTexts
  <2>2. Knows(Delta(repair, chunk)) /\ Delta(repair, chunk).held \in HeldTexts
    BY <1>1, <2>1, DeltaKnows
  <2>3. repair' = Delta(repair, chunk) /\ arrived' = upTo /\ phase = "reading"
        /\ UNCHANGED <<phase, reply, finishReason, closedAtEnd, connections>>
    BY <1>4 DEF Receive
  <2> HIDE DEF chunk
  <2>4. Knows(repair') /\ repair'.held \in HeldTexts /\ upTo \in 0..Len(reply)
    BY <1>2, <2>2, <2>3
  <2>5. StreamTypeOK' /\ Knows(repair)'
    BY <1>1, <1>3, <2>3, <2>4 DEF StreamTypeOK
  <2> QED BY <2>3, <2>5 DEF StreamInv
<1>5. CASE EndOfStream
  <2>1. StreamTypeOK' /\ Knows(repair)'
    BY <1>1, <1>5 DEF EndOfStream, StreamTypeOK, Knows
  <2> QED BY <1>5, <2>1 DEF EndOfStream, StreamInv
<1>6. CASE ConnectionFails
  <2>1. /\ phase = "reading" /\ phase' \in {"reading", "failed"} /\ connections' \in 0..MaxFailures
        /\ UNCHANGED <<reply, finishReason, closedAtEnd>>
    BY <1>1, <1>6, BlocksAssumption DEF ConnectionFails, StreamTypeOK
  <2>2. (repair' = FreshRepair /\ arrived' = 0) \/ (repair' = repair /\ arrived' = arrived)
    BY <1>6, Zenon DEF ConnectionFails, AfterReset
  <2>3. Knows(repair') /\ repair'.held \in HeldTexts /\ arrived' \in 0..Len(reply)
    <3>1. FreshRepair.held \in HeldTexts
      BY DEF FreshRepair, HeldTexts
    <3> QED BY <1>1, <1>2, <2>2, <3>1, FreshKnows
  <2>4. closedAtEnd = FALSE
    BY <1>1, <2>1 DEF StreamInv, StreamTypeOK
  <2>5. StreamTypeOK' /\ Knows(repair)'
    BY <1>3, <2>1, <2>3, <2>4
  <2> QED BY <2>1, <2>4, <2>5 DEF StreamInv
<1>7. CASE PassHeldOn
  <2>1. /\ phase = "ending" /\ repair.held # <<>> /\ repair' = FlushHeld(repair)
        /\ UNCHANGED <<phase, reply, finishReason, arrived, closedAtEnd, connections>>
    BY <1>7 DEF PassHeldOn
  <2>2. Knows(repair') /\ repair'.held = <<>> /\ repair'.held \in HeldTexts
    BY <1>1, <2>1, FlushKnows DEF HeldTexts
  <2>3. closedAtEnd = FALSE
    BY <1>1, <2>1 DEF StreamInv, StreamTypeOK
  <2>4. StreamTypeOK' /\ Knows(repair)'
    BY <1>1, <1>3, <2>1, <2>2 DEF StreamTypeOK
  <2> QED BY <2>1, <2>3, <2>4 DEF StreamInv
<1>8. CASE CloseLeftOpen
  <2>1. /\ phase = "ending" /\ repair.held = <<>> /\ IsOpen(repair.fence)
        /\ closedAtEnd' = TRUE /\ repair' = CloseAtEnd(repair)
        /\ UNCHANGED <<phase, reply, finishReason, arrived, connections>>
    BY <1>8 DEF CloseLeftOpen, LeftOpen
  <2>2. Knows(repair') /\ repair'.held = <<>> /\ repair'.held \in HeldTexts /\ repair'.fence.mode # "code"
    BY <1>1, <2>1, CloseAtEndKnows
  <2>3. StreamTypeOK' /\ Knows(repair)'
    BY <1>1, <1>3, <2>1, <2>2 DEF StreamTypeOK
  <2> QED BY <2>1, <2>2, <2>3 DEF StreamInv
<1>9. CASE Stop
  <2>1. /\ phase = "ending" /\ repair.held = <<>> /\ ~LeftOpen /\ phase' = "done"
        /\ UNCHANGED <<reply, finishReason, arrived, repair, closedAtEnd, connections>>
    BY <1>9 DEF Stop, NothingLeft
  <2>2. StreamTypeOK' /\ Knows(repair)'
    BY <1>1, <2>1 DEF StreamTypeOK, Knows
  <2>3. finishReason = "stop" => repair.fence.mode # "code"
    BY <1>1, <2>1 DEF LeftOpen, IsOpen, StreamInv, StreamTypeOK
  <2> QED BY <2>1, <2>2, <2>3 DEF StreamInv
<1>10. CASE UNCHANGED streamVars
  <2>1. StreamTypeOK' /\ Knows(repair)'
    BY <1>1, <1>10 DEF StreamTypeOK, Knows, streamVars
  <2> QED BY <1>10, <2>1 DEF StreamInv, streamVars
<1> QED BY <1>4, <1>5, <1>6, <1>7, <1>8, <1>9, <1>10 DEF StreamNext, Reading, Ending

LEMMA StreamInvariant == StreamSpec => []StreamInv
BY StreamStarts, StreamStep, PTL DEF StreamSpec

(* ParserAgrees: what the repair believes of the agent's parser is what the parser    *)
(* sees of the text passed on, a clean stop leaves no block open but one cut inside   *)
(* a string, and text is held no longer than it is undecided (_emit, _rewrite,        *)
(* __anext__): for replies of any pieces and any length, wherever the stream is cut   *)
(* and however often a connection is lost.                                            *)
THEOREM BlocksAreKnown == StreamSpec => []ParserAgrees
<1>1. StreamInv => ParserAgrees
  <2> SUFFICES ASSUME StreamInv PROVE ParserAgrees
    OBVIOUS
  <2>1. StreamTypeOK /\ repair.fence = Observe(FreshParser, repair.out)
    BY DEF StreamInv, Knows
  <2>2. phase = "done" /\ finishReason = "stop" => repair.fence.mode # "code"
    BY DEF StreamInv
  <2> QED BY <2>1, <2>2 DEF ParserAgrees, FenceAgrees, ClosedAtCleanStop
<1> QED BY <1>1, StreamInvariant, PTL
---------------------------------------------------------------------------
(* The first thing in a buffer *)

\* A CDATA close at a place of a text, and a tag.
ClosesAt(said, i) ==
  i \in Nat \ {0} /\ i + 2 <= Len(said) /\ said[i] = "]" /\ said[i + 1] = "]" /\ said[i + 2] = ">"
TagAt(said, i) == i \in 1..Len(said) /\ said[i] = "<"

\* Nothing of the kind before a place.
NoneBefore(said, k) == \A i \in 1..k - 1 : ~ClosesAt(said, i) /\ ~TagAt(said, i)

LEMMA FirstOfLeast ==
  ASSUME NEW said \in Seq(Symbols), NEW part \in Seq(Symbols), Len(part) > 0,
         FirstOf(said, part) # 0
  PROVE  \A i \in 1..FirstOf(said, part) - 1 : SubSeq(said, i, i + Len(part) - 1) # part
<1> DEFINE hits == {i \in 1..(Len(said) - Len(part) + 1) : SubSeq(said, i, i + Len(part) - 1) = part}
           first == CHOOSE i \in hits : \A j \in hits : i <= j
<1>0. Len(said) \in Nat /\ Len(part) \in Nat
  OBVIOUS
<1>1. FirstOf(said, part) = IF hits = {} THEN 0 ELSE first
  BY Zenon DEF FirstOf
<1>2. hits # {} /\ FirstOf(said, part) = first
  BY <1>1
<1>3. hits \subseteq Nat
  BY <1>0
<1>4. \E i \in hits : \A j \in hits : i <= j
  <2> HIDE DEF hits
  <2> QED BY <1>2, <1>3, Least
<1>5. first \in hits /\ \A j \in hits : first <= j
  BY <1>4, Zenon
<1> HIDE DEF first
<1>6. first \in 1..(Len(said) - Len(part) + 1)
  BY <1>5
<1>7. ASSUME NEW i \in 1..first - 1, SubSeq(said, i, i + Len(part) - 1) = part PROVE FALSE
  <2>1. i \in 1..(Len(said) - Len(part) + 1) /\ ~(first <= i)
    BY <1>0, <1>6
  <2>2. i \in hits
    BY <1>7, <2>1
  <2> QED BY <1>5, <2>1, <2>2
<1> QED BY <1>2, <1>7

\* The part of a text is the CDATA close where its symbols are.
LEMMA ClosesHere ==
  ASSUME NEW said \in Seq(Symbols), NEW i \in 1..Len(said) - 2
  PROVE  SubSeq(said, i, i + 2) = CDataClose <=> ClosesAt(said, i)
<1> DEFINE t == SubSeq(said, i, i + 2)
<1>0. Len(said) \in Nat /\ i \in Nat \ {0} /\ i + 2 \in Int /\ i + 2 <= Len(said)
  OBVIOUS
<1>1. /\ t \in Seq(Symbols)
      /\ Len(t) = IF i <= i + 2 THEN i + 2 - i + 1 ELSE 0
      /\ \A k \in 1..i + 2 - i + 1 : t[k] = said[i + k - 1]
  BY <1>0, PartsAreTexts
<1> HIDE DEF t
<1>2. Len(t) = 3 /\ t[1] = said[i] /\ t[2] = said[i + 1] /\ t[3] = said[i + 2]
  BY <1>0, <1>1
<1>3. t = CDataClose <=> t[1] = "]" /\ t[2] = "]" /\ t[3] = ">"
  BY <1>1, <1>2 DEF CDataClose
<1> QED BY <1>0, <1>2, <1>3 DEF ClosesAt, t

LEMMA TagHere ==
  ASSUME NEW said \in Seq(Symbols), NEW i \in 1..Len(said)
  PROVE  SubSeq(said, i, i) = <<"<">> <=> TagAt(said, i)
<1> DEFINE t == SubSeq(said, i, i)
<1>0. Len(said) \in Nat /\ i \in Nat \ {0} /\ i \in Int /\ i <= Len(said)
  OBVIOUS
<1>1. /\ t \in Seq(Symbols)
      /\ Len(t) = IF i <= i THEN i - i + 1 ELSE 0
      /\ \A k \in 1..i - i + 1 : t[k] = said[i + k - 1]
  BY <1>0, PartsAreTexts
<1> HIDE DEF t
<1>2. Len(t) = 1 /\ t[1] = said[i]
  BY <1>0, <1>1
<1>3. t = <<"<">> <=> t[1] = "<"
  BY <1>1, <1>2
<1> QED BY <1>2, <1>3 DEF TagAt, t

\* What the loop looks for, by the symbols.
LEMMA FirstClose ==
  ASSUME NEW said \in Seq(Symbols), NEW c, c = FirstOf(said, CDataClose)
  PROVE  /\ c \in 0..Len(said) /\ (c = 0 => \A i \in Nat : ~ClosesAt(said, i))
         /\ c # 0 => ClosesAt(said, c) /\ \A i \in 1..c - 1 : ~ClosesAt(said, i)
<1>0. Len(said) \in Nat /\ CDataClose \in Seq(Symbols) /\ Len(CDataClose) > 0 /\ Len(CDataClose) = 3
  BY Fences
<1>1. /\ c \in 0..Len(said)
      /\ c # 0 => c + 3 - 1 <= Len(said) /\ SubSeq(said, c, c + 3 - 1) = CDataClose
      /\ c = 0 => \A i \in 1..Len(said) - 3 + 1 : SubSeq(said, i, i + 3 - 1) # CDataClose
  <2>1. LET part == CDataClose
        IN  /\ c \in 0..Len(said)
            /\ c # 0 => c + Len(part) - 1 <= Len(said) /\ SubSeq(said, c, c + Len(part) - 1) = part
            /\ c = 0 => \A i \in 1..Len(said) - Len(part) + 1 : SubSeq(said, i, i + Len(part) - 1) # part
    BY <1>0, FirstOfFinds, Zenon
  <2> QED BY <1>0, <2>1, Zenon
<1>2. \A i \in Nat : i + 3 - 1 = i + 2
  OBVIOUS
<1>3. ASSUME c = 0, NEW i \in Nat, ClosesAt(said, i) PROVE FALSE
  <2>1. i \in 1..Len(said) - 3 + 1 /\ i \in 1..Len(said) - 2
    BY <1>0, <1>3 DEF ClosesAt
  <2>2. SubSeq(said, i, i + 2) # CDataClose
    BY <1>1, <1>2, <1>3, <2>1
  <2> QED BY <1>3, <2>1, <2>2, ClosesHere
<1>4. ASSUME c # 0 PROVE ClosesAt(said, c)
  <2>1. c \in 1..Len(said) - 2 /\ SubSeq(said, c, c + 2) = CDataClose
    BY <1>0, <1>1, <1>2, <1>4
  <2> QED BY <2>1, ClosesHere
<1>5. ASSUME c # 0, NEW i \in 1..c - 1 PROVE ~ClosesAt(said, i)
  <2>1. i \in 1..Len(said) - 2 /\ i \in Nat
    BY <1>0, <1>1, <1>5
  <2>2. SubSeq(said, i, i + 3 - 1) # CDataClose
    BY <1>0, <1>5, FirstOfLeast
  <2>3. SubSeq(said, i, i + 2) # CDataClose
    BY <1>2, <2>1, <2>2
  <2> QED BY <2>1, <2>3, ClosesHere
<1> QED BY <1>1, <1>3, <1>4, <1>5

LEMMA FirstTag ==
  ASSUME NEW said \in Seq(Symbols), NEW t, t = FirstOf(said, <<"<">>)
  PROVE  /\ t \in 0..Len(said) /\ (t = 0 => \A i \in Nat : ~TagAt(said, i))
         /\ t # 0 => TagAt(said, t) /\ \A i \in 1..t - 1 : ~TagAt(said, i)
<1> DEFINE part == <<"<">>
<1>0. Len(said) \in Nat /\ part \in Seq(Symbols) /\ Len(part) > 0 /\ Len(part) = 1
  BY DEF Symbols
<1>a. t = FirstOf(said, part)
  OBVIOUS
<1> HIDE DEF part
<1>1. /\ t \in 0..Len(said)
      /\ t # 0 => t + 1 - 1 <= Len(said) /\ SubSeq(said, t, t + 1 - 1) = part
      /\ t = 0 => \A i \in 1..Len(said) - 1 + 1 : SubSeq(said, i, i + 1 - 1) # part
  <2>1. /\ t \in 0..Len(said)
        /\ t # 0 => t + Len(part) - 1 <= Len(said) /\ SubSeq(said, t, t + Len(part) - 1) = part
        /\ t = 0 => \A i \in 1..Len(said) - Len(part) + 1 : SubSeq(said, i, i + Len(part) - 1) # part
    <3>1. /\ FirstOf(said, part) \in 0..Len(said)
          /\ FirstOf(said, part) # 0 =>
               /\ FirstOf(said, part) + Len(part) - 1 <= Len(said)
               /\ SubSeq(said, FirstOf(said, part), FirstOf(said, part) + Len(part) - 1) = part
          /\ FirstOf(said, part) = 0 =>
               \A i \in 1..Len(said) - Len(part) + 1 : SubSeq(said, i, i + Len(part) - 1) # part
      BY <1>0, FirstOfFinds
    <3> QED BY <1>a, <3>1, Zenon
  <2> QED BY <1>0, <2>1, Zenon
<1>2. \A i \in Nat : i + 1 - 1 = i
  OBVIOUS
<1>3. ASSUME t = 0, NEW i \in Nat, TagAt(said, i) PROVE FALSE
  <2>1. i \in 1..Len(said) - 1 + 1 /\ i \in 1..Len(said)
    BY <1>0, <1>3 DEF TagAt
  <2>2. SubSeq(said, i, i) # part
    BY <1>1, <1>2, <1>3, <2>1
  <2> QED BY <1>3, <2>1, <2>2, TagHere DEF part
<1>4. ASSUME t # 0 PROVE TagAt(said, t)
  <2>1. t \in 1..Len(said) /\ t \in Nat
    BY <1>0, <1>1, <1>4
  <2>2. SubSeq(said, t, t) = part
    BY <1>1, <1>2, <1>4, <2>1, Zenon
  <2> QED BY <2>1, <2>2, TagHere DEF part
<1>5. ASSUME t # 0, NEW i \in 1..t - 1 PROVE ~TagAt(said, i)
  <2>1. i \in 1..Len(said) /\ i \in Nat
    BY <1>0, <1>1, <1>5
  <2>2. SubSeq(said, i, i + 1 - 1) # part
    BY <1>0, <1>a, <1>5, FirstOfLeast
  <2>3. SubSeq(said, i, i) # part
    BY <1>2, <2>1, <2>2
  <2> QED BY <2>1, <2>3, TagHere DEF part
<1> QED BY <1>1, <1>3, <1>4, <1>5

\* What a text starts with decides: nothing, a CDATA close or a tag.
LEMMA FirstThing ==
  ASSUME NEW said \in Seq(Symbols)
  PROVE  \/ NoneBefore(said, Len(said) + 1)
         \/ \E k \in 1..Len(said) : NoneBefore(said, k) /\ ClosesAt(said, k)
         \/ \E k \in 1..Len(said) : NoneBefore(said, k) /\ TagAt(said, k)
<1> PICK c : c = FirstOf(said, CDataClose)
  OBVIOUS
<1> PICK t : t = FirstOf(said, <<"<">>)
  OBVIOUS
<1>0. Len(said) \in Nat
  OBVIOUS
<1>1. /\ c \in 0..Len(said) /\ (c = 0 => \A i \in Nat : ~ClosesAt(said, i))
      /\ c # 0 => ClosesAt(said, c) /\ \A i \in 1..c - 1 : ~ClosesAt(said, i)
  BY FirstClose
<1>2. /\ t \in 0..Len(said) /\ (t = 0 => \A i \in Nat : ~TagAt(said, i))
      /\ t # 0 => TagAt(said, t) /\ \A i \in 1..t - 1 : ~TagAt(said, i)
  BY FirstTag
<1>3. CASE c = 0 /\ t = 0
  BY <1>0, <1>1, <1>2, <1>3 DEF NoneBefore
<1>4. CASE c # 0 /\ (t = 0 \/ c < t)
  <2>1. NoneBefore(said, c)
    BY <1>0, <1>1, <1>2, <1>4 DEF NoneBefore
  <2> QED BY <1>0, <1>1, <1>4, <2>1
<1>5. CASE t # 0 /\ (c = 0 \/ t <= c)
  <2>1. NoneBefore(said, t)
    BY <1>0, <1>1, <1>2, <1>5 DEF NoneBefore
  <2> QED BY <1>0, <1>2, <1>5, <2>1
<1> QED BY <1>0, <1>1, <1>2, <1>3, <1>4, <1>5
---------------------------------------------------------------------------
(* Texts in two parts *)

LEMMA JoinedUp ==
  ASSUME NEW p \in Seq(Symbols), NEW q \in Seq(Symbols)
  PROVE  /\ p \o q \in Seq(Symbols) /\ Len(p \o q) = Len(p) + Len(q)
         /\ Len(p) \in Nat /\ Len(q) \in Nat
         /\ \A i \in 1..Len(p) : (p \o q)[i] = p[i]
         /\ \A i \in 1..Len(q) : (p \o q)[Len(p) + i] = q[i]
OBVIOUS

LEMMA StartIsText ==
  ASSUME NEW said \in Seq(Symbols), NEW i \in 1..Len(said) + 1
  PROVE  /\ Before(said, i) \in Seq(Symbols) /\ Len(Before(said, i)) = i - 1
         /\ \A k \in 1..i - 1 : Before(said, i)[k] = said[k]
<1>0. Len(said) \in Nat /\ i \in Nat \ {0} /\ i - 1 \in Int /\ i - 1 <= Len(said) /\ 1 \in Nat \ {0}
  OBVIOUS
<1>1. /\ SubSeq(said, 1, i - 1) \in Seq(Symbols)
      /\ Len(SubSeq(said, 1, i - 1)) = IF 1 <= i - 1 THEN i - 1 - 1 + 1 ELSE 0
      /\ \A k \in 1..i - 1 - 1 + 1 : SubSeq(said, 1, i - 1)[k] = said[1 + k - 1]
  BY <1>0, PartsAreTexts
<1>2. Len(SubSeq(said, 1, i - 1)) = i - 1
  BY <1>0, <1>1
<1>3. \A k \in 1..i - 1 : k \in 1..i - 1 - 1 + 1 /\ 1 + k - 1 = k
  BY <1>0
<1>4. \A k \in 1..i - 1 : SubSeq(said, 1, i - 1)[k] = said[k]
  BY <1>1, <1>3, Zenon
<1> QED BY <1>1, <1>2, <1>4 DEF Before

LEMMA FrontCut ==
  ASSUME NEW p \in Seq(Symbols), NEW q \in Seq(Symbols), NEW i \in 1..Len(p) + 1
  PROVE  Before(p \o q, i) = Before(p, i) /\ From(p \o q, i) = From(p, i) \o q
<1> DEFINE w == p \o q
<1>0. /\ w \in Seq(Symbols) /\ Len(w) = Len(p) + Len(q) /\ Len(p) \in Nat /\ Len(q) \in Nat
      /\ \A k \in 1..Len(p) : w[k] = p[k]
      /\ \A k \in 1..Len(q) : w[Len(p) + k] = q[k]
  BY JoinedUp
<1> HIDE DEF w
<1>1. i \in 1..Len(w) + 1 /\ i \in Nat \ {0}
  BY <1>0
<1>2. Before(w, i) = Before(p, i)
  <2>1. /\ Before(w, i) \in Seq(Symbols) /\ Len(Before(w, i)) = i - 1
        /\ \A k \in 1..i - 1 : Before(w, i)[k] = w[k]
    BY <1>0, <1>1, StartIsText
  <2>2. /\ Before(p, i) \in Seq(Symbols) /\ Len(Before(p, i)) = i - 1
        /\ \A k \in 1..i - 1 : Before(p, i)[k] = p[k]
    BY StartIsText
  <2>3. \A k \in 1..i - 1 : k \in 1..Len(p)
    BY <1>0
  <2>4. \A k \in 1..i - 1 : Before(w, i)[k] = Before(p, i)[k]
    BY <1>0, <2>1, <2>2, <2>3
  <2> QED BY <2>1, <2>2, <2>4, SeqEqual
<1>3. From(w, i) = From(p, i) \o q
  <2> DEFINE f == From(p, i)
             g == From(w, i)
  <2>1. /\ g \in Seq(Symbols) /\ Len(g) = Len(w) - i + 1
        /\ \A k \in 1..Len(w) - i + 1 : g[k] = w[i + k - 1]
    BY <1>0, <1>1, RestIsText
  <2>2. /\ f \in Seq(Symbols) /\ Len(f) = Len(p) - i + 1
        /\ \A k \in 1..Len(p) - i + 1 : f[k] = p[i + k - 1]
    BY RestIsText
  <2> HIDE DEF f, g
  <2>3. /\ f \o q \in Seq(Symbols) /\ Len(f \o q) = Len(f) + Len(q)
        /\ \A k \in 1..Len(f) : (f \o q)[k] = f[k]
        /\ \A k \in 1..Len(q) : (f \o q)[Len(f) + k] = q[k]
    BY <2>2, JoinedUp
  <2>4. Len(f \o q) = Len(g)
    BY <1>0, <1>1, <2>1, <2>2, <2>3
  <2>5. ASSUME NEW k \in 1..Len(g) PROVE g[k] = (f \o q)[k]
    <3>1. CASE k <= Len(f)
      <4>1. k \in 1..Len(f) /\ k \in 1..Len(p) - i + 1 /\ i + k - 1 \in 1..Len(p) /\ k \in 1..Len(w) - i + 1
        <5>1. Len(f) = Len(p) - i + 1 /\ Len(g) = Len(w) - i + 1
          BY <2>1, <2>2, Zenon
        <5> QED BY <1>0, <1>1, <3>1, <5>1
      <4> QED BY <1>0, <2>1, <2>2, <2>3, <4>1
    <3>2. CASE k > Len(f)
      <4> DEFINE j == k - Len(f)
      <4>1. j \in 1..Len(q) /\ k = Len(f) + j /\ i + k - 1 = Len(p) + j /\ k \in 1..Len(w) - i + 1
        BY <1>0, <1>1, <2>1, <2>2, <3>2
      <4> HIDE DEF j
      <4>2. g[k] = w[i + k - 1] /\ w[Len(p) + j] = q[j] /\ (f \o q)[Len(f) + j] = q[j]
        BY <1>0, <2>1, <2>3, <4>1, Zenon
      <4> QED BY <4>1, <4>2, Zenon
    <3>3. k <= Len(f) \/ k > Len(f)
      BY <1>0, <1>1, <2>1, <2>2
    <3> QED BY <3>1, <3>2, <3>3, Zenon
  <2> QED BY <2>1, <2>3, <2>4, <2>5, SeqEqual DEF f, g
<1> QED BY <1>2, <1>3 DEF w

LEMMA BackCut ==
  ASSUME NEW p \in Seq(Symbols), NEW q \in Seq(Symbols), NEW i \in 1..Len(q) + 1
  PROVE  Before(p \o q, Len(p) + i) = p \o Before(q, i) /\ From(p \o q, Len(p) + i) = From(q, i)
<1> DEFINE w == p \o q
           n == Len(p) + i
<1>0. /\ w \in Seq(Symbols) /\ Len(w) = Len(p) + Len(q) /\ Len(p) \in Nat /\ Len(q) \in Nat
      /\ \A k \in 1..Len(p) : w[k] = p[k]
      /\ \A k \in 1..Len(q) : w[Len(p) + k] = q[k]
  BY JoinedUp
<1>1. n \in 1..Len(w) + 1 /\ n = Len(p) + i /\ i \in Nat \ {0}
  BY <1>0
<1> HIDE DEF w, n
<1>2. Before(w, n) = p \o Before(q, i)
  <2> DEFINE f == Before(q, i)
             g == Before(w, n)
  <2>1. /\ g \in Seq(Symbols) /\ Len(g) = n - 1
        /\ \A k \in 1..n - 1 : g[k] = w[k]
    BY <1>0, <1>1, StartIsText
  <2>2. /\ f \in Seq(Symbols) /\ Len(f) = i - 1
        /\ \A k \in 1..i - 1 : f[k] = q[k]
    BY StartIsText
  <2> HIDE DEF f, g
  <2>3. /\ p \o f \in Seq(Symbols) /\ Len(p \o f) = Len(p) + Len(f)
        /\ \A k \in 1..Len(p) : (p \o f)[k] = p[k]
        /\ \A k \in 1..Len(f) : (p \o f)[Len(p) + k] = f[k]
    BY <2>2, JoinedUp
  <2>4. Len(p \o f) = Len(g)
    BY <1>0, <1>1, <2>1, <2>2, <2>3
  <2>5. ASSUME NEW k \in 1..Len(g) PROVE g[k] = (p \o f)[k]
    <3>1. CASE k <= Len(p)
      <4>1. k \in 1..Len(p) /\ k \in 1..n - 1
        BY <1>0, <2>1, <3>1
      <4> QED BY <1>0, <2>1, <2>3, <4>1
    <3>2. CASE k > Len(p)
      <4> DEFINE j == k - Len(p)
      <4>1. j \in 1..Len(f) /\ j \in 1..i - 1 /\ j \in 1..Len(q) /\ k = Len(p) + j /\ k \in 1..n - 1
        BY <1>0, <1>1, <2>1, <2>2, <3>2
      <4> HIDE DEF j
      <4>2. g[k] = w[k] /\ w[Len(p) + j] = q[j] /\ (p \o f)[Len(p) + j] = f[j] /\ f[j] = q[j]
        BY <1>0, <2>1, <2>2, <2>3, <4>1, Zenon
      <4> QED BY <4>1, <4>2, Zenon
    <3>3. k <= Len(p) \/ k > Len(p)
      BY <1>0, <1>1, <2>1
    <3> QED BY <3>1, <3>2, <3>3, Zenon
  <2> QED BY <2>1, <2>3, <2>4, <2>5, SeqEqual DEF f, g
<1>3. From(w, n) = From(q, i)
  <2>1. /\ From(w, n) \in Seq(Symbols) /\ Len(From(w, n)) = Len(w) - n + 1
        /\ \A k \in 1..Len(w) - n + 1 : From(w, n)[k] = w[n + k - 1]
    BY <1>0, <1>1, RestIsText
  <2>2. /\ From(q, i) \in Seq(Symbols) /\ Len(From(q, i)) = Len(q) - i + 1
        /\ \A k \in 1..Len(q) - i + 1 : From(q, i)[k] = q[i + k - 1]
    BY RestIsText
  <2>3. Len(w) - n + 1 = Len(q) - i + 1
    BY <1>0, <1>1
  <2>4. ASSUME NEW k \in 1..Len(q) - i + 1 PROVE From(w, n)[k] = From(q, i)[k]
    <3> DEFINE j == i + k - 1
    <3>1. j \in 1..Len(q) /\ n + k - 1 = Len(p) + j
      BY <1>0, <1>1
    <3>2. From(w, n)[k] = w[n + k - 1] /\ From(q, i)[k] = q[j]
      BY <2>1, <2>2, <2>3
    <3> HIDE DEF j
    <3> QED BY <1>0, <3>1, <3>2
  <2> QED BY <2>1, <2>2, <2>3, <2>4, SeqEqual
<1> QED BY <1>2, <1>3 DEF w, n

\* A text is what comes before a place and what comes from it on.
LEMMA CutAnywhere ==
  ASSUME NEW said \in Seq(Symbols), NEW i \in 1..Len(said) + 1
  PROVE  Before(said, i) \o From(said, i) = said
<1> DEFINE p == Before(said, i)
           q == From(said, i)
<1>0. Len(said) \in Nat /\ i \in Nat \ {0}
  OBVIOUS
<1>1. /\ p \in Seq(Symbols) /\ Len(p) = i - 1
      /\ \A k \in 1..i - 1 : p[k] = said[k]
  BY StartIsText
<1>2. /\ q \in Seq(Symbols) /\ Len(q) = Len(said) - i + 1
      /\ \A k \in 1..Len(said) - i + 1 : q[k] = said[i + k - 1]
  BY RestIsText
<1> HIDE DEF p, q
<1>3. /\ p \o q \in Seq(Symbols) /\ Len(p \o q) = Len(p) + Len(q)
      /\ \A k \in 1..Len(p) : (p \o q)[k] = p[k]
      /\ \A k \in 1..Len(q) : (p \o q)[Len(p) + k] = q[k]
  BY <1>1, <1>2, JoinedUp
<1>4. Len(p \o q) = Len(said)
  BY <1>0, <1>1, <1>2, <1>3
<1>5. ASSUME NEW k \in 1..Len(said) PROVE (p \o q)[k] = said[k]
  <2>1. CASE k <= i - 1
    <3>1. k \in 1..Len(p) /\ k \in 1..i - 1
      BY <1>0, <1>1, <2>1
    <3> QED BY <1>1, <1>3, <3>1
  <2>2. CASE k > i - 1
    <3> DEFINE j == k - (i - 1)
    <3>1. j \in 1..Len(q) /\ j \in 1..Len(said) - i + 1 /\ k = Len(p) + j /\ i + j - 1 = k
      BY <1>0, <1>1, <1>2, <2>2
    <3> HIDE DEF j
    <3>2. (p \o q)[Len(p) + j] = q[j] /\ q[j] = said[i + j - 1]
      BY <1>2, <1>3, <3>1, Zenon
    <3> QED BY <3>1, <3>2, Zenon
  <2>3. k <= i - 1 \/ k > i - 1
    BY <1>0
  <2> QED BY <2>1, <2>2, <2>3, Zenon
<1> QED BY <1>3, <1>4, <1>5, SeqEqual DEF p, q

\* What a text starts with, it starts with however it goes on.
LEMMA FirstStays ==
  ASSUME NEW a \in Seq(Symbols), NEW b \in Seq(Symbols), NEW k \in 1..Len(a), NoneBefore(a, k),
         ClosesAt(a, k) \/ TagAt(a, k)
  PROVE  /\ NoneBefore(a \o b, k)
         /\ ClosesAt(a, k) => ClosesAt(a \o b, k)
         /\ TagAt(a, k) => TagAt(a \o b, k)
<1> DEFINE w == a \o b
<1>0. /\ Len(w) = Len(a) + Len(b) /\ Len(a) \in Nat /\ Len(b) \in Nat
      /\ \A i \in 1..Len(a) : w[i] = a[i]
  BY JoinedUp
<1> HIDE DEF w
<1>1. \A i \in 1..k : /\ i + 1 <= Len(a) => w[i + 1] = a[i + 1]
                      /\ i + 2 <= Len(a) => w[i + 2] = a[i + 2]
                      /\ w[i] = a[i]
  BY <1>0
<1>2. ASSUME NEW i \in 1..k - 1 PROVE ~ClosesAt(w, i) /\ ~TagAt(w, i)
  <2>1. ~ClosesAt(a, i) /\ ~TagAt(a, i) /\ i \in 1..k /\ i \in 1..Len(a)
    BY <1>0, <1>2 DEF NoneBefore
  <2>2. ~TagAt(w, i)
    BY <1>0, <2>1 DEF TagAt
  <2>3. CASE i + 2 <= Len(a)
    BY <1>0, <1>1, <2>1, <2>2, <2>3 DEF ClosesAt
  <2>4. CASE i + 2 > Len(a)
    <3>1. ~ClosesAt(a, k)
      BY <1>0, <2>4 DEF ClosesAt
    <3>2. a[k] = "<"
      BY <3>1 DEF TagAt
    <3>3. k = i + 1
      BY <1>0, <2>1, <2>4
    <3>4. w[i + 1] = "<"
      BY <1>0, <3>2, <3>3
    <3> QED BY <2>2, <3>4 DEF ClosesAt
  <2>5. i + 2 <= Len(a) \/ i + 2 > Len(a)
    BY <1>0
  <2> QED BY <2>3, <2>4, <2>5
<1>3. ClosesAt(a, k) => ClosesAt(w, k)
  BY <1>0, <1>1 DEF ClosesAt
<1>4. TagAt(a, k) => TagAt(w, k)
  BY <1>0 DEF TagAt
<1> QED BY <1>2, <1>3, <1>4 DEF NoneBefore, w

\* Behind a part with nothing of the kind, the first thing is the first of the rest.
LEMMA FirstBehind ==
  ASSUME NEW p \in Seq(Symbols), NEW t \in Seq(Symbols), NoneBefore(p \o t, Len(p) + 1),
         NEW k \in 1..Len(t) + 1, NoneBefore(t, k)
  PROVE  /\ NoneBefore(p \o t, Len(p) + k) /\ Len(p) + k \in 1..Len(p \o t) + 1
         /\ ClosesAt(t, k) => ClosesAt(p \o t, Len(p) + k)
         /\ TagAt(t, k) => TagAt(p \o t, Len(p) + k)
<1> DEFINE w == p \o t
<1>0. /\ Len(w) = Len(p) + Len(t) /\ Len(p) \in Nat /\ Len(t) \in Nat
      /\ \A i \in 1..Len(t) : w[Len(p) + i] = t[i]
      /\ \A i \in 1..Len(p) : ~ClosesAt(w, i) /\ ~TagAt(w, i)
  <2>1. \A i \in 1..Len(p) + 1 - 1 : ~ClosesAt(w, i) /\ ~TagAt(w, i)
    BY DEF NoneBefore
  <2>2. Len(p) + 1 - 1 = Len(p)
    BY JoinedUp
  <2> QED BY <2>1, <2>2, JoinedUp
<1> HIDE DEF w
<1>1. ASSUME NEW i \in 1..Len(t)
      PROVE  (ClosesAt(t, i) <=> ClosesAt(w, Len(p) + i)) /\ (TagAt(t, i) <=> TagAt(w, Len(p) + i))
  <2>1. w[Len(p) + i] = t[i] /\ Len(p) + i \in 1..Len(w) /\ Len(p) + i \in Nat \ {0} /\ i \in Nat \ {0}
    BY <1>0
  <2>2. TagAt(t, i) <=> TagAt(w, Len(p) + i)
    BY <2>1 DEF TagAt
  <2>3. CASE i + 2 <= Len(t)
    <3>0. /\ i \in Nat /\ Len(p) \in Nat /\ Len(t) \in Nat /\ Len(w) = Len(p) + Len(t)
          /\ i + 2 <= Len(t)
      BY <1>0, <2>1, <2>3
    <3>1. i + 1 \in 1..Len(t) /\ i + 2 \in 1..Len(t) /\ Len(p) + i + 2 <= Len(w)
          /\ Len(p) + i + 1 = Len(p) + (i + 1) /\ Len(p) + i + 2 = Len(p) + (i + 2)
      BY <3>0
    <3>2. w[Len(p) + i + 1] = t[i + 1] /\ w[Len(p) + i + 2] = t[i + 2]
      BY <1>0, <3>1
    <3> QED BY <2>1, <2>2, <2>3, <3>1, <3>2 DEF ClosesAt
  <2>4. CASE ~(i + 2 <= Len(t))
    BY <1>0, <2>1, <2>2, <2>4 DEF ClosesAt
  <2> QED BY <2>3, <2>4
<1>2. ASSUME NEW i \in 1..Len(p) + k - 1 PROVE ~ClosesAt(w, i) /\ ~TagAt(w, i)
  <2>1. CASE i <= Len(p)
    BY <1>0, <2>1
  <2>2. CASE ~(i <= Len(p))
    <3> DEFINE j == i - Len(p)
    <3>1. j \in 1..k - 1 /\ j \in 1..Len(t) /\ i = Len(p) + j
      BY <1>0, <2>2
    <3> HIDE DEF j
    <3> QED BY <1>1, <3>1 DEF NoneBefore
  <2> QED BY <2>1, <2>2
<1>3. Len(p) + k \in 1..Len(w) + 1
  BY <1>0
<1>4. ClosesAt(t, k) \/ TagAt(t, k) => k \in 1..Len(t)
  BY <1>0 DEF ClosesAt, TagAt
<1> QED BY <1>1, <1>2, <1>3, <1>4 DEF NoneBefore, w

\* How much of a text's end is held.
LEMMA HeldWidthIs ==
  ASSUME NEW t \in Seq(Symbols), NEW n \in Nat, n = Len(t)
  PROVE  HeldWidth(t) = IF n >= 2 /\ t[n] = "]" /\ t[n - 1] = "]" THEN 2
                        ELSE IF n >= 1 /\ t[n] = "]" THEN 1 ELSE 0
<1> DEFINE u == Reverse(t)
<1>1. u = [i \in 1..n |-> t[(n - i) + 1]]
  BY DEF Reverse
<1>2. u \in Seq(Symbols) /\ Len(u) = n /\ \A i \in 1..n : u[i] = t[(n - i) + 1]
  BY <1>1
<1>3. Reverse(<<"]", "]">>) = <<"]", "]">> /\ Reverse(<<"]">>) = <<"]">>
  BY DEF Reverse
<1> HIDE DEF u
<1>4. IsSuffix(<<"]", "]">>, t) <=> n >= 2 /\ t[n] = "]" /\ t[n - 1] = "]"
  <2>0. Len(<<"]", "]">>) = 2 /\ SubSeq(<<"]", "]">>, 1, 2) = <<"]", "]">>
    <3>1. <<"]", "]">> \in Seq(Symbols) /\ Len(<<"]", "]">>) = 2
      BY DEF Symbols
    <3> QED BY <3>1, SubSeqFull, Zenon
  <2>1. IsSuffix(<<"]", "]">>, t) <=> 2 <= n /\ <<"]", "]">> = SubSeq(u, 1, 2)
    <3>1. IsSuffix(<<"]", "]">>, t) <=> IsPrefix(<<"]", "]">>, u)
      BY <1>3, Zenon DEF IsSuffix, u
    <3> QED BY <1>2, <2>0, <3>1 DEF IsPrefix
  <2>2. CASE 2 <= n
    <3>1. Len(SubSeq(u, 1, 2)) = 2 /\ SubSeq(u, 1, 2)[1] = u[1] /\ SubSeq(u, 1, 2)[2] = u[2]
          /\ SubSeq(u, 1, 2) \in Seq(Symbols)
      BY <1>2, <2>2
    <3>2. u[1] = t[n] /\ u[2] = t[n - 1]
      BY <1>2, <2>2
    <3>3. <<"]", "]">> = SubSeq(u, 1, 2) <=> u[1] = "]" /\ u[2] = "]"
      BY <3>1
    <3> QED BY <2>1, <2>2, <3>2, <3>3
  <2> QED BY <2>1, <2>2
<1>5. IsSuffix(<<"]">>, t) <=> n >= 1 /\ t[n] = "]"
  <2>0. Len(<<"]">>) = 1 /\ SubSeq(<<"]">>, 1, 1) = <<"]">>
    <3>1. <<"]">> \in Seq(Symbols) /\ Len(<<"]">>) = 1
      BY DEF Symbols
    <3> QED BY <3>1, SubSeqFull, Zenon
  <2>1. IsSuffix(<<"]">>, t) <=> 1 <= n /\ <<"]">> = SubSeq(u, 1, 1)
    <3>1. IsSuffix(<<"]">>, t) <=> IsPrefix(<<"]">>, u)
      BY <1>3, Zenon DEF IsSuffix, u
    <3> QED BY <1>2, <2>0, <3>1 DEF IsPrefix
  <2>2. CASE 1 <= n
    <3>1. Len(SubSeq(u, 1, 1)) = 1 /\ SubSeq(u, 1, 1)[1] = u[1] /\ SubSeq(u, 1, 1) \in Seq(Symbols)
      BY <1>2, <2>2
    <3>2. u[1] = t[n]
      BY <1>2, <2>2
    <3>3. <<"]">> = SubSeq(u, 1, 1) <=> u[1] = "]"
      BY <3>1
    <3> QED BY <2>1, <2>2, <3>2, <3>3
  <2> QED BY <2>1, <2>2
<1> QED BY <1>4, <1>5, Zenon DEF HeldWidth

LEMMA HeldBehind ==
  ASSUME NEW p \in Seq(Symbols), NEW t \in Seq(Symbols), t # <<>>,
         Len(t) >= 2 \/ t[Len(t)] # "]" \/ p = <<>> \/ p[Len(p)] # "]"
  PROVE  HeldWidth(p \o t) = HeldWidth(t)
<1> DEFINE w == p \o t
           n == Len(w)
           m == Len(t)
<1>0. /\ w \in Seq(Symbols) /\ n = Len(p) + m /\ Len(p) \in Nat /\ m \in Nat /\ n \in Nat
      /\ \A i \in 1..Len(p) : w[i] = p[i]
      /\ \A i \in 1..m : w[Len(p) + i] = t[i]
      /\ m >= 1 /\ (p = <<>> => Len(p) = 0) /\ n = Len(w)
  <2>1. m >= 1 /\ (p = <<>> => Len(p) = 0)
    OBVIOUS
  <2> QED BY <2>1, JoinedUp
<1>1. HeldWidth(w) = IF n >= 2 /\ w[n] = "]" /\ w[n - 1] = "]" THEN 2
                     ELSE IF n >= 1 /\ w[n] = "]" THEN 1 ELSE 0
  <2> HIDE DEF w, n
  <2> QED BY <1>0, HeldWidthIs
<1>2. HeldWidth(t) = IF m >= 2 /\ t[m] = "]" /\ t[m - 1] = "]" THEN 2
                     ELSE IF m >= 1 /\ t[m] = "]" THEN 1 ELSE 0
  <2>1. m \in Nat /\ m = Len(t)
    BY <1>0
  <2> QED BY <2>1, HeldWidthIs
<1> HIDE DEF w, n
<1>3. w[n] = t[m]
  BY <1>0
<1>4. CASE m >= 2
  <2>1. w[n - 1] = t[m - 1]
    <3>1. n - 1 = Len(p) + (m - 1) /\ m - 1 \in 1..m
      BY <1>0, <1>4
    <3> QED BY <1>0, <3>1
  <2> QED BY <1>0, <1>1, <1>2, <1>3, <1>4, <2>1 DEF w
<1>5. CASE m < 2 /\ t[m] # "]"
  BY <1>1, <1>2, <1>3, <1>5 DEF w
<1>6. CASE m < 2 /\ t[m] = "]"
  <2>1. n >= 2 => n - 1 = Len(p) /\ Len(p) \in 1..Len(p)
    BY <1>0, <1>6
  <2>2. n >= 2 => w[n - 1] # "]"
    BY <1>0, <1>6, <2>1
  <2> QED BY <1>0, <1>1, <1>2, <1>3, <1>6, <2>2 DEF w
<1> QED BY <1>0, <1>4, <1>5, <1>6

\* A tag half read, and a fence behind a stray <.
LEMMA HalfTagIs ==
  ASSUME NEW rest \in Seq(Symbols), rest # <<>>, rest[1] = "<"
  PROVE  CouldBecomeTag(rest) <=> Len(rest) <= 3 /\ \A i \in 2..Len(rest) : rest[i] = "tick"
<1>1. ASSUME CouldBecomeTag(rest) PROVE Len(rest) <= 3 /\ \A i \in 2..Len(rest) : rest[i] = "tick"
  <2>a. rest \in HeldTexts
    BY <1>1, HalfATag
  <2>b. <<"]">>[1] # "<" /\ <<"]", "]">>[1] # "<"
    OBVIOUS
  <2>1. rest \in {<<"<">>, <<"<", "tick">>, <<"<", "tick", "tick">>}
    BY <2>a, <2>b, Zenon DEF HeldTexts
  <2>2. CASE rest = <<"<">>
    <3>1. Len(rest) = 1
      BY <2>2
    <3> QED BY <3>1
  <2>3. CASE rest = <<"<", "tick">>
    <3>1. Len(rest) = 2 /\ rest[2] = "tick"
      BY <2>3
    <3> QED BY <3>1
  <2>4. CASE rest = <<"<", "tick", "tick">>
    <3>1. Len(rest) = 3 /\ rest[2] = "tick" /\ rest[3] = "tick"
      BY <2>4
    <3> QED BY <3>1
  <2> QED BY <2>1, <2>2, <2>3, <2>4
<1>2. ASSUME Len(rest) <= 3, \A i \in 2..Len(rest) : rest[i] = "tick" PROVE CouldBecomeTag(rest)
  <2>1. Len(rest) \in 1..3
    <3>1. Len(rest) \in Nat /\ Len(rest) # 0
      OBVIOUS
    <3>2. Len(rest) <= 3
      BY <1>2
    <3>3. \A n \in Nat : n # 0 /\ n <= 3 => n \in 1..3
      OBVIOUS
    <3> QED BY <3>1, <3>2, <3>3, Zenon
  <2>2. CASE Len(rest) = 1
    <3>1. rest = <<"<">> /\ Tail(<<"<">>) = <<>>
      BY <2>2
    <3> QED BY <3>1 DEF CouldBecomeTag
  <2>3. CASE Len(rest) = 2
    <3>1. rest = <<"<", "tick">> /\ Tail(<<"<", "tick">>) = <<"tick">>
      BY <1>2, <2>3
    <3> QED BY <3>1 DEF CouldBecomeTag
  <2>4. CASE Len(rest) = 3
    <3>1. rest = <<"<", "tick", "tick">> /\ Tail(<<"<", "tick", "tick">>) = <<"tick", "tick">>
      BY <1>2, <2>4
    <3> QED BY <3>1 DEF CouldBecomeTag
  <2> QED BY <2>1, <2>2, <2>3, <2>4
<1> QED BY <1>1, <1>2

StrayFence == <<"<">> \o Fence
LEMMA StrayFenceIs ==
  ASSUME NEW rest \in Seq(Symbols), NEW n \in Nat, n = Len(rest)
  PROVE  IsPrefix(StrayFence, rest)
           <=> n >= 4 /\ rest[1] = "<" /\ rest[2] = "tick" /\ rest[3] = "tick" /\ rest[4] = "tick"
<1>1. /\ StrayFence = <<"<", "tick", "tick", "tick">>
      /\ Len(StrayFence) = 4 /\ SubSeq(StrayFence, 1, 4) = StrayFence
  <2> DEFINE lt == <<"<">>
  <2>1. lt \in Seq(Symbols) /\ Len(lt) = 1 /\ lt[1] = "<"
    BY DEF Symbols
  <2>2. Fence \in Seq(Symbols) /\ Len(Fence) = 3 /\ Fence[1] = "tick" /\ Fence[2] = "tick" /\ Fence[3] = "tick"
    BY Fences DEF Fence
  <2>3. StrayFence = lt \o Fence
    BY DEF StrayFence
  <2> HIDE DEF lt
  <2>4. /\ StrayFence \in Seq(Symbols) /\ Len(StrayFence) = 4 /\ StrayFence[1] = "<"
        /\ StrayFence[2] = "tick" /\ StrayFence[3] = "tick" /\ StrayFence[4] = "tick"
    <3>1. /\ lt \o Fence \in Seq(Symbols) /\ Len(lt \o Fence) = Len(lt) + Len(Fence)
          /\ \A i \in 1..Len(lt) : (lt \o Fence)[i] = lt[i]
          /\ \A i \in 1..Len(Fence) : (lt \o Fence)[Len(lt) + i] = Fence[i]
      BY <2>1, <2>2, JoinedUp
    <3>2. /\ StrayFence \in Seq(Symbols) /\ Len(StrayFence) = 1 + 3
          /\ \A i \in 1..1 : StrayFence[i] = lt[i]
          /\ \A i \in 1..3 : StrayFence[1 + i] = Fence[i]
      BY <2>1, <2>2, <2>3, <3>1, Zenon
    <3>3. StrayFence[1] = lt[1] /\ StrayFence[1 + 1] = Fence[1] /\ StrayFence[1 + 2] = Fence[2]
          /\ StrayFence[1 + 3] = Fence[3]
      BY <3>2
    <3> QED BY <2>1, <2>2, <3>2, <3>3
  <2>5. SubSeq(StrayFence, 1, 4) = StrayFence
    BY <2>4, SubSeqFull, Zenon
  <2>6. StrayFence = <<"<", "tick", "tick", "tick">>
    BY <2>4
  <2> QED BY <2>4, <2>5, <2>6
<1>3. IsPrefix(StrayFence, rest) <=> 4 <= n /\ StrayFence = SubSeq(rest, 1, 4)
  BY <1>1 DEF IsPrefix
<1>4. CASE 4 <= n
  <2> DEFINE s == SubSeq(rest, 1, 4)
  <2>1. Len(s) = 4 /\ s[1] = rest[1] /\ s[2] = rest[2] /\ s[3] = rest[3] /\ s[4] = rest[4] /\ s \in Seq(Symbols)
    BY <1>4
  <2> HIDE DEF s
  <2>2. s = <<"<", "tick", "tick", "tick">> <=> s[1] = "<" /\ s[2] = "tick" /\ s[3] = "tick" /\ s[4] = "tick"
    BY <2>1
  <2> QED BY <1>1, <1>3, <1>4, <2>1, <2>2 DEF s
<1> QED BY <1>3, <1>4

\* Once enough has come of a tag, what comes behind it does not matter.
LEMMA TagStays ==
  ASSUME NEW rest \in Seq(Symbols), rest # <<>>, rest[1] = "<", ~CouldBecomeTag(rest),
         NEW b \in Seq(Symbols)
  PROVE  /\ ~CouldBecomeTag(rest \o b) /\ (rest \o b)[2] = rest[2]
         /\ IsPrefix(StrayFence, rest \o b) <=> IsPrefix(StrayFence, rest)
         /\ From(rest \o b, 2) = From(rest, 2) \o b /\ From(rest \o b, 3) = From(rest, 3) \o b
<1> DEFINE w == rest \o b
           n == Len(rest)
           m == Len(w)
<1>0. /\ w \in Seq(Symbols) /\ m = n + Len(b) /\ n \in Nat /\ m \in Nat /\ Len(b) \in Nat
      /\ m = Len(w) /\ \A i \in 1..n : w[i] = rest[i]
  BY JoinedUp
<1>1. n >= 2 /\ n = Len(rest)
  BY HalfATag
<1>2. ~(n <= 3 /\ \A i \in 2..n : rest[i] = "tick")
  BY HalfTagIs
<1>3. From(w, 2) = From(rest, 2) \o b /\ From(w, 3) = From(rest, 3) \o b
  <2>1. 2 \in 1..Len(rest) + 1 /\ 3 \in 1..Len(rest) + 1
    BY <1>0, <1>1
  <2> QED BY <2>1, FrontCut
<1>4. IsPrefix(StrayFence, rest)
        <=> n >= 4 /\ rest[1] = "<" /\ rest[2] = "tick" /\ rest[3] = "tick" /\ rest[4] = "tick"
  BY <1>0, <1>1, StrayFenceIs
<1> HIDE DEF w, m, n
<1>5. IsPrefix(StrayFence, w)
        <=> m >= 4 /\ w[1] = "<" /\ w[2] = "tick" /\ w[3] = "tick" /\ w[4] = "tick"
  BY <1>0, StrayFenceIs
<1>6. w # <<>> /\ w[1] = "<" /\ w[2] = rest[2]
  <2>1. Len(w) # 0
    BY <1>0, <1>1
  <2>2. w # <<>>
    BY <2>1
  <2> QED BY <1>0, <1>1, <2>2
<1>7. CouldBecomeTag(w) <=> m <= 3 /\ \A i \in 2..m : w[i] = "tick"
  BY <1>0, <1>6, HalfTagIs
<1>8. ~(m <= 3 /\ \A i \in 2..m : w[i] = "tick")
  <2> SUFFICES ASSUME m <= 3, \A i \in 2..m : w[i] = "tick" PROVE FALSE
    OBVIOUS
  <2>1. n <= 3
    BY <1>0
  <2>2. \A i \in 2..n : i \in 2..m /\ i \in 1..n
    BY <1>0
  <2>3. \A i \in 2..n : rest[i] = "tick"
    BY <1>0, <2>2
  <2> QED BY <1>2, <2>1, <2>3
<1>9. IsPrefix(StrayFence, w) <=> IsPrefix(StrayFence, rest)
  <2>1. CASE n >= 4
    BY <1>0, <1>4, <1>5, <2>1
  <2>2. CASE n = 2
    <3>1. rest[2] # "tick"
      BY <1>2, <2>2
    <3> QED BY <1>4, <1>5, <1>6, <3>1
  <2>3. CASE n = 3
    <3>1. rest[2] # "tick" \/ rest[3] # "tick"
      BY <1>2, <2>3
    <3>2. w[2] = rest[2] /\ w[3] = rest[3]
      BY <1>0, <2>3
    <3> QED BY <1>4, <1>5, <3>1, <3>2
  <2> QED BY <1>0, <1>1, <2>1, <2>2, <2>3
<1> QED BY <1>3, <1>6, <1>7, <1>8, <1>9 DEF w
---------------------------------------------------------------------------
(* What is passed on in two parts *)

LEMMA HollowIs ==
  ASSUME NEW said \in Seq(Symbols)
  PROVE  Hollow(said) <=> \A i \in 1..Len(said) : said[i] = "nl" \/ \E k \in i - 2..i : ClosesAt(said, k)
<1>0. Len(said) \in Nat /\ DOMAIN said = 1..Len(said)
  OBVIOUS
<1>1. ASSUME NEW i \in 1..Len(said), NEW k \in i - 2..i
      PROVE  ({k, k + 2} \subseteq DOMAIN said /\ SubSeq(said, k, k + 2) = CDataClose) <=> ClosesAt(said, k)
  <2>1. CASE k \in 1..Len(said) - 2
    <3>1. k \in DOMAIN said /\ k + 2 \in DOMAIN said
      BY <1>0, <2>1
    <3>2. SubSeq(said, k, k + 2) = CDataClose <=> ClosesAt(said, k)
      BY <2>1, ClosesHere
    <3> QED BY <3>1, <3>2
  <2>2. CASE k \notin 1..Len(said) - 2
    <3>1. ~ClosesAt(said, k)
      BY <1>0, <2>2 DEF ClosesAt
    <3>2. ~({k, k + 2} \subseteq DOMAIN said)
      BY <1>0, <1>1, <2>2
    <3> QED BY <3>1, <3>2
  <2> QED BY <2>1, <2>2
<1>2. Hollow(said) <=> \A i \in DOMAIN said :
        said[i] = "nl" \/ \E k \in i - 2..i :
                            {k, k + 2} \subseteq DOMAIN said /\ SubSeq(said, k, k + 2) = CDataClose
  BY Zenon DEF Hollow
<1> QED BY <1>0, <1>1, <1>2, Zenon

LEMMA BlankHollow ==
  ASSUME NEW said \in Seq(Symbols), Blank(said)
  PROVE  Hollow(said)
BY HollowIs DEF Blank

LEMMA HollowJoined ==
  ASSUME NEW p \in Seq(Symbols), NEW q \in Seq(Symbols), Hollow(p), Hollow(q)
  PROVE  Hollow(p \o q)
<1> DEFINE w == p \o q
<1>0. /\ w \in Seq(Symbols) /\ Len(w) = Len(p) + Len(q) /\ Len(p) \in Nat /\ Len(q) \in Nat
      /\ \A i \in 1..Len(p) : w[i] = p[i]
      /\ \A i \in 1..Len(q) : w[Len(p) + i] = q[i]
  BY JoinedUp
<1> HIDE DEF w
<1>1. /\ \A i \in 1..Len(p) : p[i] = "nl" \/ \E k \in i - 2..i : ClosesAt(p, k)
      /\ \A i \in 1..Len(q) : q[i] = "nl" \/ \E k \in i - 2..i : ClosesAt(q, k)
  BY HollowIs
<1>2. ASSUME NEW k, ClosesAt(p, k) PROVE ClosesAt(w, k)
  <2>1. k \in 1..Len(p) /\ k + 1 \in 1..Len(p) /\ k + 2 \in 1..Len(p) /\ k + 2 <= Len(w) /\ k \in Nat \ {0}
    BY <1>0, <1>2 DEF ClosesAt
  <2> QED BY <1>0, <1>2, <2>1 DEF ClosesAt
<1>3. ASSUME NEW k, ClosesAt(q, k) PROVE ClosesAt(w, Len(p) + k)
  <2>1. k \in 1..Len(q) /\ k + 1 \in 1..Len(q) /\ k + 2 \in 1..Len(q) /\ Len(p) + k + 2 <= Len(w)
        /\ Len(p) + k \in Nat \ {0}
        /\ Len(p) + k + 1 = Len(p) + (k + 1) /\ Len(p) + k + 2 = Len(p) + (k + 2)
    BY <1>0, <1>3 DEF ClosesAt
  <2> QED BY <1>0, <1>3, <2>1 DEF ClosesAt
<1>4. ASSUME NEW i \in 1..Len(w) PROVE w[i] = "nl" \/ \E k \in i - 2..i : ClosesAt(w, k)
  <2>1. CASE i <= Len(p)
    <3>1. i \in 1..Len(p)
      BY <1>0, <2>1
    <3> QED BY <1>0, <1>1, <1>2, <3>1
  <2>2. CASE ~(i <= Len(p))
    <3> DEFINE j == i - Len(p)
    <3>1. j \in 1..Len(q) /\ i = Len(p) + j
      BY <1>0, <2>2
    <3> HIDE DEF j
    <3>2. CASE q[j] = "nl"
      BY <1>0, <3>1, <3>2
    <3>3. CASE q[j] # "nl"
      <4>1. PICK k \in j - 2..j : ClosesAt(q, k)
        BY <1>1, <3>1, <3>3
      <4>2. ClosesAt(w, Len(p) + k) /\ Len(p) + k \in i - 2..i
        BY <1>0, <1>3, <3>1, <4>1
      <4> QED BY <4>2
    <3> QED BY <3>2, <3>3
  <2> QED BY <2>1, <2>2
<1>5. Hollow(w)
  BY <1>0, <1>4, HollowIs
<1> QED BY <1>5 DEF w

LEMMA CloseHollow == Hollow(CDataClose)
<1>1. /\ CDataClose \in Seq(Symbols) /\ Len(CDataClose) = 3
      /\ CDataClose[1] = "]" /\ CDataClose[2] = "]" /\ CDataClose[3] = ">"
  BY Fences DEF CDataClose
<1>2. ClosesAt(CDataClose, 1)
  BY <1>1 DEF ClosesAt
<1>3. \A i \in 1..Len(CDataClose) : 1 \in i - 2..i
  BY <1>1
<1> QED BY <1>1, <1>2, <1>3, HollowIs

\* A text starts anew behind what is hollow, and however it goes on.
LEMMA AnewBehind ==
  ASSUME NEW p \in Seq(Symbols), NEW q \in Seq(Symbols), Hollow(p), StartsAnew(q)
  PROVE  StartsAnew(p \o q)
<1>1. PICK i \in DOMAIN q : q[i] \in {"tick", "<"} /\ Hollow(Before(q, i))
  BY DEF StartsAnew
<1>2. /\ i \in 1..Len(q) /\ i \in 1..Len(q) + 1
      /\ Before(q, i) \in Seq(Symbols)
  <2>1. i \in 1..Len(q) /\ i \in 1..Len(q) + 1
    OBVIOUS
  <2> QED BY <2>1, StartIsText
<1>3. Hollow(p \o Before(q, i))
  BY <1>1, <1>2, HollowJoined
<1>4. Before(p \o q, Len(p) + i) = p \o Before(q, i)
  BY <1>2, BackCut
<1>5. (p \o q)[Len(p) + i] = q[i] /\ Len(p) + i \in DOMAIN (p \o q)
  BY <1>2, JoinedUp
<1> HIDE DEF Hollow, Before
<1> QED BY <1>1, <1>3, <1>4, <1>5, Zenon DEF StartsAnew

LEMMA AnewStays ==
  ASSUME NEW p \in Seq(Symbols), NEW q \in Seq(Symbols), StartsAnew(p)
  PROVE  StartsAnew(p \o q)
<1>1. PICK i \in DOMAIN p : p[i] \in {"tick", "<"} /\ Hollow(Before(p, i))
  BY DEF StartsAnew
<1>2. i \in 1..Len(p) /\ i \in 1..Len(p) + 1
  OBVIOUS
<1>3. Before(p \o q, i) = Before(p, i)
  BY <1>2, FrontCut
<1>4. (p \o q)[i] = p[i] /\ i \in DOMAIN (p \o q)
  BY <1>2, JoinedUp
<1> QED BY <1>1, <1>3, <1>4, Zenon DEF StartsAnew

\* A text in which no fence and no tag is the first thing in an envelope, and one that
\* can be passed on a part at a time.
Tame(said) ==
  \A i \in 1..Len(said) : said[i] \in {"code>", "![CDATA["} => ~StartsAnew(From(said, i + 1))
Soft(r, said) == r.swallow => ~StartsAnew(said)

LEMMA TameParts ==
  ASSUME NEW p \in Seq(Symbols), NEW q \in Seq(Symbols), Tame(p \o q)
  PROVE  Tame(p) /\ Tame(q)
<1>0. /\ Len(p \o q) = Len(p) + Len(q) /\ Len(p) \in Nat /\ Len(q) \in Nat
      /\ \A i \in 1..Len(p) : (p \o q)[i] = p[i]
      /\ \A i \in 1..Len(q) : (p \o q)[Len(p) + i] = q[i]
  BY JoinedUp
<1>1. ASSUME NEW i \in 1..Len(p), p[i] \in {"code>", "![CDATA["}, StartsAnew(From(p, i + 1)) PROVE FALSE
  <2>1. i + 1 \in 1..Len(p) + 1 /\ i \in 1..Len(p \o q)
    BY <1>0
  <2>2. From(p \o q, i + 1) = From(p, i + 1) \o q /\ From(p, i + 1) \in Seq(Symbols)
    BY <2>1, FrontCut, RestIsText
  <2>3. StartsAnew(From(p \o q, i + 1))
    BY <1>1, <2>2, AnewStays
  <2> QED BY <1>0, <1>1, <2>1, <2>3, Zenon DEF Tame
<1>2. ASSUME NEW i \in 1..Len(q), q[i] \in {"code>", "![CDATA["}, StartsAnew(From(q, i + 1)) PROVE FALSE
  <2>1. i + 1 \in 1..Len(q) + 1 /\ Len(p) + i \in 1..Len(p \o q) /\ Len(p) + (i + 1) = (Len(p) + i) + 1
    BY <1>0
  <2>2. From(p \o q, Len(p) + (i + 1)) = From(q, i + 1)
    BY <2>1, BackCut
  <2> QED BY <1>0, <1>2, <2>1, <2>2, Zenon DEF Tame
<1> QED BY <1>1, <1>2 DEF Tame

LEMMA TameCut ==
  ASSUME NEW said \in Seq(Symbols), Tame(said), NEW i \in 1..Len(said) + 1
  PROVE  Tame(Before(said, i)) /\ Tame(From(said, i))
<1>1. Before(said, i) \in Seq(Symbols) /\ From(said, i) \in Seq(Symbols)
  BY StartIsText, RestIsText
<1>2. Tame(Before(said, i) \o From(said, i))
  BY CutAnywhere, Zenon
<1> QED BY <1>1, <1>2, TameParts, Zenon

LEMMA SoftParts ==
  ASSUME NEW p \in Seq(Symbols), NEW q \in Seq(Symbols), NEW r, Soft(r, p \o q)
  PROVE  Soft(r, p) /\ (Hollow(p) => Soft(r, q))
BY AnewBehind, AnewStays, Zenon DEF Soft

\* What is passed on is passed on as it is.
Passed(r, said) ==
  [held |-> r.held, fence |-> Observe(r.fence, said), swallow |-> r.swallow /\ Blank(said),
   lineStart |-> IF said = <<>> THEN r.lineStart ELSE Last(said) = "nl", out |-> r.out \o said]

LEMMA EmitAsItIs ==
  ASSUME NEW r, Knows(r), NEW said \in Seq(Symbols), Soft(r, said)
  PROVE  Emit(r, said) = Passed(r, said)
<1>1. ~Swallowed(r, said)
  <2> SUFFICES ASSUME Swallowed(r, said) PROVE FALSE
    OBVIOUS
  <2>1. r.swallow /\ ~Blank(said) /\ IsPrefix(Fence, Stripped(said))
    BY DEF Swallowed
  <2>2. PICK i \in 1..Len(said) :
          Stripped(said) = SubSeq(said, i, Len(said)) /\ said[i] # "nl" /\ Blank(Before(said, i))
    BY <2>1, StrippedIsThere
  <2>3. i \in 1..Len(said) + 1 /\ i \in DOMAIN said
    OBVIOUS
  <2> DEFINE t == From(said, i)
  <2>4. t \in Seq(Symbols) /\ t[1] = said[i] /\ Len(t) \in Nat
    <3>1. /\ t \in Seq(Symbols) /\ Len(t) = Len(said) - i + 1
          /\ \A k \in 1..Len(said) - i + 1 : t[k] = said[i + k - 1]
      BY <2>3, RestIsText
    <3>2. 1 \in 1..Len(said) - i + 1 /\ i + 1 - 1 = i /\ Len(said) \in Nat
      OBVIOUS
    <3> QED BY <3>1, <3>2
  <2>5. Stripped(said) = t
    BY <2>2 DEF From
  <2> HIDE DEF t
  <2>6. t[1] = "tick"
    <3>1. SubSeq(Fence, 1, 3) = SubSeq(t, 1, 3) /\ 3 <= Len(t)
      BY <2>1, <2>5, Fences DEF IsPrefix
    <3>2. SubSeq(Fence, 1, 3)[1] = Fence[1] /\ SubSeq(t, 1, 3)[1] = t[1]
      BY <2>4, <3>1, Fences
    <3>3. Fence[1] = "tick"
      BY DEF Fence
    <3> QED BY <3>1, <3>2, <3>3
  <2>7. Hollow(Before(said, i))
    BY <2>2, <2>3, StartIsText, BlankHollow
  <2>8. StartsAnew(said)
    BY <2>3, <2>4, <2>6, <2>7, Zenon DEF StartsAnew
  <2> QED BY <2>1, <2>8 DEF Soft
<1> DEFINE swallow == r.swallow /\ Blank(said)
           lineStart == IF said = <<>> THEN r.lineStart ELSE Last(said) = "nl"
<1>2. r \in Repairs
  BY DEF Knows
<1>3. Emit(r, said) = [r EXCEPT !.swallow = swallow, !.out = @ \o said,
                                !.fence = Observe(r.fence, said), !.lineStart = lineStart]
  BY <1>1, Zenon DEF Emit, Observed
<1>4. Passed(r, said) = [held |-> r.held, fence |-> Observe(r.fence, said), swallow |-> swallow,
                         lineStart |-> lineStart, out |-> r.out \o said]
  BY Zenon DEF Passed
<1> HIDE DEF swallow, lineStart
<1> QED BY <1>2, <1>3, <1>4 DEF Repairs

\* Two parts passed on one after the other are the whole passed on.
LEMMA EmitInTwo ==
  ASSUME NEW r, Knows(r), NEW p \in Seq(Symbols), NEW q \in Seq(Symbols), Soft(r, p \o q)
  PROVE  Emit(r, p \o q) = Emit(Emit(r, p), q)
<1> DEFINE e == Emit(r, p)
           w == p \o q
<1>0. w \in Seq(Symbols)
  BY JoinedUp
<1>1. Emit(r, w) = Passed(r, w)
  BY <1>0, EmitAsItIs
<1>2. e = Passed(r, p) /\ Knows(e)
  BY SoftParts, EmitAsItIs, EmitKnows
<1>3. /\ e.held = r.held /\ e.fence = Observe(r.fence, p) /\ e.out = r.out \o p
      /\ e.swallow = (r.swallow /\ Blank(p))
      /\ e.lineStart = IF p = <<>> THEN r.lineStart ELSE Last(p) = "nl"
  <2> HIDE DEF e
  <2> QED BY <1>2, Zenon DEF Passed
<1>4. Soft(e, q)
  <2>1. e.swallow => r.swallow /\ Hollow(p)
    <3> HIDE DEF e
    <3> QED BY <1>3, BlankHollow
  <2>2. r.swallow /\ Hollow(p) => ~StartsAnew(q)
    BY SoftParts, Zenon DEF Soft
  <2> QED BY <2>1, <2>2, Zenon DEF Soft
<1> HIDE DEF e
<1>5. Emit(e, q) = Passed(e, q)
  BY <1>2, <1>4, EmitAsItIs
<1>6. Observe(r.fence, w) = Observe(e.fence, q)
  <2>1. r.fence \in Parser
    BY DEF Knows, Repairs
  <2> QED BY <1>3, <2>1, ObserveConcat
<1>7. r.out \o w = e.out \o q
  <2>1. r.out \in Seq(Symbols)
    BY DEF Knows, Repairs
  <2>2. \A a \in Seq(Symbols) : (a \o p) \o q = a \o (p \o q)
    OBVIOUS
  <2>3. (r.out \o p) \o q = r.out \o (p \o q)
    BY <2>1, <2>2, Zenon
  <2> QED BY <1>3, <2>3
<1>8. (r.swallow /\ Blank(w)) = (e.swallow /\ Blank(q))
  <2>1. Blank(w) <=> Blank(p) /\ Blank(q)
    <3>0. /\ Len(w) = Len(p) + Len(q) /\ Len(p) \in Nat /\ Len(q) \in Nat
          /\ \A i \in 1..Len(p) : w[i] = p[i]
          /\ \A i \in 1..Len(q) : w[Len(p) + i] = q[i]
          /\ DOMAIN p = 1..Len(p) /\ DOMAIN q = 1..Len(q) /\ DOMAIN w = 1..Len(w)
      BY <1>0, JoinedUp
    <3> HIDE DEF w
    <3>1. Blank(w) => Blank(p)
      BY <3>0 DEF Blank
    <3>2. Blank(w) => Blank(q)
      <4> SUFFICES ASSUME Blank(w), NEW i \in 1..Len(q) PROVE q[i] = "nl"
        BY <3>0 DEF Blank
      <4>1. Len(p) + i \in 1..Len(w)
        BY <3>0
      <4> QED BY <3>0, <4>1 DEF Blank
    <3>3. Blank(p) /\ Blank(q) => Blank(w)
      <4> SUFFICES ASSUME Blank(p), Blank(q), NEW i \in 1..Len(w) PROVE w[i] = "nl"
        BY <3>0 DEF Blank
      <4>1. CASE i <= Len(p)
        BY <3>0, <4>1 DEF Blank
      <4>2. CASE ~(i <= Len(p))
        <5>1. i - Len(p) \in 1..Len(q) /\ i = Len(p) + (i - Len(p))
          BY <3>0, <4>2
        <5> QED BY <3>0, <5>1 DEF Blank
      <4> QED BY <4>1, <4>2
    <3> QED BY <3>1, <3>2, <3>3
  <2>2. e.swallow = (r.swallow /\ Blank(p))
    BY <1>3
  <2> HIDE DEF w
  <2> QED BY <2>1, <2>2, Zenon
<1>9. (IF w = <<>> THEN r.lineStart ELSE Last(w) = "nl") = (IF q = <<>> THEN e.lineStart ELSE Last(q) = "nl")
  <2>1. CASE q = <<>>
    <3>1. w = p
      BY <2>1, ConcatEmptySeq
    <3> HIDE DEF w
    <3> QED BY <1>3, <2>1, <3>1, Zenon
  <2>2. CASE q # <<>>
    <3>1. Len(q) \in 1..Len(q) /\ Len(q) \in Nat
      BY <2>2
    <3>2. w # <<>> /\ w[Len(w)] = q[Len(q)]
      <4>1. Len(w) = Len(p) + Len(q) /\ w[Len(p) + Len(q)] = q[Len(q)] /\ Len(w) # 0
        BY <3>1, JoinedUp
      <4> HIDE DEF w
      <4> QED BY <4>1
    <3> HIDE DEF w
    <3> QED BY <2>2, <3>2, Zenon DEF Last
  <2> QED BY <2>1, <2>2
<1>10. Passed(r, w) = Passed(e, q)
  <2> HIDE DEF w
  <2> QED BY <1>3, <1>6, <1>7, <1>8, <1>9, Zenon DEF Passed
<1> QED BY <1>1, <1>5, <1>10 DEF e, w
---------------------------------------------------------------------------
(* A pass, by the first thing in the buffer *)

LoopAt(r, unread) == [repair |-> r, buf |-> unread]

\* What a pass makes of a buffer from its first tag on.
AtTag(r, rest) ==
  IF CouldBecomeTag(rest) THEN LoopAt([r EXCEPT !.held = rest], <<>>)
  ELSE IF rest[2] \in {"![CDATA[", "code>"} THEN LoopAt(OpenFence(r), From(rest, 3))
  ELSE IF rest[2] = "/code>" THEN LoopAt(CloseFence(r), From(rest, 3))
  ELSE IF IsPrefix(StrayFence, rest) /\ r.lineStart THEN LoopAt(r, From(rest, 2))
  ELSE LoopAt(Emit(r, <<"<">>), From(rest, 2))

\* And of one with nothing to find in it.
Kept(said) == Len(said) - HeldWidth(said)
AtRest(r, said) ==
  LoopAt([Emit(r, SubSeq(said, 1, Kept(said))) EXCEPT !.held = From(said, Kept(said) + 1)], <<>>)

LEMMA PassCases ==
  ASSUME NEW r, Knows(r), NEW buf \in Seq(Symbols), NEW k \in 1..Len(buf) + 1, NoneBefore(buf, k)
  PROVE  /\ buf = <<>> => Pass[LoopAt(r, buf)] = LoopAt(r, buf)
         /\ buf # <<>> /\ k = Len(buf) + 1 => Pass[LoopAt(r, buf)] = AtRest(r, buf)
         /\ ClosesAt(buf, k) =>
              Pass[LoopAt(r, buf)] = LoopAt(CloseFence(Emit(r, Before(buf, k))), From(buf, k + 3))
         /\ TagAt(buf, k) => Pass[LoopAt(r, buf)] = AtTag(Emit(r, Before(buf, k)), From(buf, k))
<1> DEFINE loop == LoopAt(r, buf)
           close  == FirstOf(buf, CDataClose)
           lt     == FirstOf(buf, <<"<">>)
           passed == Emit(r, Before(buf, lt))
           rest   == From(buf, lt)
           tail   == Len(buf) - HeldWidth(buf)
<1>0. loop \in Loops /\ Len(buf) \in Nat /\ k \in Nat \ {0} /\ Len(CDataClose) = 3
  BY Fences DEF Knows, Loops, LoopAt
<1>a. loop.buf = buf /\ loop.repair = r
  BY DEF LoopAt
<1>1. Pass[loop] =
        IF buf = <<>> THEN loop
        ELSE IF close # 0 /\ (lt = 0 \/ close < lt)
             THEN LoopAt(CloseFence(Emit(r, Before(buf, close))), From(buf, close + Len(CDataClose)))
        ELSE IF lt = 0
             THEN LoopAt([Emit(r, SubSeq(buf, 1, tail)) EXCEPT !.held = From(buf, tail + 1)], <<>>)
        ELSE IF CouldBecomeTag(rest) THEN LoopAt([passed EXCEPT !.held = rest], <<>>)
        ELSE IF rest[2] \in {"![CDATA[", "code>"} THEN LoopAt(OpenFence(passed), From(rest, 3))
        ELSE IF rest[2] = "/code>" THEN LoopAt(CloseFence(passed), From(rest, 3))
        ELSE IF IsPrefix(<<"<">> \o Fence, rest) /\ passed.lineStart THEN LoopAt(passed, From(rest, 2))
        ELSE LoopAt(Emit(passed, <<"<">>), From(rest, 2))
  <2> HIDE DEF loop
  <2> QED BY <1>0, <1>a, Zenon DEF Pass, LoopAt
<1>2. /\ close \in 0..Len(buf) /\ (close = 0 => \A i \in Nat : ~ClosesAt(buf, i))
      /\ close # 0 => ClosesAt(buf, close) /\ \A i \in 1..close - 1 : ~ClosesAt(buf, i)
  BY FirstClose
<1>3. /\ lt \in 0..Len(buf) /\ (lt = 0 => \A i \in Nat : ~TagAt(buf, i))
      /\ lt # 0 => TagAt(buf, lt) /\ \A i \in 1..lt - 1 : ~TagAt(buf, i)
  BY FirstTag
<1> HIDE DEF loop, close, lt
<1>4. \A i \in 1..k - 1 : ~ClosesAt(buf, i) /\ ~TagAt(buf, i)
  BY DEF NoneBefore
<1>5. \A i : ~(ClosesAt(buf, i) /\ TagAt(buf, i))
  BY DEF ClosesAt, TagAt
<1>6. ASSUME k = Len(buf) + 1 PROVE close = 0 /\ lt = 0
  <2>1. close \in 1..k - 1 \/ close = 0
    BY <1>0, <1>2, <1>6
  <2>2. lt \in 1..k - 1 \/ lt = 0
    BY <1>0, <1>3, <1>6
  <2> QED BY <1>2, <1>3, <1>4, <2>1, <2>2
<1>7. ASSUME ClosesAt(buf, k) PROVE close = k /\ (lt = 0 \/ k < lt) /\ buf # <<>> /\ k # 0
  <2>1. k \in 1..Len(buf)
    BY <1>0, <1>7 DEF ClosesAt
  <2>2. close # 0
    BY <1>0, <1>2, <1>7
  <2>3. close = k
    <3>1. close \in Nat \ {0} /\ close \notin 1..k - 1
      BY <1>0, <1>2, <1>4, <2>2
    <3>2. k \notin 1..close - 1
      BY <1>2, <1>7, <2>2
    <3> QED BY <1>0, <3>1, <3>2
  <2>4. lt = 0 \/ k < lt
    <3>1. lt # 0 => lt \notin 1..k - 1 /\ lt # k /\ lt \in Nat
      BY <1>0, <1>3, <1>4, <1>5, <1>7
    <3> QED BY <1>0, <3>1
  <2> QED BY <1>0, <2>1, <2>3, <2>4
<1>8. ASSUME TagAt(buf, k) PROVE lt = k /\ ~(close # 0 /\ (lt = 0 \/ close < lt)) /\ buf # <<>> /\ k # 0
  <2>1. k \in 1..Len(buf)
    BY <1>0, <1>8 DEF TagAt
  <2>2. lt # 0
    BY <1>0, <1>3, <1>8
  <2>3. lt = k
    <3>1. lt \in Nat \ {0} /\ lt \notin 1..k - 1
      BY <1>0, <1>3, <1>4, <2>2
    <3>2. k \notin 1..lt - 1
      BY <1>3, <1>8, <2>2
    <3> QED BY <1>0, <3>1, <3>2
  <2>4. close # 0 => ~(close < lt)
    <3>1. close # 0 => close \notin 1..k - 1 /\ close \in Nat
      BY <1>0, <1>2, <1>4
    <3> QED BY <1>0, <2>3, <3>1
  <2> QED BY <1>0, <2>1, <2>2, <2>3, <2>4
<1>9. buf = <<>> => Pass[loop] = loop
  BY <1>1, Zenon
<1>10. buf # <<>> /\ k = Len(buf) + 1 => Pass[loop] = AtRest(r, buf)
  BY <1>1, <1>6, Zenon DEF AtRest, Kept
<1>11. ASSUME ClosesAt(buf, k)
       PROVE  Pass[loop] = LoopAt(CloseFence(Emit(r, Before(buf, k))), From(buf, k + 3))
  <2>1. Pass[loop] = LoopAt(CloseFence(Emit(r, Before(buf, close))), From(buf, close + Len(CDataClose)))
    BY <1>1, <1>7, <1>11, Zenon
  <2> QED BY <1>0, <1>7, <1>11, <2>1, Zenon
<1>12. ASSUME TagAt(buf, k) PROVE Pass[loop] = AtTag(Emit(r, Before(buf, k)), From(buf, k))
  <2>1. lt # 0
    BY <1>8, <1>12, Zenon
  <2>2. Pass[loop] = AtTag(passed, rest)
    <3> HIDE DEF passed, rest
    <3> QED BY <1>1, <1>8, <1>12, <2>1, Zenon DEF AtTag, StrayFence
  <2> QED BY <1>8, <1>12, <2>2, Zenon
<1> QED BY <1>9, <1>10, <1>11, <1>12 DEF loop

\* The loop is a pass, and the loop over what it left.
LEMMA RewriteUnrolls ==
  ASSUME NEW r, Knows(r), r.held \in HeldTexts, NEW buf \in Seq(Symbols), buf # <<>>,
         NEW r1, NEW buf1, Pass[LoopAt(r, buf)] = LoopAt(r1, buf1)
  PROVE  /\ Rewrite(r, buf) = Rewrite(r1, buf1)
         /\ Knows(r1) /\ r1.held \in HeldTexts /\ buf1 \in Seq(Symbols) /\ Len(buf1) < Len(buf)
<1> DEFINE N == Len(buf)
           M == Len(buf1)
<1>1. LoopAt(r, buf) \in Steady /\ LoopAt(r, buf).buf = buf
  BY LeftSteady DEF LoopAt
<1>2. LoopAt(r1, buf1) \in Steady /\ Len(LoopAt(r1, buf1).buf) < Len(buf)
  BY <1>1, PassSteady
<1>3. Knows(r1) /\ r1.held \in HeldTexts /\ buf1 \in Seq(Symbols) /\ M < N /\ M \in Nat /\ N \in Nat
  BY <1>2 DEF Steady, Loops, LoopAt
<1>4. PICK f : Looped(f, r, buf) /\ Rewrite(r, buf) = f[N].repair
  BY <1>1, RewriteEnds
<1>5. PICK g : /\ Looped(g, r1, buf1) /\ Rewrite(r1, buf1) = g[M].repair
               /\ g[M] \in Steady /\ g[M].buf = <<>>
  BY <1>3, RewriteEnds
<1> HIDE DEF N, M
<1>6. f[0] = LoopAt(r, buf) /\ \A n \in 0..N : n # 0 => f[n] = Pass[f[n - 1]]
  <2>1. f = [n \in 0..N |-> IF n = 0 THEN LoopAt(r, buf) ELSE Pass[f[n - 1]]]
    BY <1>4, Zenon DEF Looped, LoopAt, N
  <2> QED BY <1>3, <2>1
<1>7. g[0] = LoopAt(r1, buf1) /\ \A n \in 0..M : n # 0 => g[n] = Pass[g[n - 1]]
  <2>1. g = [n \in 0..M |-> IF n = 0 THEN LoopAt(r1, buf1) ELSE Pass[g[n - 1]]]
    BY <1>5, Zenon DEF Looped, LoopAt, M
  <2> QED BY <1>3, <2>1
<1>8. f[1] = g[0]
  <2>1. 1 \in 0..N /\ 1 # 0 /\ 1 - 1 = 0
    BY <1>3
  <2> QED BY <1>6, <1>7, <2>1
<1>9. f[M + 1] = g[M]
  <2> DEFINE P == {k \in Nat : k <= M => f[k + 1] = g[k]}
  <2>1. 0 \in P
    BY <1>8
  <2>2. ASSUME NEW k \in Nat, k \in P PROVE k + 1 \in P
    <3> SUFFICES ASSUME k + 1 <= M PROVE f[(k + 1) + 1] = g[k + 1]
      OBVIOUS
    <3>1. /\ f[k + 1] = g[k]
          /\ k + 1 \in 0..M /\ k + 1 # 0 /\ (k + 1) - 1 = k
          /\ (k + 1) + 1 \in 0..N /\ (k + 1) + 1 # 0 /\ ((k + 1) + 1) - 1 = k + 1
      BY <1>3, <2>2
    <3>2. f[(k + 1) + 1] = Pass[f[k + 1]] /\ g[k + 1] = Pass[g[k]]
      BY <1>6, <1>7, <3>1
    <3> QED BY <3>1, <3>2
  <2>3. Nat \subseteq P
    <3> HIDE DEF P
    <3> QED BY <2>1, <2>2, NaturalSets
  <2> QED BY <1>3, <2>3
<1>10. Pass[g[M]] = g[M]
  <2>1. g[M] = LoopAt(g[M].repair, g[M].buf) /\ Knows(g[M].repair)
    BY <1>5 DEF Steady, Loops, LoopAt
  <2>2. <<>> \in Seq(Symbols) /\ 1 \in 1..Len(<<>>) + 1 /\ NoneBefore(<<>>, 1)
    BY DEF NoneBefore
  <2>3. Pass[LoopAt(g[M].repair, <<>>)] = LoopAt(g[M].repair, <<>>)
    BY <2>1, <2>2, PassCases
  <2> QED BY <1>5, <2>1, <2>3
<1>11. f[N] = g[M]
  <2> DEFINE P == {k \in Nat : (M + 1) + k <= N => f[(M + 1) + k] = g[M]}
  <2>1. 0 \in P
    BY <1>3, <1>9
  <2>2. ASSUME NEW k \in Nat, k \in P PROVE k + 1 \in P
    <3> SUFFICES ASSUME (M + 1) + (k + 1) <= N PROVE f[(M + 1) + (k + 1)] = g[M]
      OBVIOUS
    <3>1. /\ f[(M + 1) + k] = g[M]
          /\ (M + 1) + (k + 1) \in 0..N /\ (M + 1) + (k + 1) # 0
          /\ ((M + 1) + (k + 1)) - 1 = (M + 1) + k
      BY <1>3, <2>2
    <3>2. f[(M + 1) + (k + 1)] = Pass[f[(M + 1) + k]]
      BY <1>6, <3>1
    <3> QED BY <1>10, <3>1, <3>2
  <2>3. Nat \subseteq P
    <3> HIDE DEF P
    <3> QED BY <2>1, <2>2, NaturalSets
  <2>4. PICK d \in Nat : N = (M + 1) + d
    <3>1. N - (M + 1) \in Nat /\ (M + 1) + (N - (M + 1)) = N
      BY <1>3
    <3> QED BY <3>1
  <2>5. (M + 1) + d <= N
    BY <1>3, <2>4
  <2> QED BY <2>3, <2>4, <2>5
<1> QED BY <1>3, <1>4, <1>5, <1>11 DEF N, M

\* There is nothing in an empty buffer.
LEMMA RewriteNothing ==
  ASSUME NEW r, Knows(r), r.held \in HeldTexts
  PROVE  Rewrite(r, <<>>) = r
<1>1. <<>> \in Seq(Symbols) /\ Len(<<>>) = 0
  OBVIOUS
<1>2. PICK f : Looped(f, r, <<>>) /\ Rewrite(r, <<>>) = f[Len(<<>>)].repair
  BY <1>1, RewriteEnds
<1>3. f[0] = LoopAt(r, <<>>)
  BY <1>1, <1>2 DEF Looped, LoopAt
<1> QED BY <1>1, <1>2, <1>3 DEF LoopAt

LEMMA Associates ==
  ASSUME NEW p \in Seq(Symbols), NEW q \in Seq(Symbols), NEW t \in Seq(Symbols)
  PROVE  (p \o q) \o t = p \o (q \o t)
  OBVIOUS

\* What is passed on of the front in two goes.
LEMMA FrontInTwo ==
  ASSUME NEW r, Knows(r), NEW p \in Seq(Symbols), NEW t \in Seq(Symbols), Soft(r, p \o t),
         NEW i \in 1..Len(t) + 1
  PROVE  /\ Emit(r, Before(p \o t, Len(p) + i)) = Emit(Emit(r, p), Before(t, i))
         /\ From(p \o t, Len(p) + i) = From(t, i)
<1>1. /\ Before(p \o t, Len(p) + i) = p \o Before(t, i)
      /\ From(p \o t, Len(p) + i) = From(t, i)
  BY BackCut
<1>2. Before(t, i) \in Seq(Symbols) /\ From(t, i) \in Seq(Symbols) /\ Before(t, i) \o From(t, i) = t
  BY StartIsText, RestIsText, CutAnywhere
<1> DEFINE q == Before(t, i)
           u == From(t, i)
<1> HIDE DEF q, u
<1>3. p \o q \in Seq(Symbols) /\ q \in Seq(Symbols) /\ u \in Seq(Symbols) /\ q \o u = t
  BY <1>2, JoinedUp DEF q, u
<1>4. Soft(r, p \o q)
  <2>1. (p \o q) \o u = p \o (q \o u)
    BY <1>3, Associates, Zenon
  <2>2. Soft(r, (p \o q) \o u)
    BY <1>3, <2>1, Zenon
  <2> QED BY <1>3, <2>2, SoftParts
<1>5. Emit(r, p \o q) = Emit(Emit(r, p), q)
  BY <1>3, <1>4, EmitInTwo
<1> QED BY <1>1, <1>5, Zenon DEF q

\* A front with nothing to find in it may as well have been passed on before.
LEMMA PassSame ==
  ASSUME NEW r, Knows(r), NEW p \in Seq(Symbols), NEW t \in Seq(Symbols), t # <<>>,
         Soft(r, p \o t), NoneBefore(p \o t, Len(p) + 1),
         Len(t) >= 2 \/ t[Len(t)] # "]" \/ p = <<>> \/ p[Len(p)] # "]"
  PROVE  Pass[LoopAt(r, p \o t)] = Pass[LoopAt(Emit(r, p), t)]
<1> DEFINE w == p \o t
           e == Emit(r, p)
<1>0. /\ w \in Seq(Symbols) /\ Len(w) = Len(p) + Len(t) /\ Len(p) \in Nat /\ Len(t) \in Nat
      /\ w # <<>> /\ Knows(e)
  <2>1. w \in Seq(Symbols) /\ Len(w) = Len(p) + Len(t) /\ Len(p) \in Nat /\ Len(t) \in Nat /\ Len(t) # 0
    BY JoinedUp
  <2>2. Len(w) # 0
    <3> HIDE DEF w
    <3> QED BY <2>1
  <2>3. w # <<>>
    <3> HIDE DEF w
    <3> QED BY <2>2
  <2> QED BY <2>1, <2>3, EmitKnows
<1>1. \A i \in 1..Len(t) + 1 :
        Emit(r, Before(w, Len(p) + i)) = Emit(e, Before(t, i)) /\ From(w, Len(p) + i) = From(t, i)
  BY FrontInTwo
<1>2. \A k \in 1..Len(t) + 1 : NoneBefore(t, k) =>
         /\ NoneBefore(w, Len(p) + k) /\ Len(p) + k \in 1..Len(w) + 1
         /\ ClosesAt(t, k) => ClosesAt(w, Len(p) + k)
         /\ TagAt(t, k) => TagAt(w, Len(p) + k)
  BY FirstBehind
<1>3. HeldWidth(w) = HeldWidth(t)
  BY HeldBehind
<1> HIDE DEF w, e
<1>4. CASE NoneBefore(t, Len(t) + 1)
  <2>1. Len(t) + 1 \in 1..Len(t) + 1 /\ Len(p) + (Len(t) + 1) = Len(w) + 1
    BY <1>0
  <2>2. NoneBefore(w, Len(w) + 1) /\ Len(w) + 1 \in 1..Len(w) + 1
    BY <1>2, <1>4, <2>1
  <2>3. Pass[LoopAt(r, w)] = AtRest(r, w)
    BY <1>0, <2>2, PassCases
  <2>4. Pass[LoopAt(e, t)] = AtRest(e, t)
    BY <1>0, <1>4, <2>1, PassCases
  <2> DEFINE n == Kept(t)
  <2>5. n \in 0..Len(t)
    BY HeldAtTheEnd DEF Kept
  <2>6. Kept(w) = Len(p) + n
    <3>1. HeldWidth(t) \in {0, 1, 2}
      BY DEF HeldWidth
    <3>2. Kept(w) = Len(w) - HeldWidth(t) /\ n = Len(t) - HeldWidth(t)
      BY <1>3, Zenon DEF Kept
    <3> HIDE DEF n
    <3>3. \A x, y, z \in Nat, d \in {0, 1, 2} : x = y + z => x - d = y + (z - d)
      OBVIOUS
    <3>4. Len(w) \in Nat
      BY <1>0
    <3> QED BY <1>0, <3>1, <3>2, <3>3, <3>4, Zenon
  <2> HIDE DEF n
  <2>7. n + 1 \in 1..Len(t) + 1 /\ Len(p) + n + 1 = Len(p) + (n + 1) /\ (n + 1) - 1 = n
        /\ (Len(p) + (n + 1)) - 1 = Len(p) + n
    BY <1>0, <2>5
  <2>8. SubSeq(w, 1, Len(p) + n) = Before(w, Len(p) + (n + 1)) /\ SubSeq(t, 1, n) = Before(t, n + 1)
    BY <2>7, Zenon DEF Before
  <2>9. Emit(r, SubSeq(w, 1, Kept(w))) = Emit(e, SubSeq(t, 1, Kept(t)))
        /\ From(w, Kept(w) + 1) = From(t, Kept(t) + 1)
    <3>1. Emit(r, Before(w, Len(p) + (n + 1))) = Emit(e, Before(t, n + 1))
          /\ From(w, Len(p) + (n + 1)) = From(t, n + 1)
      BY <1>1, <2>7
    <3>2. Kept(w) + 1 = Len(p) + (n + 1)
      BY <2>6, <2>7
    <3> QED BY <2>6, <2>8, <3>1, <3>2, Zenon DEF n
  <2>10. AtRest(r, w) = AtRest(e, t)
    BY <2>9, Zenon DEF AtRest
  <2> QED BY <2>3, <2>4, <2>10, Zenon DEF w, e
<1>5. ASSUME NEW k \in 1..Len(t), NoneBefore(t, k), ClosesAt(t, k)
      PROVE  Pass[LoopAt(r, w)] = Pass[LoopAt(e, t)]
  <2>1. /\ k \in 1..Len(t) + 1 /\ k + 3 \in 1..Len(t) + 1 /\ (Len(p) + k) + 3 = Len(p) + (k + 3)
    BY <1>0, <1>5 DEF ClosesAt
  <2>2. NoneBefore(w, Len(p) + k) /\ Len(p) + k \in 1..Len(w) + 1 /\ ClosesAt(w, Len(p) + k)
    BY <1>2, <1>5, <2>1
  <2>3. Pass[LoopAt(r, w)] = LoopAt(CloseFence(Emit(r, Before(w, Len(p) + k))), From(w, (Len(p) + k) + 3))
    BY <1>0, <2>2, PassCases
  <2>4. Pass[LoopAt(e, t)] = LoopAt(CloseFence(Emit(e, Before(t, k))), From(t, k + 3))
    BY <1>0, <1>5, <2>1, PassCases
  <2>5. Emit(r, Before(w, Len(p) + k)) = Emit(e, Before(t, k)) /\ From(w, Len(p) + (k + 3)) = From(t, k + 3)
    BY <1>1, <2>1
  <2> QED BY <2>1, <2>3, <2>4, <2>5, Zenon
<1>6. ASSUME NEW k \in 1..Len(t), NoneBefore(t, k), TagAt(t, k)
      PROVE  Pass[LoopAt(r, w)] = Pass[LoopAt(e, t)]
  <2>1. k \in 1..Len(t) + 1
    BY <1>0
  <2>2. NoneBefore(w, Len(p) + k) /\ Len(p) + k \in 1..Len(w) + 1 /\ TagAt(w, Len(p) + k)
    BY <1>2, <1>6, <2>1
  <2>3. Pass[LoopAt(r, w)] = AtTag(Emit(r, Before(w, Len(p) + k)), From(w, Len(p) + k))
    BY <1>0, <2>2, PassCases
  <2>4. Pass[LoopAt(e, t)] = AtTag(Emit(e, Before(t, k)), From(t, k))
    BY <1>0, <1>6, <2>1, PassCases
  <2>5. Emit(r, Before(w, Len(p) + k)) = Emit(e, Before(t, k)) /\ From(w, Len(p) + k) = From(t, k)
    BY <1>1, <2>1
  <2> QED BY <2>3, <2>4, <2>5, Zenon
<1>7. Pass[LoopAt(r, w)] = Pass[LoopAt(e, t)]
  BY <1>4, <1>5, <1>6, FirstThing DEF w, e
<1> QED BY <1>7 DEF w, e

LEMMA RewriteBehind ==
  ASSUME NEW r, Knows(r), r.held \in HeldTexts, NEW p \in Seq(Symbols), NEW t \in Seq(Symbols), t # <<>>,
         Soft(r, p \o t), NoneBefore(p \o t, Len(p) + 1),
         Len(t) >= 2 \/ t[Len(t)] # "]" \/ p = <<>> \/ p[Len(p)] # "]"
  PROVE  Rewrite(r, p \o t) = Rewrite(Emit(r, p), t)
<1> DEFINE w == p \o t
           e == Emit(r, p)
           next == Pass[LoopAt(r, w)]
<1>0. w \in Seq(Symbols) /\ Knows(e) /\ e.held \in HeldTexts
  BY EmitKnows, JoinedUp
<1>1. w # <<>>
  <2>1. Len(w) = Len(p) + Len(t) /\ Len(p) \in Nat /\ Len(t) \in Nat /\ Len(t) # 0
    BY JoinedUp
  <2> HIDE DEF w
  <2>2. Len(w) # 0
    BY <2>1
  <2> QED BY <2>2
<1>2. next = Pass[LoopAt(e, t)]
  BY PassSame
<1> HIDE DEF w, e
<1>3. next \in Steady
  <2>1. LoopAt(r, w) \in Steady
    BY <1>0, LeftSteady DEF LoopAt
  <2> QED BY <2>1, PassSteady
<1>4. next = LoopAt(next.repair, next.buf)
  <2> HIDE DEF next
  <2> QED BY <1>3 DEF Steady, Loops, LoopAt
<1>5. Rewrite(r, w) = Rewrite(next.repair, next.buf)
  BY <1>0, <1>1, <1>4, RewriteUnrolls
<1>6. Rewrite(e, t) = Rewrite(next.repair, next.buf)
  BY <1>0, <1>2, <1>4, RewriteUnrolls
<1> QED BY <1>5, <1>6, Zenon DEF w, e
---------------------------------------------------------------------------
(* A pass that decides, whatever comes behind *)

LEMMA SwallowsOn ==
  ASSUME NEW r, Knows(r), NEW said \in Seq(Symbols)
  PROVE  /\ Emit(r, said).swallow = (r.swallow /\ Blank(said))
         /\ CloseFence(r).swallow => r.swallow
<1>1. ASSUME NEW piece \in Seq(Symbols) PROVE Emit(r, piece).swallow = (r.swallow /\ Blank(piece))
  <2> DEFINE kept == IF Swallowed(r, piece) THEN AfterFenceLine(piece) ELSE piece
             swallow == r.swallow /\ Blank(piece)
             lineStart == IF kept = <<>> THEN r.lineStart ELSE Last(kept) = "nl"
             out == r.out \o kept
             fence == Observe(r.fence, kept)
  <2>1. r \in Repairs
    BY DEF Knows
  <2>2. Emit(r, piece) = [r EXCEPT !.swallow = swallow, !.out = out, !.fence = fence, !.lineStart = lineStart]
    BY Zenon DEF Emit, Observed
  <2> HIDE DEF kept, swallow, lineStart, out, fence
  <2>3. Emit(r, piece).swallow = swallow
    BY <2>1, <2>2 DEF Repairs
  <2> QED BY <2>3 DEF swallow
<1>2. CloseFence(r).swallow => r.swallow
  <2>1. Emit(r, ClosingFence).swallow = (r.swallow /\ Blank(ClosingFence))
    BY <1>1, Fences
  <2> QED BY <2>1 DEF CloseFence
<1> QED BY <1>1, <1>2

\* What is passed on up to a CDATA close, with it, is hollow if it is blank before.
LEMMA HollowToClose ==
  ASSUME NEW said \in Seq(Symbols), NEW k \in 1..Len(said), ClosesAt(said, k), Blank(Before(said, k))
  PROVE  Hollow(Before(said, k + 3))
<1> DEFINE y == Before(said, k + 3)
           p == Before(said, k)
<1>1. k + 3 \in 1..Len(said) + 1 /\ k \in 1..Len(said) + 1 /\ k \in Nat \ {0} /\ (k + 3) - 1 = k + 2
  BY DEF ClosesAt
<1>2. y \in Seq(Symbols) /\ Len(y) = k + 2 /\ \A i \in 1..k + 2 : y[i] = said[i]
  BY <1>1, StartIsText
<1>3. p \in Seq(Symbols) /\ Len(p) = k - 1 /\ \A i \in 1..k - 1 : p[i] = said[i]
  BY <1>1, StartIsText
<1>4. \A i \in DOMAIN p : p[i] = "nl"
  BY DEF Blank
<1> HIDE DEF y, p
<1>5. ClosesAt(y, k)
  BY <1>1, <1>2 DEF ClosesAt
<1>6. ASSUME NEW i \in 1..Len(y) PROVE y[i] = "nl" \/ \E j \in i - 2..i : ClosesAt(y, j)
  <2>1. CASE i <= k - 1
    <3>1. i \in DOMAIN p /\ i \in 1..k - 1 /\ i \in 1..k + 2
      BY <1>1, <1>2, <1>3, <2>1
    <3> QED BY <1>2, <1>3, <1>4, <3>1
  <2>2. CASE i > k - 1
    <3>1. k \in i - 2..i
      BY <1>1, <1>2, <2>2
    <3> QED BY <1>5, <3>1
  <2>3. i <= k - 1 \/ i > k - 1
    BY <1>1, <1>2
  <2> QED BY <2>1, <2>2, <2>3, Zenon
<1>7. Hollow(y)
  BY <1>2, <1>6, HollowIs
<1> QED BY <1>7 DEF y

\* A repair that holds nothing may be given all of a text, a part at a time.
Ready(r, said) == Knows(r) /\ r.held = <<>> /\ Soft(r, said) /\ Tame(said)

LEMMA CloseInFront ==
  ASSUME NEW r, NEW a \in Seq(Symbols), NEW b \in Seq(Symbols), Ready(r, a \o b),
         NEW k \in 1..Len(a), NoneBefore(a, k), ClosesAt(a, k)
  PROVE  \E r1 : \E a1 \in Seq(Symbols) :
           /\ Pass[LoopAt(r, a)] = LoopAt(r1, a1)
           /\ Pass[LoopAt(r, a \o b)] = LoopAt(r1, a1 \o b)
           /\ Ready(r1, a1 \o b)
<1> DEFINE w == a \o b
           e == Emit(r, Before(a, k))
           r1 == CloseFence(e)
           a1 == From(a, k + 3)
<1>0. /\ w \in Seq(Symbols) /\ Len(w) = Len(a) + Len(b) /\ Len(a) \in Nat /\ Len(b) \in Nat
      /\ k \in 1..Len(a) + 1 /\ k + 3 \in 1..Len(a) + 1
  BY JoinedUp DEF ClosesAt
<1>1. Before(w, k) = Before(a, k) /\ From(w, k + 3) = a1 \o b
  BY <1>0, FrontCut
<1>2. NoneBefore(w, k) /\ ClosesAt(w, k)
  BY FirstStays
<1>3. Knows(r) /\ r.held = <<>> /\ Soft(r, w) /\ Tame(w)
  BY DEF Ready
<1> HIDE DEF w
<1>4. k \in 1..Len(w) /\ k \in 1..Len(w) + 1 /\ k + 3 \in 1..Len(w) + 1
  BY <1>0
<1>5. /\ Before(a, k) \in Seq(Symbols) /\ a1 \in Seq(Symbols)
      /\ Before(w, k + 3) \in Seq(Symbols) /\ From(w, k + 3) \in Seq(Symbols)
      /\ Before(w, k + 3) \o From(w, k + 3) = w
  BY <1>0, <1>4, StartIsText, RestIsText, CutAnywhere
<1>6. Pass[LoopAt(r, a)] = LoopAt(r1, a1)
  BY <1>0, <1>3, PassCases
<1>7. Pass[LoopAt(r, w)] = LoopAt(r1, a1 \o b)
  <2>1. Pass[LoopAt(r, w)] = LoopAt(CloseFence(Emit(r, Before(w, k))), From(w, k + 3))
    BY <1>0, <1>2, <1>3, <1>4, PassCases
  <2> QED BY <1>1, <2>1, Zenon
<1>8. Knows(e) /\ e.held = <<>> /\ e.swallow = (r.swallow /\ Blank(Before(a, k)))
  BY <1>3, <1>5, EmitKnows, SwallowsOn
<1> HIDE DEF e
<1>9. Knows(r1) /\ r1.held = <<>> /\ (r1.swallow => e.swallow)
  BY <1>8, FencesKnown, SwallowsOn, EmptySeq
<1>10. Tame(a1 \o b)
  BY <1>0, <1>1, <1>3, <1>4, TameCut, Zenon
<1>11. Soft(r1, a1 \o b)
  <2> SUFFICES ASSUME r1.swallow PROVE ~StartsAnew(a1 \o b)
    BY Zenon DEF Soft
  <2>1. r.swallow /\ Blank(Before(w, k))
    BY <1>1, <1>8, <1>9
  <2>2. Hollow(Before(w, k + 3))
    BY <1>0, <1>2, <1>4, <2>1, HollowToClose
  <2>3. Soft(r, From(w, k + 3))
    <3>1. Soft(r, Before(w, k + 3) \o From(w, k + 3))
      BY <1>3, <1>5, Zenon
    <3> QED BY <1>5, <2>2, <3>1, SoftParts
  <2> QED BY <1>1, <2>1, <2>3, Zenon DEF Soft
<1> HIDE DEF r1, a1
<1>12. Ready(r1, a1 \o b)
  BY <1>9, <1>10, <1>11 DEF Ready
<1> QED BY <1>5, <1>6, <1>7, <1>12, Zenon DEF w

LEMMA TagInFront ==
  ASSUME NEW r, NEW a \in Seq(Symbols), NEW b \in Seq(Symbols), Ready(r, a \o b),
         NEW k \in 1..Len(a), NoneBefore(a, k), TagAt(a, k), ~CouldBecomeTag(From(a, k))
  PROVE  \E r1 : \E a1 \in Seq(Symbols) :
           /\ Pass[LoopAt(r, a)] = LoopAt(r1, a1)
           /\ Pass[LoopAt(r, a \o b)] = LoopAt(r1, a1 \o b)
           /\ Ready(r1, a1 \o b)
<1> DEFINE w == a \o b
           e == Emit(r, Before(a, k))
           rest == From(a, k)
           all == rest \o b
<1>0. /\ w \in Seq(Symbols) /\ Len(w) = Len(a) + Len(b) /\ Len(a) \in Nat /\ Len(b) \in Nat
      /\ k \in 1..Len(a) + 1 /\ k \in Nat \ {0}
  BY JoinedUp
<1>1. Before(w, k) = Before(a, k) /\ From(w, k) = all
  BY <1>0, FrontCut
<1>2. NoneBefore(w, k) /\ TagAt(w, k)
  BY FirstStays
<1>3. Knows(r) /\ r.held = <<>> /\ Soft(r, w) /\ Tame(w)
  BY DEF Ready
<1> HIDE DEF w
<1>4. k \in 1..Len(w) /\ k \in 1..Len(w) + 1
  BY <1>0
<1>5. /\ Before(a, k) \in Seq(Symbols) /\ rest \in Seq(Symbols) /\ Len(rest) = Len(a) - k + 1
      /\ \A i \in 1..Len(a) - k + 1 : rest[i] = a[k + i - 1]
  BY <1>0, StartIsText, RestIsText
<1>6. rest # <<>> /\ rest[1] = "<"
  <2> HIDE DEF rest
  <2>1. rest[1] = "<"
    <3>1. 1 \in 1..Len(a) - k + 1 /\ k + 1 - 1 = k
      BY <1>0
    <3> QED BY <1>5, <3>1 DEF TagAt
  <2>2. Len(rest) # 0
    BY <1>0, <1>5
  <2>3. rest # <<>>
    BY <2>2
  <2> QED BY <2>1, <2>3
<1>7. ~CouldBecomeTag(rest) /\ Len(rest) >= 2
  BY <1>5, <1>6, HalfATag
<1> HIDE DEF rest
<1>8. /\ ~CouldBecomeTag(all) /\ all[2] = rest[2]
      /\ IsPrefix(StrayFence, all) <=> IsPrefix(StrayFence, rest)
      /\ From(all, 2) = From(rest, 2) \o b /\ From(all, 3) = From(rest, 3) \o b
  BY <1>5, <1>6, <1>7, TagStays
<1>9. /\ all \in Seq(Symbols) /\ 2 \in 1..Len(all) /\ 2 \in 1..Len(all) + 1 /\ 3 \in 1..Len(all) + 1
      /\ 2 \in 1..Len(rest) + 1 /\ 3 \in 1..Len(rest) + 1
  <2>1. all \in Seq(Symbols) /\ Len(all) = Len(rest) + Len(b) /\ Len(rest) \in Nat
    BY <1>5, JoinedUp
  <2> HIDE DEF all
  <2> QED BY <1>0, <1>7, <2>1
<1> HIDE DEF all
<1>10. /\ From(rest, 2) \in Seq(Symbols) /\ From(rest, 3) \in Seq(Symbols)
       /\ From(all, 2) \in Seq(Symbols) /\ From(all, 3) \in Seq(Symbols)
       /\ Before(all, 2) \in Seq(Symbols) /\ Before(all, 3) \in Seq(Symbols)
       /\ Before(all, 2) \o From(all, 2) = all /\ Before(all, 3) \o From(all, 3) = all
  BY <1>5, <1>9, StartIsText, RestIsText, CutAnywhere
<1>11. Tame(all) /\ Tame(From(all, 2)) /\ Tame(From(all, 3))
  <2>1. Tame(all)
    BY <1>0, <1>1, <1>3, <1>4, TameCut, Zenon
  <2> QED BY <1>9, <2>1, TameCut, Zenon
<1>12. Knows(e) /\ e.held = <<>> /\ e.swallow = FALSE
  <2>a. Knows(e) /\ e.held = r.held
    BY <1>3, <1>5, EmitKnows
  <2>b. e.swallow = (r.swallow /\ Blank(Before(a, k)))
    BY <1>3, <1>5, SwallowsOn
  <2> HIDE DEF e
  <2>1. Knows(e) /\ e.held = <<>> /\ e.swallow = (r.swallow /\ Blank(Before(a, k)))
    BY <1>3, <2>a, <2>b, Zenon
  <2>2. ASSUME r.swallow, Blank(Before(w, k)) PROVE FALSE
    <3>1. Hollow(Before(w, k))
      BY <1>1, <1>5, <2>2, BlankHollow
    <3>2. k \in DOMAIN w /\ w[k] = "<"
      BY <1>0, <1>2, <1>4 DEF TagAt
    <3>3. StartsAnew(w)
      BY <3>1, <3>2, Zenon DEF StartsAnew
    <3> QED BY <1>3, <2>2, <3>3, Zenon DEF Soft
  <2> QED BY <1>1, <2>1, <2>2
<1>13. Pass[LoopAt(r, a)] = AtTag(e, rest)
  BY <1>0, <1>3, PassCases DEF rest
<1>14. Pass[LoopAt(r, w)] = AtTag(e, all)
  <2>1. Pass[LoopAt(r, w)] = AtTag(Emit(r, Before(w, k)), From(w, k))
    BY <1>0, <1>2, <1>3, <1>4, PassCases
  <2> QED BY <1>1, <2>1, Zenon
<1> HIDE DEF e
<1>15. /\ Knows(OpenFence(e)) /\ OpenFence(e).held = <<>>
       /\ Knows(CloseFence(e)) /\ CloseFence(e).held = <<>> /\ CloseFence(e).swallow # TRUE
  BY <1>12, FencesKnown, SwallowsOn, EmptySeq
<1>16. Knows(Emit(e, <<"<">>)) /\ Emit(e, <<"<">>).held = <<>> /\ Emit(e, <<"<">>).swallow = FALSE
  <2> DEFINE lt == <<"<">>
  <2>1. lt \in Seq(Symbols)
    BY DEF Symbols
  <2> HIDE DEF lt
  <2>2. Knows(Emit(e, lt)) /\ Emit(e, lt).held = <<>> /\ Emit(e, lt).swallow = (e.swallow /\ Blank(lt))
    BY <1>12, <2>1, EmitKnows, SwallowsOn
  <2>3. Knows(Emit(e, lt)) /\ Emit(e, lt).held = <<>> /\ Emit(e, lt).swallow = FALSE
    BY <1>12, <2>2
  <2> QED BY <2>3 DEF lt
<1> DEFINE Goes(r1, a1) == /\ a1 \in Seq(Symbols)
                           /\ Pass[LoopAt(r, a)] = LoopAt(r1, a1)
                           /\ Pass[LoopAt(r, w)] = LoopAt(r1, a1 \o b)
                           /\ Ready(r1, a1 \o b)
<1>17. CASE rest[2] \in {"![CDATA[", "code>"}
  <2>1. ~StartsAnew(From(all, 3))
    <3>1. 2 + 1 = 3
      OBVIOUS
    <3>2. all[2] \in {"code>", "![CDATA["}
      BY <1>8, <1>17
    <3>3. ~StartsAnew(From(all, 2 + 1))
      BY <1>9, <1>11, <3>2, Zenon DEF Tame
    <3> QED BY <3>1, <3>3, Zenon
  <2>2. Ready(OpenFence(e), From(all, 3))
    BY <1>11, <1>15, <2>1, Zenon DEF Ready, Soft
  <2>3. AtTag(e, rest) = LoopAt(OpenFence(e), From(rest, 3))
    BY <1>7, <1>17, Zenon DEF AtTag
  <2>4. AtTag(e, all) = LoopAt(OpenFence(e), From(all, 3))
    BY <1>8, <1>17, Zenon DEF AtTag
  <2>5. Goes(OpenFence(e), From(rest, 3))
    BY <1>8, <1>10, <1>13, <1>14, <2>2, <2>3, <2>4, Zenon
  <2> QED BY <2>5, Zenon DEF w
<1>18. CASE rest[2] \notin {"![CDATA[", "code>"} /\ rest[2] = "/code>"
  <2>2. Ready(CloseFence(e), From(all, 3))
    BY <1>11, <1>15, Zenon DEF Ready, Soft
  <2>3. AtTag(e, rest) = LoopAt(CloseFence(e), From(rest, 3))
    BY <1>7, <1>18, Zenon DEF AtTag
  <2>4. AtTag(e, all) = LoopAt(CloseFence(e), From(all, 3))
    BY <1>8, <1>18, Zenon DEF AtTag
  <2>5. Goes(CloseFence(e), From(rest, 3))
    BY <1>8, <1>10, <1>13, <1>14, <2>2, <2>3, <2>4, Zenon
  <2> QED BY <2>5, Zenon DEF w
<1>19. CASE rest[2] \notin {"![CDATA[", "code>"} /\ rest[2] # "/code>"
  <2>1. CASE IsPrefix(StrayFence, rest) /\ e.lineStart
    <3>2. Ready(e, From(all, 2))
      BY <1>11, <1>12, Zenon DEF Ready, Soft
    <3>3. AtTag(e, rest) = LoopAt(e, From(rest, 2))
      BY <1>7, <1>19, <2>1, Zenon DEF AtTag
    <3>4. AtTag(e, all) = LoopAt(e, From(all, 2))
      BY <1>8, <1>19, <2>1, Zenon DEF AtTag
    <3>5. Goes(e, From(rest, 2))
      BY <1>8, <1>10, <1>13, <1>14, <3>2, <3>3, <3>4, Zenon
    <3> QED BY <3>5, Zenon DEF w
  <2>2. CASE ~(IsPrefix(StrayFence, rest) /\ e.lineStart)
    <3>2. Ready(Emit(e, <<"<">>), From(all, 2))
      BY <1>11, <1>16, Zenon DEF Ready, Soft
    <3>3. AtTag(e, rest) = LoopAt(Emit(e, <<"<">>), From(rest, 2))
      BY <1>7, <1>19, <2>2, Zenon DEF AtTag
    <3>4. AtTag(e, all) = LoopAt(Emit(e, <<"<">>), From(all, 2))
      BY <1>8, <1>19, <2>2, Zenon DEF AtTag
    <3>5. Goes(Emit(e, <<"<">>), From(rest, 2))
      BY <1>8, <1>10, <1>13, <1>14, <3>2, <3>3, <3>4, Zenon
    <3> QED BY <3>5, Zenon DEF w
  <2> QED BY <2>1, <2>2
<1> QED BY <1>17, <1>18, <1>19
---------------------------------------------------------------------------
(* A text read in two goes *)

\* Holding nothing is what a repair that holds nothing does.
LEMMA HoldsNothing ==
  ASSUME NEW r, Knows(r), r.held = <<>>
  PROVE  /\ [r EXCEPT !.held = <<>>] = r
         /\ \A h \in HeldTexts : [[r EXCEPT !.held = h] EXCEPT !.held = <<>>] = r
BY DEF Knows, Repairs

\* A pass over a passes on p and holds h, and b comes behind.
Holds(r, p, h, a, b) ==
  /\ a = p \o h /\ a # <<>> /\ Ready(r, a \o b)
  /\ Pass[LoopAt(r, a)] = LoopAt([Emit(r, p) EXCEPT !.held = h], <<>>)
  /\ NoneBefore(a \o b, Len(p) + 1)
  /\ Len(h) >= 2 \/ p = <<>> \/ p[Len(p)] # "]" \/ (h # <<>> /\ h[1] = "<")

\* What is held is read again, with what comes behind it.
LEMMA HoldInTwo ==
  ASSUME NEW r, NEW p \in Seq(Symbols), NEW h \in HeldTexts, NEW a, NEW b \in Seq(Symbols),
         Holds(r, p, h, a, b)
  PROVE  Rewrite(r, a \o b) = Delta(Rewrite(r, a), b)
<1> DEFINE e == Emit(r, p)
           t == h \o b
           holding == [e EXCEPT !.held = h]
<1>a. /\ a = p \o h /\ a # <<>> /\ Ready(r, a \o b)
      /\ Pass[LoopAt(r, a)] = LoopAt([Emit(r, p) EXCEPT !.held = h], <<>>)
      /\ NoneBefore(a \o b, Len(p) + 1)
      /\ Len(h) >= 2 \/ p = <<>> \/ p[Len(p)] # "]" \/ (h # <<>> /\ h[1] = "<")
  BY Zenon DEF Holds
<1>0. h \in Seq(Symbols) /\ Len(h) \in Nat /\ Len(b) \in Nat /\ <<>> \in HeldTexts
  <2>1. HeldTexts \subseteq Seq(Symbols) /\ <<>> \in HeldTexts
    BY DEF HeldTexts, Symbols
  <2>2. h \in Seq(Symbols)
    BY <2>1, Zenon
  <2> QED BY <2>1, <2>2
<1>1. /\ t \in Seq(Symbols) /\ Len(t) = Len(h) + Len(b) /\ a \in Seq(Symbols)
      /\ \A i \in 1..Len(h) : t[i] = h[i]
  BY <1>0, <1>a, JoinedUp
<1>2. a \o b = p \o t
  <2>1. \A x, y \in Seq(Symbols) : (p \o x) \o y = p \o (x \o y)
    OBVIOUS
  <2> QED BY <1>0, <1>a, <2>1, Zenon
<1>3. Knows(r) /\ r.held = <<>> /\ r.held \in HeldTexts
  BY <1>0, <1>a, Zenon DEF Ready
<1>4. Knows(e) /\ e.held = <<>> /\ e.held \in HeldTexts
  BY <1>0, <1>3, EmitKnows
<1> HIDE DEF e, t
<1>5. Knows(holding) /\ holding.held = h
  BY <1>4, HoldingKnows
<1>6. Rewrite(r, a) = holding
  <2>1. a # <<>> /\ Pass[LoopAt(r, a)] = LoopAt(holding, <<>>)
    BY <1>a, Zenon DEF e
  <2> HIDE DEF holding
  <2>2. Rewrite(r, a) = Rewrite(holding, <<>>)
    BY <1>1, <1>3, <2>1, RewriteUnrolls
  <2>3. Rewrite(holding, <<>>) = holding
    BY <1>5, RewriteNothing
  <2> QED BY <2>2, <2>3, Zenon
<1>7. Delta(holding, b) = Rewrite(e, t)
  <2>1. [holding EXCEPT !.held = <<>>] = e
    BY <1>4, HoldsNothing
  <2> HIDE DEF holding
  <2>2. Delta(holding, b) = Rewrite([holding EXCEPT !.held = <<>>], holding.held \o b)
    BY Zenon DEF Delta
  <2> QED BY <1>5, <2>1, <2>2, Zenon DEF t
<1>8. CASE t # <<>>
  <2>1. Soft(r, p \o t)
    BY <1>2, <1>a, Zenon DEF Ready
  <2>2. NoneBefore(p \o t, Len(p) + 1)
    BY <1>2, <1>a, Zenon
  <2>3. Len(t) >= 2 \/ t[Len(t)] # "]" \/ p = <<>> \/ p[Len(p)] # "]"
    <3>1. CASE Len(h) >= 2
      BY <1>0, <1>1, <3>1
    <3>2. CASE h # <<>> /\ h[1] = "<"
      <4>1. Len(h) # 0
        BY <1>0, <3>2
      <4>2. t[1] = "<" /\ Len(t) >= 1 /\ Len(t) \in Nat
        BY <1>0, <1>1, <3>2, <4>1
      <4> QED BY <4>2
    <3> QED BY <1>a, <3>1, <3>2
  <2>4. Rewrite(r, p \o t) = Rewrite(e, t)
    BY <1>1, <1>3, <1>8, <2>1, <2>2, <2>3, RewriteBehind DEF e
  <2> QED BY <1>2, <1>6, <1>7, <2>4, Zenon
<1>9. CASE t = <<>>
  <2>1. Len(t) = 0
    BY <1>9
  <2>2. Len(h) = 0 /\ Len(b) = 0
    <3>1. \A x, y \in Nat : x + y = 0 => x = 0 /\ y = 0
      OBVIOUS
    <3> QED BY <1>0, <1>1, <2>1, <3>1, Zenon
  <2>3. h = <<>> /\ b = <<>>
    BY <1>0, <2>2
  <2>4. a \o b = a
    BY <1>1, <2>3, ConcatEmptySeq
  <2>5. holding = e
    BY <1>4, <2>3, HoldsNothing
  <2>6. Rewrite(e, t) = e
    BY <1>4, <1>9, RewriteNothing
  <2> QED BY <1>6, <1>7, <2>4, <2>5, <2>6, Zenon
<1> QED BY <1>8, <1>9

\* What was kept of an end stays apart from what is held of it.
LEMMA KeptApart ==
  ASSUME NEW a \in Seq(Symbols), NEW b \in Seq(Symbols), NoneBefore(a, Len(a) + 1),
         NEW n, n = Kept(a)
  PROVE  /\ n \in 0..Len(a) /\ NoneBefore(a \o b, n + 1)
         /\ Len(a) - n >= 2 \/ n = 0 \/ a[n] # "]"
<1> DEFINE w == a \o b
           m == Len(a)
<1>0. /\ Len(w) = m + Len(b) /\ m \in Nat /\ Len(b) \in Nat /\ \A i \in 1..m : w[i] = a[i]
  BY JoinedUp
<1>1. n = m - HeldWidth(a)
  BY DEF Kept
<1>2. HeldWidth(a) = IF m >= 2 /\ a[m] = "]" /\ a[m - 1] = "]" THEN 2
                     ELSE IF m >= 1 /\ a[m] = "]" THEN 1 ELSE 0
  <2>1. m \in Nat /\ m = Len(a)
    BY <1>0
  <2> QED BY <2>1, HeldWidthIs
<1>3. \A i \in 1..m : ~ClosesAt(a, i) /\ ~TagAt(a, i)
  <2>1. \A i \in 1..(m + 1) - 1 : ~ClosesAt(a, i) /\ ~TagAt(a, i)
    BY DEF NoneBefore
  <2>2. (m + 1) - 1 = m
    BY <1>0
  <2> QED BY <2>1, <2>2
<1>a. m = Len(a)
  OBVIOUS
<1> HIDE DEF w, m
<1>4. n \in 0..m /\ (m - n >= 2 \/ n = 0 \/ a[n] # "]")
  <2>1. CASE m >= 2 /\ a[m] = "]" /\ a[m - 1] = "]"
    BY <1>0, <1>1, <1>2, <2>1
  <2>2. CASE m >= 1 /\ a[m] = "]" /\ ~(m >= 2 /\ a[m - 1] = "]")
    BY <1>0, <1>1, <1>2, <2>2
  <2>3. CASE ~(m >= 1 /\ a[m] = "]")
    BY <1>0, <1>1, <1>2, <2>3
  <2> QED BY <2>1, <2>2, <2>3
<1>5. ASSUME NEW i \in 1..n PROVE ~ClosesAt(w, i) /\ ~TagAt(w, i)
  <2>1. i \in 1..m /\ i \in Nat \ {0} /\ i <= n
    BY <1>0, <1>4
  <2>2. ~TagAt(w, i)
    BY <1>0, <1>3, <1>a, <2>1 DEF TagAt
  <2>3. CASE i + 2 <= m
    <3>0. i \in 1..m /\ i + 1 \in 1..m /\ i + 2 \in 1..m
      BY <1>0, <2>1, <2>3
    <3>1. w[i] = a[i] /\ w[i + 1] = a[i + 1] /\ w[i + 2] = a[i + 2]
      BY <1>0, <3>0, Zenon
    <3> QED BY <1>3, <1>a, <2>1, <2>2, <2>3, <3>1 DEF ClosesAt
  <2>4. CASE i + 2 > m
    <3> SUFFICES ASSUME w[i] = "]", w[i + 1] = "]" PROVE FALSE
      BY <2>2 DEF ClosesAt
    <3>1. a[i] = "]" /\ (i + 1 <= m => a[i + 1] = "]")
      BY <1>0, <2>1
    <3>2. i = m \/ i = m - 1
      BY <1>0, <2>1, <2>4
    <3>3. CASE i = m
      <4>1. HeldWidth(a) # 0
        BY <1>0, <1>2, <2>1, <3>1, <3>3
      <4> QED BY <1>0, <1>1, <1>2, <2>1, <3>3, <4>1
    <3>4. CASE i = m - 1
      <4>1. m >= 2 /\ a[m - 1] = "]" /\ a[m] = "]"
        BY <1>0, <2>1, <3>1, <3>4
      <4>2. HeldWidth(a) = 2
        BY <1>2, <4>1
      <4> QED BY <1>0, <1>1, <2>1, <3>4, <4>2
    <3> QED BY <3>2, <3>3, <3>4
  <2>5. i + 2 <= m \/ i + 2 > m
    BY <1>0, <2>1
  <2> QED BY <2>3, <2>4, <2>5, Zenon
<1>6. NoneBefore(w, n + 1)
  <2>1. (n + 1) - 1 = n
    BY <1>0, <1>4
  <2> QED BY <1>5, <2>1 DEF NoneBefore
<1> QED BY <1>4, <1>6, <1>a DEF w

LEMMA EndInTwo ==
  ASSUME NEW r, NEW a \in Seq(Symbols), a # <<>>, NEW b \in Seq(Symbols), Ready(r, a \o b),
         NoneBefore(a, Len(a) + 1)
  PROVE  Rewrite(r, a \o b) = Delta(Rewrite(r, a), b)
<1> PICK n : n = Kept(a)
  OBVIOUS
<1> DEFINE p == Before(a, n + 1)
           h == From(a, n + 1)
<1>0. Len(a) \in Nat
  OBVIOUS
<1>1. n \in 0..Len(a) /\ NoneBefore(a \o b, n + 1) /\ (Len(a) - n >= 2 \/ n = 0 \/ a[n] # "]")
  BY KeptApart
<1>2. n + 1 \in 1..Len(a) + 1 /\ (n + 1) - 1 = n
  BY <1>0, <1>1
<1>3. /\ p \in Seq(Symbols) /\ Len(p) = n /\ \A k \in 1..n : p[k] = a[k]
      /\ h \in Seq(Symbols) /\ Len(h) = Len(a) - (n + 1) + 1 /\ p \o h = a
  <2>1. /\ p \in Seq(Symbols) /\ Len(p) = (n + 1) - 1
        /\ \A k \in 1..(n + 1) - 1 : p[k] = a[k]
    BY <1>2, StartIsText
  <2>2. h \in Seq(Symbols) /\ Len(h) = Len(a) - (n + 1) + 1
    BY <1>2, RestIsText
  <2>3. p \o h = a
    BY <1>2, CutAnywhere
  <2> HIDE DEF p, h
  <2> QED BY <1>2, <2>1, <2>2, <2>3, Zenon
<1>4. h \in HeldTexts
  BY HeldAtTheEnd DEF Kept
<1>5. Pass[LoopAt(r, a)] = LoopAt([Emit(r, p) EXCEPT !.held = h], <<>>)
  <2>1. Len(a) + 1 \in 1..Len(a) + 1 /\ Knows(r)
    BY <1>0 DEF Ready
  <2>2. Pass[LoopAt(r, a)] = AtRest(r, a)
    BY <2>1, PassCases
  <2>3. p = SubSeq(a, 1, n)
    BY <1>2, Zenon DEF Before
  <2> QED BY <2>2, <2>3, Zenon DEF AtRest
<1> HIDE DEF p, h
<1>6. Len(h) >= 2 \/ p = <<>> \/ p[Len(p)] # "]"
  <2>1. CASE Len(a) - n >= 2
    BY <1>0, <1>1, <1>3, <2>1
  <2>2. CASE n = 0
    BY <1>3, <2>2
  <2>3. CASE n # 0 /\ a[n] # "]"
    BY <1>1, <1>3, <2>3
  <2> QED BY <1>1, <2>1, <2>2, <2>3
<1>7. Holds(r, p, h, a, b)
  BY <1>1, <1>3, <1>5, <1>6, Zenon DEF Holds
<1>8. p \in Seq(Symbols)
  BY <1>3, Zenon
<1> QED BY <1>4, <1>7, <1>8, HoldInTwo

LEMMA HalfTagInTwo ==
  ASSUME NEW r, NEW a \in Seq(Symbols), NEW b \in Seq(Symbols), Ready(r, a \o b),
         NEW k \in 1..Len(a), NoneBefore(a, k), TagAt(a, k), CouldBecomeTag(From(a, k))
  PROVE  Rewrite(r, a \o b) = Delta(Rewrite(r, a), b)
<1> DEFINE p == Before(a, k)
           h == From(a, k)
<1>0. Len(a) \in Nat /\ k \in 1..Len(a) + 1 /\ (k - 1) + 1 = k /\ a # <<>>
  OBVIOUS
<1>1. NoneBefore(a \o b, k)
  BY FirstStays
<1>2. /\ p \in Seq(Symbols) /\ Len(p) = k - 1
      /\ h \in Seq(Symbols) /\ Len(h) = Len(a) - k + 1 /\ \A i \in 1..Len(a) - k + 1 : h[i] = a[k + i - 1]
      /\ p \o h = a
  BY <1>0, StartIsText, RestIsText, CutAnywhere
<1>3. Pass[LoopAt(r, a)] = AtTag(Emit(r, p), h)
  <2>1. Knows(r)
    BY DEF Ready
  <2> QED BY <1>0, <2>1, PassCases
<1>a. CouldBecomeTag(h)
  OBVIOUS
<1> HIDE DEF p, h
<1>4. h # <<>> /\ h[1] = "<"
  <2>1. h[1] = "<"
    <3>1. 1 \in 1..Len(a) - k + 1 /\ k + 1 - 1 = k
      BY <1>0
    <3> QED BY <1>2, <3>1 DEF TagAt
  <2>2. Len(h) # 0
    BY <1>0, <1>2
  <2>3. h # <<>>
    BY <2>2
  <2> QED BY <2>1, <2>3
<1>5. h \in HeldTexts
  BY <1>2, <1>4, <1>a, HalfATag
<1>6. AtTag(Emit(r, p), h) = LoopAt([Emit(r, p) EXCEPT !.held = h], <<>>)
  BY <1>a, Zenon DEF AtTag
<1>7. Holds(r, p, h, a, b)
  BY <1>0, <1>1, <1>2, <1>3, <1>4, <1>6, Zenon DEF Holds
<1>8. p \in Seq(Symbols)
  BY <1>2, Zenon
<1> QED BY <1>5, <1>7, <1>8, HoldInTwo

\* It does not matter whether a text is read in one go or in two.
LEMMA ReadInTwo ==
  ASSUME NEW r, NEW a \in Seq(Symbols), NEW b \in Seq(Symbols), Ready(r, a \o b)
  PROVE  Rewrite(r, a \o b) = Delta(Rewrite(r, a), b)
<1> DEFINE Same(q, s) == Rewrite(q, s \o b) = Delta(Rewrite(q, s), b)
           P == {n \in Nat : \A s \in Seq(Symbols) : \A q \in Repairs :
                   Len(s) <= n /\ Ready(q, s \o b) => Same(q, s)}
<1>1. ASSUME NEW q, Ready(q, <<>> \o b) PROVE Same(q, <<>>)
  <2>1. Knows(q) /\ q.held = <<>> /\ q.held \in HeldTexts
    BY <1>1 DEF Ready, HeldTexts
  <2>2. Rewrite(q, <<>>) = q
    BY <2>1, RewriteNothing
  <2>3. Delta(q, b) = Rewrite([q EXCEPT !.held = <<>>], q.held \o b)
    BY Zenon DEF Delta
  <2>4. [q EXCEPT !.held = <<>>] = q
    BY <2>1, HoldsNothing
  <2>5. Delta(q, b) = Rewrite(q, <<>> \o b)
    BY <2>1, <2>3, <2>4, Zenon
  <2> QED BY <2>2, <2>5, Zenon
<1>2. 0 \in P
  <2> SUFFICES ASSUME NEW s \in Seq(Symbols), NEW q \in Repairs, Len(s) <= 0, Ready(q, s \o b)
               PROVE  Same(q, s)
    BY Zenon
  <2>1. s = <<>>
    OBVIOUS
  <2> QED BY <1>1, <2>1, Zenon
<1>3. ASSUME NEW n \in Nat, n \in P PROVE n + 1 \in P
  <2>a. n + 1 \in Nat
    OBVIOUS
  <2> SUFFICES ASSUME NEW s \in Seq(Symbols), NEW q \in Repairs, Len(s) <= n + 1, Ready(q, s \o b)
               PROVE  Same(q, s)
    BY <2>a, Zenon
  <2>0. \A s1 \in Seq(Symbols) : \A q1 \in Repairs : Len(s1) <= n /\ Ready(q1, s1 \o b) => Same(q1, s1)
    BY <1>3, Zenon
  <2>1. CASE s = <<>>
    BY <1>1, <2>1, Zenon
  <2>2. CASE s # <<>> /\ NoneBefore(s, Len(s) + 1)
    BY <2>2, EndInTwo
  <2>3. ASSUME s # <<>>,
               \E r1 : \E a1 \in Seq(Symbols) :
                 /\ Pass[LoopAt(q, s)] = LoopAt(r1, a1)
                 /\ Pass[LoopAt(q, s \o b)] = LoopAt(r1, a1 \o b)
                 /\ Ready(r1, a1 \o b)
        PROVE  Same(q, s)
    <3>a. PICK r1 : \E a1 \in Seq(Symbols) :
            /\ Pass[LoopAt(q, s)] = LoopAt(r1, a1)
            /\ Pass[LoopAt(q, s \o b)] = LoopAt(r1, a1 \o b)
            /\ Ready(r1, a1 \o b)
      BY <2>3, Zenon
    <3>1. PICK a1 \in Seq(Symbols) :
            /\ Pass[LoopAt(q, s)] = LoopAt(r1, a1)
            /\ Pass[LoopAt(q, s \o b)] = LoopAt(r1, a1 \o b)
            /\ Ready(r1, a1 \o b)
      BY <3>a, Zenon
    <3>2. Knows(q) /\ q.held \in HeldTexts /\ r1 \in Repairs
      BY <3>1 DEF Ready, HeldTexts, Knows
    <3>3. s \o b \in Seq(Symbols) /\ s \o b # <<>>
      <4>1. s \o b \in Seq(Symbols) /\ Len(s \o b) = Len(s) + Len(b) /\ Len(s) \in Nat /\ Len(b) \in Nat
            /\ Len(s) # 0
        BY <2>3, JoinedUp
      <4>2. Len(s \o b) # 0
        BY <4>1
      <4>3. \A x : x = <<>> => Len(x) = 0
        OBVIOUS
      <4> QED BY <4>1, <4>2, <4>3, Zenon
    <3>4. Rewrite(q, s) = Rewrite(r1, a1) /\ Len(a1) < Len(s)
      BY <2>3, <3>1, <3>2, RewriteUnrolls
    <3>5. Rewrite(q, s \o b) = Rewrite(r1, a1 \o b)
      <4> DEFINE w == s \o b
                 v == a1 \o b
      <4>1. w \in Seq(Symbols) /\ w # <<>> /\ Pass[LoopAt(q, w)] = LoopAt(r1, v)
        BY <3>1, <3>3, Zenon
      <4> HIDE DEF w, v
      <4>2. Rewrite(q, w) = Rewrite(r1, v)
        BY <3>2, <4>1, RewriteUnrolls
      <4> QED BY <4>2 DEF w, v
    <3>6. Len(a1) <= n
      <4>1. Len(a1) \in Nat /\ Len(s) \in Nat
        OBVIOUS
      <4> QED BY <3>4, <4>1
    <3>7. Same(r1, a1)
      BY <2>0, <3>1, <3>2, <3>6, Zenon
    <3> QED BY <3>4, <3>5, <3>7, Zenon
  <2>4. ASSUME NEW k \in 1..Len(s), NoneBefore(s, k), ClosesAt(s, k) PROVE Same(q, s)
    <3>1. s # <<>>
      OBVIOUS
    <3>2. \E r1 : \E a1 \in Seq(Symbols) :
            /\ Pass[LoopAt(q, s)] = LoopAt(r1, a1)
            /\ Pass[LoopAt(q, s \o b)] = LoopAt(r1, a1 \o b)
            /\ Ready(r1, a1 \o b)
      BY <2>4, CloseInFront
    <3> HIDE DEF Same
    <3> QED BY <2>3, <3>1, <3>2, Zenon
  <2>5. ASSUME NEW k \in 1..Len(s), NoneBefore(s, k), TagAt(s, k) PROVE Same(q, s)
    <3>1. s # <<>>
      OBVIOUS
    <3>2. CASE CouldBecomeTag(From(s, k))
      BY <2>5, <3>2, HalfTagInTwo
    <3>3. CASE ~CouldBecomeTag(From(s, k))
      <4>1. \E r1 : \E a1 \in Seq(Symbols) :
              /\ Pass[LoopAt(q, s)] = LoopAt(r1, a1)
              /\ Pass[LoopAt(q, s \o b)] = LoopAt(r1, a1 \o b)
              /\ Ready(r1, a1 \o b)
        BY <2>5, <3>3, TagInFront
      <4> HIDE DEF Same
      <4> QED BY <2>3, <3>1, <4>1, Zenon
    <3> QED BY <3>2, <3>3
  <2> HIDE DEF Same
  <2> QED BY <2>1, <2>2, <2>4, <2>5, FirstThing
<1>4. Nat \subseteq P
  <2> HIDE DEF P
  <2> QED BY <1>2, <1>3, NaturalSets
<1>5. Len(a) \in P /\ Len(a) <= Len(a) /\ r \in Repairs
  <2>1. Len(a) \in Nat
    OBVIOUS
  <2>2. Len(a) <= Len(a)
    BY <2>1
  <2> HIDE DEF P
  <2> QED BY <1>4, <2>1, <2>2 DEF Ready, Knows
<1> QED BY <1>5, Zenon
---------------------------------------------------------------------------
(* A reply, however it is cut *)

LEMMA GrowsBy ==
  ASSUME NEW said \in Seq(Symbols), NEW i \in 0..Len(said), NEW j \in i..Len(said)
  PROVE  /\ Before(said, j + 1) = Before(said, i + 1) \o SubSeq(said, i + 1, j)
         /\ SubSeq(said, i + 1, j) \in Seq(Symbols) /\ Before(said, i + 1) \in Seq(Symbols)
<1> DEFINE v == Before(said, j + 1)
           p == Before(said, i + 1)
           q == SubSeq(said, i + 1, j)
<1>0. /\ Len(said) \in Nat /\ i \in Nat /\ j \in Nat /\ i <= j /\ j <= Len(said)
      /\ i + 1 \in 1..Len(said) + 1 /\ j + 1 \in 1..Len(said) + 1
      /\ (i + 1) - 1 = i /\ (j + 1) - 1 = j /\ j - (i + 1) + 1 = j - i
  OBVIOUS
<1>1. v \in Seq(Symbols) /\ Len(v) = j /\ \A k \in 1..j : v[k] = said[k]
  <2>1. /\ v \in Seq(Symbols) /\ Len(v) = (j + 1) - 1
        /\ \A k \in 1..(j + 1) - 1 : v[k] = said[k]
    BY <1>0, StartIsText
  <2> HIDE DEF v
  <2> QED BY <1>0, <2>1
<1>2. p \in Seq(Symbols) /\ Len(p) = i /\ \A k \in 1..i : p[k] = said[k]
  <2>1. /\ p \in Seq(Symbols) /\ Len(p) = (i + 1) - 1
        /\ \A k \in 1..(i + 1) - 1 : p[k] = said[k]
    BY <1>0, StartIsText
  <2> HIDE DEF p
  <2> QED BY <1>0, <2>1
<1>3. q \in Seq(Symbols) /\ Len(q) = j - i /\ \A k \in 1..j - i : q[k] = said[i + k]
  <2>0. i + 1 \in Nat \ {0} /\ j \in Int
    BY <1>0
  <2>1. /\ q \in Seq(Symbols) /\ Len(q) = IF i + 1 <= j THEN j - (i + 1) + 1 ELSE 0
        /\ \A k \in 1..j - (i + 1) + 1 : q[k] = said[(i + 1) + k - 1]
    BY <1>0, <2>0, PartsAreTexts
  <2> HIDE DEF q
  <2>2. Len(q) = j - i
    BY <1>0, <2>1
  <2>3. \A k \in 1..j - i : (i + 1) + k - 1 = i + k /\ k \in 1..j - (i + 1) + 1
    BY <1>0
  <2> QED BY <2>1, <2>2, <2>3
<1> HIDE DEF v, p, q
<1>4. /\ p \o q \in Seq(Symbols) /\ Len(p \o q) = Len(p) + Len(q)
      /\ \A k \in 1..Len(p) : (p \o q)[k] = p[k]
      /\ \A k \in 1..Len(q) : (p \o q)[Len(p) + k] = q[k]
  BY <1>2, <1>3, JoinedUp
<1>5. Len(p \o q) = Len(v)
  BY <1>0, <1>1, <1>2, <1>3, <1>4
<1>6. ASSUME NEW k \in 1..Len(v) PROVE v[k] = (p \o q)[k]
  <2>1. CASE k <= i
    <3>1. k \in 1..i /\ k \in 1..j /\ k \in 1..Len(p)
      BY <1>0, <1>1, <1>2, <2>1
    <3> QED BY <1>1, <1>2, <1>4, <3>1
  <2>2. CASE k > i
    <3> DEFINE d == k - i
    <3>1. d \in 1..j - i /\ d \in 1..Len(q) /\ k = i + d /\ k = Len(p) + d /\ k \in 1..j
      BY <1>0, <1>1, <1>2, <1>3, <2>2
    <3> HIDE DEF d
    <3>2. v[k] = said[k] /\ (p \o q)[Len(p) + d] = q[d] /\ q[d] = said[i + d]
      BY <1>1, <1>3, <1>4, <3>1, Zenon
    <3> QED BY <3>1, <3>2, Zenon
  <2>3. k <= i \/ k > i
    BY <1>0, <1>1
  <2> QED BY <2>1, <2>2, <2>3, Zenon
<1>7. v = p \o q
  BY <1>1, <1>4, <1>5, <1>6, SeqEqual
<1> QED BY <1>2, <1>3, <1>7 DEF v, p, q

LEMMA NoneAndAll ==
  ASSUME NEW said \in Seq(Symbols)
  PROVE  Before(said, 1) = <<>> /\ Before(said, Len(said) + 1) = said
<1>0. Len(said) \in Nat /\ 1 \in 1..Len(said) + 1 /\ Len(said) + 1 \in 1..Len(said) + 1
      /\ (Len(said) + 1) - 1 = Len(said)
  OBVIOUS
<1>1. Before(said, 1) = <<>>
  <2>1. Before(said, 1) \in Seq(Symbols) /\ Len(Before(said, 1)) = 1 - 1
    BY <1>0, StartIsText
  <2>2. \A x \in Seq(Symbols) : Len(x) = 1 - 1 => x = <<>>
    OBVIOUS
  <2> QED BY <2>1, <2>2, Zenon
<1>2. Before(said, Len(said) + 1) = said
  <2>1. Before(said, Len(said) + 1) = SubSeq(said, 1, Len(said))
    BY <1>0, Zenon DEF Before
  <2> QED BY <2>1, SubSeqFull, Zenon
<1> QED BY <1>1, <1>2

\* What a connection makes of what has arrived is what is made of it in one piece.
LEMMA ReadOn ==
  ASSUME NEW said \in Seq(Symbols), Tame(said), NEW i \in 0..Len(said), NEW j \in i..Len(said)
  PROVE  Delta(FreshRepair, Before(said, j + 1))
           = Delta(Delta(FreshRepair, Before(said, i + 1)), SubSeq(said, i + 1, j))
<1> DEFINE a == Before(said, i + 1)
           b == SubSeq(said, i + 1, j)
           v == Before(said, j + 1)
<1>1. v = a \o b /\ a \in Seq(Symbols) /\ b \in Seq(Symbols)
  BY GrowsBy
<1>2. j + 1 \in 1..Len(said) + 1
  OBVIOUS
<1>3. v \in Seq(Symbols) /\ From(said, j + 1) \in Seq(Symbols) /\ v \o From(said, j + 1) = said
  BY <1>2, StartIsText, RestIsText, CutAnywhere
<1>4. Tame(v)
  BY <1>2, TameCut, Zenon
<1> HIDE DEF a, b, v
<1>5. FreshRepair.held = <<>> /\ FreshRepair.swallow = FALSE /\ Knows(FreshRepair)
  BY FreshKnows DEF FreshRepair
<1>6. Ready(FreshRepair, a \o b)
  BY <1>1, <1>4, <1>5, Zenon DEF Ready, Soft
<1>7. ASSUME NEW s \in Seq(Symbols) PROVE Delta(FreshRepair, s) = Rewrite(FreshRepair, s)
  <2>1. [FreshRepair EXCEPT !.held = <<>>] = FreshRepair
    BY <1>5, HoldsNothing
  <2>2. Delta(FreshRepair, s) = Rewrite([FreshRepair EXCEPT !.held = <<>>], FreshRepair.held \o s)
    BY Zenon DEF Delta
  <2>3. <<>> \o s = s
    BY ConcatEmptySeq
  <2> QED BY <1>5, <2>1, <2>2, <2>3, Zenon
<1>8. Rewrite(FreshRepair, a \o b) = Delta(Rewrite(FreshRepair, a), b)
  BY <1>1, <1>6, ReadInTwo
<1>9. Delta(FreshRepair, v) = Rewrite(FreshRepair, v) /\ Delta(FreshRepair, a) = Rewrite(FreshRepair, a)
  BY <1>1, <1>3, <1>7
<1>10. Delta(FreshRepair, v) = Delta(Delta(FreshRepair, a), b)
  BY <1>1, <1>8, <1>9, Zenon
<1> QED BY <1>10 DEF a, b, v

LEMMA ReadNothing == Delta(FreshRepair, <<>>) = FreshRepair
<1>1. FreshRepair.held = <<>> /\ Knows(FreshRepair) /\ <<>> \in HeldTexts
  BY FreshKnows DEF FreshRepair, HeldTexts
<1>2. [FreshRepair EXCEPT !.held = <<>>] = FreshRepair
  BY <1>1, HoldsNothing
<1>a. <<>> \o <<>> = <<>>
  OBVIOUS
<1>3. Delta(FreshRepair, <<>>) = Rewrite([FreshRepair EXCEPT !.held = <<>>], FreshRepair.held \o <<>>)
  BY Zenon DEF Delta
<1>4. Rewrite(FreshRepair, <<>>) = FreshRepair
  BY <1>1, RewriteNothing
<1> QED BY <1>1, <1>2, <1>3, <1>4, <1>a, Zenon

LEMMA FlushesNothing ==
  ASSUME NEW r, Knows(r), r.held = <<>>
  PROVE  FlushHeld(r) = r
<1>1. r \in Repairs /\ r.out \in Seq(Symbols) /\ r.fence \in Parser
  BY DEF Knows, Repairs
<1>2. FlushHeld(r) = [r EXCEPT !.held = <<>>, !.out = r.out \o r.held, !.fence = Observe(r.fence, r.held)]
  BY Zenon DEF FlushHeld
<1>3. r.out \o r.held = r.out /\ Observe(r.fence, r.held) = r.fence
  BY <1>1, ObserveNothing, ConcatEmptySeq
<1>4. FlushHeld(r) = [r EXCEPT !.held = <<>>, !.out = r.out, !.fence = r.fence]
  BY <1>2, <1>3, Zenon
<1> QED BY <1>1, <1>4 DEF Repairs

\* The reply in one piece, and with what is held of it passed on.
InOne == Delta(FreshRepair, reply)
Flushed == FlushHeld(InOne)

\* What the repair has made of what has arrived is what it would have made of it in one
\* piece; at the end the held text is passed on, and a fence left open is closed.
CutInv ==
  /\ phase = "reading" => repair = Delta(FreshRepair, Before(reply, arrived + 1))
  /\ phase \in {"ending", "done"} =>
       IF closedAtEnd THEN repair = CloseAtEnd(Flushed) /\ IsOpen(Flushed.fence) /\ finishReason = "stop"
       ELSE repair \in {InOne, Flushed}
  /\ phase = "done" => NothingLeft

Uncut == StreamInv /\ (FencedAgain \/ CutInv)

LEMMA TamedReply ==
  ASSUME reply \in Seq(Symbols), ~FencedAgain
  PROVE  Tame(reply)
<1>1. DOMAIN reply = 1..Len(reply)
  OBVIOUS
<1> QED BY <1>1, Zenon DEF FencedAgain, Tame

LEMMA UncutStarts == StreamInit => Uncut
<1> SUFFICES ASSUME StreamInit PROVE Uncut
  OBVIOUS
<1>1. StreamInv
  BY StreamStarts
<1>2. reply \in Seq(Symbols)
  BY <1>1 DEF StreamInv, StreamTypeOK
<1>3. phase = "reading" /\ arrived = 0 /\ repair = FreshRepair
  BY DEF StreamInit
<1>4. Before(reply, 0 + 1) = <<>>
  <2>1. 0 + 1 = 1
    OBVIOUS
  <2> QED BY <1>2, <2>1, NoneAndAll, Zenon
<1>5. repair = Delta(FreshRepair, Before(reply, arrived + 1))
  BY <1>3, <1>4, ReadNothing, Zenon
<1>6. phase \notin {"ending", "done"}
  BY <1>3
<1> QED BY <1>1, <1>5, <1>6, Zenon DEF Uncut, CutInv

LEMMA UncutStep == Uncut /\ [StreamNext]_streamVars => Uncut'
<1> SUFFICES ASSUME Uncut, [StreamNext]_streamVars PROVE Uncut'
  OBVIOUS
<1>1. StreamInv /\ StreamInv'
  BY StreamStep DEF Uncut
<1>2. reply \in Seq(Symbols) /\ Len(reply) \in Nat /\ arrived \in 0..Len(reply) /\ Knows(repair)
  BY <1>1 DEF StreamInv, StreamTypeOK
<1>3. reply' = reply /\ finishReason' = finishReason
  BY DEF StreamNext, Reading, Ending, EndOfStream, Receive, ConnectionFails, PassHeldOn, CloseLeftOpen, Stop,
         streamVars
<1>4. FencedAgain' = FencedAgain
  BY <1>3, Zenon DEF FencedAgain
<1> SUFFICES ASSUME CutInv, ~FencedAgain PROVE CutInv'
  BY <1>1, <1>4, Zenon DEF Uncut
<1>5. Tame(reply)
  BY <1>2, TamedReply
<1>6. InOne' = InOne /\ Flushed' = Flushed
  BY <1>3, Zenon DEF InOne, Flushed
<1>7. Knows(InOne) /\ InOne.held \in HeldTexts /\ Knows(Flushed) /\ Flushed.held = <<>>
  <2>1. Knows(FreshRepair) /\ FreshRepair.held \in HeldTexts
    BY FreshKnows DEF FreshRepair, HeldTexts
  <2>2. Knows(InOne) /\ InOne.held \in HeldTexts
    BY <1>2, <2>1, DeltaKnows DEF InOne
  <2> QED BY <2>2, FlushKnows DEF Flushed
<1>8. closedAtEnd => phase \in {"ending", "done"} /\ repair.held = <<>>
  BY <1>1 DEF StreamInv
<1>9. closedAtEnd \in BOOLEAN
  BY <1>1 DEF StreamInv, StreamTypeOK
<1>10. ASSUME NEW upTo \in 1..Len(reply), Receive(upTo) PROVE CutInv'
  <2>1. /\ phase = "reading" /\ phase' = "reading" /\ arrived' = upTo /\ upTo \in (arrived + 1)..Len(reply)
        /\ repair' = Delta(repair, SubSeq(reply, arrived + 1, upTo))
    BY <1>10 DEF Receive
  <2>2. upTo \in arrived..Len(reply)
    BY <1>2, <2>1
  <2>3. repair = Delta(FreshRepair, Before(reply, arrived + 1))
    BY <2>1 DEF CutInv
  <2>4. Delta(FreshRepair, Before(reply, upTo + 1))
          = Delta(Delta(FreshRepair, Before(reply, arrived + 1)), SubSeq(reply, arrived + 1, upTo))
    BY <1>2, <1>5, <2>2, ReadOn
  <2>5. repair' = Delta(FreshRepair, Before(reply, upTo + 1))
    BY <2>1, <2>3, <2>4, Zenon
  <2>6. phase' \notin {"ending", "done"}
    BY <2>1
  <2>7. repair' = Delta(FreshRepair, Before(reply', arrived' + 1))
    BY <1>3, <2>1, <2>5, Zenon
  <2> QED BY <2>6, <2>7, Zenon DEF CutInv
<1>11. CASE EndOfStream
  <2>1. /\ phase = "reading" /\ phase' = "ending" /\ arrived = Len(reply) /\ repair' = repair
        /\ closedAtEnd' = closedAtEnd
    BY <1>11 DEF EndOfStream
  <2>2. ~closedAtEnd
    BY <1>8, <2>1
  <2>3. repair = InOne
    <3>1. repair = Delta(FreshRepair, Before(reply, Len(reply) + 1))
      BY <2>1, Zenon DEF CutInv
    <3>2. Before(reply, Len(reply) + 1) = reply
      BY <1>2, NoneAndAll
    <3> QED BY <3>1, <3>2, Zenon DEF InOne
  <2>4. repair' \in {InOne', Flushed'} /\ ~closedAtEnd' /\ phase' # "reading" /\ phase' # "done"
    BY <1>6, <2>1, <2>2, <2>3
  <2> QED BY <2>4, Zenon DEF CutInv
<1>12. CASE ConnectionFails
  <2>1. /\ phase = "reading"
        /\ \/ phase' = "failed"
           \/ phase' = "reading" /\ arrived' = 0 /\ repair' = FreshRepair
    BY <1>12 DEF ConnectionFails, AfterReset
  <2>2. CASE phase' = "failed"
    BY <2>2 DEF CutInv
  <2>3. CASE phase' = "reading" /\ arrived' = 0 /\ repair' = FreshRepair
    <3>1. Before(reply, 0 + 1) = <<>>
      <4>1. 0 + 1 = 1
        OBVIOUS
      <4> QED BY <1>2, <4>1, NoneAndAll, Zenon
    <3>2. repair' = Delta(FreshRepair, Before(reply', arrived' + 1))
      BY <1>3, <2>3, <3>1, ReadNothing, Zenon
    <3>3. phase' \notin {"ending", "done"}
      BY <2>3
    <3> QED BY <3>2, <3>3, Zenon DEF CutInv
  <2> QED BY <2>1, <2>2, <2>3
<1>13. CASE PassHeldOn
  <2>1. /\ phase = "ending" /\ phase' = "ending" /\ repair.held # <<>> /\ repair' = FlushHeld(repair)
        /\ closedAtEnd' = closedAtEnd
    BY <1>13 DEF PassHeldOn
  <2>2. ~closedAtEnd
    BY <1>8, <2>1
  <2>3. repair \in {InOne, Flushed}
    BY <2>1, <2>2 DEF CutInv
  <2>4. repair = InOne
    BY <1>7, <2>1, <2>3
  <2>5. repair' = Flushed
    BY <2>1, <2>4, Zenon DEF Flushed
  <2>6. repair' \in {InOne', Flushed'} /\ ~closedAtEnd' /\ phase' # "reading" /\ phase' # "done"
    BY <1>6, <2>1, <2>2, <2>5
  <2> QED BY <2>6, Zenon DEF CutInv
<1>14. CASE CloseLeftOpen
  <2>1. /\ phase = "ending" /\ phase' = "ending" /\ repair.held = <<>> /\ repair' = CloseAtEnd(repair)
        /\ closedAtEnd' = TRUE /\ IsOpen(repair.fence) /\ ~closedAtEnd /\ finishReason = "stop"
    BY <1>14 DEF CloseLeftOpen, LeftOpen
  <2>2. repair \in {InOne, Flushed}
    BY <2>1 DEF CutInv
  <2>3. repair = Flushed
    <3>1. CASE repair = InOne
      <4>1. FlushHeld(InOne) = InOne
        BY <1>7, <2>1, <3>1, FlushesNothing
      <4> QED BY <3>1, <4>1, Zenon DEF Flushed
    <3> QED BY <2>2, <3>1
  <2>4. /\ repair' = CloseAtEnd(Flushed') /\ IsOpen(Flushed'.fence) /\ finishReason' = "stop" /\ closedAtEnd'
        /\ phase' # "reading" /\ phase' # "done"
    <3> HIDE DEF CloseAtEnd, IsOpen
    <3> QED BY <1>3, <1>6, <2>1, <2>3
  <2> QED BY <2>4, Zenon DEF CutInv
<1>15. CASE Stop
  <2>1. /\ phase = "ending" /\ phase' = "done" /\ NothingLeft /\ repair' = repair
        /\ closedAtEnd' = closedAtEnd
    BY <1>15 DEF Stop
  <2>2. IF closedAtEnd THEN repair = CloseAtEnd(Flushed) /\ IsOpen(Flushed.fence) /\ finishReason = "stop"
        ELSE repair \in {InOne, Flushed}
    BY <2>1, Zenon DEF CutInv
  <2>3. NothingLeft'
    BY <1>3, <2>1, Zenon DEF NothingLeft, LeftOpen
  <2>4. IF closedAtEnd' THEN repair' = CloseAtEnd(Flushed') /\ IsOpen(Flushed'.fence) /\ finishReason' = "stop"
        ELSE repair' \in {InOne', Flushed'}
    BY <1>3, <1>6, <2>1, <2>2, Zenon
  <2>5. phase' # "reading"
    BY <2>1
  <2> QED BY <2>3, <2>4, <2>5, Zenon DEF CutInv
<1>16. CASE UNCHANGED streamVars
  <2>1. /\ phase' = phase /\ arrived' = arrived /\ repair' = repair /\ closedAtEnd' = closedAtEnd
    BY <1>16 DEF streamVars
  <2> QED BY <1>3, <1>6, <2>1, Zenon DEF CutInv, NothingLeft, LeftOpen
<1> QED BY <1>10, <1>11, <1>12, <1>13, <1>14, <1>15, <1>16 DEF StreamNext, Reading, Ending

LEMMA UncutInvariant == StreamSpec => []Uncut
BY UncutStarts, UncutStep, PTL DEF StreamSpec

(* SameHoweverCut: wherever the connection cuts the reply, whatever of it is held     *)
(* back and however often it is replayed, the agent is handed the text the repair     *)
(* would have made of the reply in one piece (_emit, _rewrite, __anext__): for        *)
(* replies of any pieces and any length, but for those in which a fence or another    *)
(* tag is the first thing behind a tag that names code.                               *)
THEOREM SameTextHoweverCut == StreamSpec => []SameHoweverCut
<1>1. Uncut => SameHoweverCut
  <2> SUFFICES ASSUME Uncut, phase = "done", ~FencedAgain PROVE repair.out = Repaired(reply, finishReason)
    BY Zenon DEF SameHoweverCut
  <2>1. CutInv /\ StreamInv
    BY Zenon DEF Uncut
  <2>2. /\ IF closedAtEnd THEN repair = CloseAtEnd(Flushed) /\ IsOpen(Flushed.fence) /\ finishReason = "stop"
           ELSE repair \in {InOne, Flushed}
        /\ repair.held = <<>> /\ ~LeftOpen
    BY <2>1 DEF CutInv, NothingLeft
  <2>3. Repaired(reply, finishReason)
          = IF IsOpen(Flushed.fence) /\ finishReason = "stop" THEN CloseAtEnd(Flushed).out ELSE Flushed.out
    BY Zenon DEF Repaired, Flushed, InOne
  <2>4. CASE closedAtEnd
    BY <2>2, <2>3, <2>4, Zenon
  <2>5. CASE ~closedAtEnd
    <3>1. Knows(repair)
      BY <2>1 DEF StreamInv
    <3>2. repair = Flushed
      <4>1. CASE repair = InOne
        <5>1. FlushHeld(repair) = repair
          BY <2>2, <3>1, FlushesNothing
        <5> QED BY <4>1, <5>1, Zenon DEF Flushed
      <4> QED BY <2>2, <2>5, <4>1
    <3>3. ~(IsOpen(Flushed.fence) /\ finishReason = "stop")
      BY <2>2, <2>5, <3>2, Zenon DEF LeftOpen
    <3> QED BY <2>3, <3>2, <3>3, Zenon
  <2> QED BY <2>4, <2>5
<1> QED BY <1>1, UncutInvariant, PTL
=============================================================================
