---------------------------- MODULE StreamRepair ----------------------------
(***************************************************************************)
(* The repair of code fences in a streamed reply                           *)
(* (bench/core/stream_repair.py): the deltas of one reply are rewritten as *)
(* they arrive, so that code a model wrapped in its own tags reaches the   *)
(* agent's parser as a python fence.                                       *)
(*                                                                         *)
(* A reply is a sequence of symbols.  A symbol is a character where the    *)
(* code can cut in the middle of what it looks for (a fence, a CDATA       *)
(* close), and a longer piece where it cannot tell the difference: "code>" *)
(* ends a tag that names code, "/code>" ends any closing tag, "quote" is a *)
(* triple quote, "x" is other text.  The stream may cut a reply anywhere   *)
(* between two symbols.                                                    *)
(***************************************************************************)
EXTENDS Integers, Sequences, FiniteSets, SequencesExt

CONSTANTS
  Blocks,       \* the pieces replies are made of
  MaxBlocks,    \* bound: pieces in a reply
  MaxFailures   \* bound: how often the connection fails

Symbols == {"<", "code>", "/code>", "![CDATA[", "]", ">", "tick", "python", "nl", "x", "quote"}

ASSUME BlocksAssumption ==
  /\ Blocks \subseteq Seq(Symbols)
  /\ MaxBlocks \in Nat
  /\ MaxFailures \in Nat

Replies == {FlattenSeq(blocks) : blocks \in BoundedSeq(Blocks, MaxBlocks)}

Fence == <<"tick", "tick", "tick">>
OpeningFence == Fence \o <<"python", "nl">>
ClosingFence == <<"nl">> \o Fence \o <<"nl">>
CDataClose == <<"]", "]", ">">>

---------------------------------------------------------------------------
\* The parser of cave-agent, as far as an open block is concerned: a block opens
\* on a python fence alone on its line and closes on a bare one at the head of one, outside a
\* triple-quoted string.  `line` counts the ticks at the head of the current line;
\* Named is a python fence, and Other a line that is neither.

Named == 4
Other == 5
FreshParser == [mode |-> "text", line |-> 0]
Parser == [mode: {"text", "code", "string"}, line: 0..Other]

LineAfter(line, s) ==
  IF s = "nl" THEN 0
  ELSE IF s = "tick" /\ line < 3 THEN line + 1
  ELSE IF s = "python" /\ line = 3 THEN Named
  ELSE Other

Feed(s) ==
  [parser \in Parser |->
    LET opens == parser.mode = "text" /\ s = "nl" /\ parser.line = Named
        closes == parser.mode = "code" /\ s = "tick" /\ parser.line = 2
    IN  IF opens THEN [mode |-> "code", line |-> 0]
        ELSE IF closes THEN [mode |-> "text", line |-> Other]
        ELSE [mode |-> IF s # "quote" \/ parser.mode = "text" THEN parser.mode
                       ELSE IF parser.mode = "code" THEN "string" ELSE "code",
              line |-> LineAfter(parser.line, s)]]

Observe(parser, text) ==
  LET seen[n \in 0..Len(text)] == IF n = 0 THEN parser ELSE Feed(text[n])[seen[n - 1]]
  IN  seen[Len(text)]
IsOpen(parser) == parser.mode # "text"

---------------------------------------------------------------------------
\* What one connection has taught the repair, and what it has passed on.

FreshRepair == [held |-> <<>>, fence |-> FreshParser, swallow |-> FALSE,
                lineStart |-> TRUE, out |-> <<>>]

Repairs == [held: Seq(Symbols), fence: Parser, swallow: BOOLEAN, lineStart: BOOLEAN,
            out: Seq(Symbols)]

FirstOf(text, part) ==
  LET at == {i \in 1..(Len(text) - Len(part) + 1) : SubSeq(text, i, i + Len(part) - 1) = part}
  IN  IF at = {} THEN 0 ELSE CHOOSE i \in at : \A j \in at : i <= j
Before(text, i) == SubSeq(text, 1, i - 1)
From(text, i) == SubSeq(text, i, Len(text))
Blank(text) == \A i \in DOMAIN text : text[i] = "nl"
Stripped(text) ==
  IF Blank(text) THEN <<>> ELSE From(text, CHOOSE i \in DOMAIN text : text[i] # "nl" /\ Blank(Before(text, i)))

\* What follows the fence line that the text starts with.
AfterFenceLine(text) ==
  LET rest == From(text, FirstOf(text, Fence))
      end  == FirstOf(rest, <<"nl">>)
  IN  IF end = 0 THEN <<>> ELSE From(rest, end + 1)

Swallowed(r, text) == r.swallow /\ ~Blank(text) /\ IsPrefix(Fence, Stripped(text))

\* Mutant of Observed: the fence line that was swallowed is counted all the same.
ObservedAnyway(r, text, kept) == Observe(r.fence, text)

Observed(r, text, kept) == Observe(r.fence, kept)

\* _emit: pass text on, without the fence line that follows an opening tag.
Emit(r, text) ==
  LET kept == IF Swallowed(r, text) THEN AfterFenceLine(text) ELSE text
  IN  [r EXCEPT !.swallow = @ /\ Blank(text),
                !.out = @ \o kept,
                !.fence = Observed(r, text, kept),
                !.lineStart = IF kept = <<>> THEN @ ELSE Last(kept) = "nl"]

OpenFence(r) == IF IsOpen(r.fence) THEN r ELSE [Emit(r, OpeningFence) EXCEPT !.swallow = TRUE]
CloseFence(r) == IF IsOpen(r.fence) THEN Emit(r, ClosingFence) ELSE r

\* A trailing "]" or "]]" may be the front of a CDATA close.
HeldWidth(tail) ==
  IF IsSuffix(<<"]", "]">>, tail) THEN 2 ELSE IF IsSuffix(<<"]">>, tail) THEN 1 ELSE 0

\* Mutant of CouldBecomeTag: a fence behind a stray < is still held.
HeldWithFence(rest) == Tail(rest) \in {<<>>, <<"tick">>, <<"tick", "tick">>} \/ IsPrefix(Fence, Tail(rest))

CouldBecomeTag(rest) == Tail(rest) \in {<<>>, <<"tick">>, <<"tick", "tick">>}

Loops == [repair: Repairs, buf: Seq(Symbols)]

\* A pass of the loop in _rewrite: what it decides of the buffer is passed on or held,
\* and the rest is left for the next.
Pass ==
  [loop \in Loops |->
    LET buf   == loop.buf
        close == FirstOf(buf, CDataClose)
        lt    == FirstOf(buf, <<"<">>)
        text  == Emit(loop.repair, Before(buf, lt))
        rest  == From(buf, lt)
        then  == rest[2]
        tail  == Len(buf) - HeldWidth(buf)
        Left(r, unread) == [repair |-> r, buf |-> unread]
    IN  IF buf = <<>> THEN loop
        ELSE IF close # 0 /\ (lt = 0 \/ close < lt)
             THEN Left(CloseFence(Emit(loop.repair, Before(buf, close))), From(buf, close + Len(CDataClose)))
        ELSE IF lt = 0
             THEN Left([Emit(loop.repair, SubSeq(buf, 1, tail)) EXCEPT !.held = From(buf, tail + 1)], <<>>)
        ELSE IF CouldBecomeTag(rest) THEN Left([text EXCEPT !.held = rest], <<>>)
        ELSE IF then \in {"![CDATA[", "code>"} THEN Left(OpenFence(text), From(rest, 3))
        ELSE IF then = "/code>" THEN Left(CloseFence(text), From(rest, 3))
        ELSE IF IsPrefix(<<"<">> \o Fence, rest) /\ text.lineStart THEN Left(text, From(rest, 2))
        ELSE Left(Emit(text, <<"<">>), From(rest, 2))]

\* _rewrite: a pass takes a symbol at least, so there is nothing left after as many.
Rewrite(r, buf) ==
  LET after[n \in 0..Len(buf)] ==
        IF n = 0 THEN [repair |-> r, buf |-> buf] ELSE Pass[after[n - 1]]
  IN  after[Len(buf)].repair

\* A delta: the held prefix and what arrived after it.
Delta(r, chunk) == Rewrite([r EXCEPT !.held = <<>>], r.held \o chunk)

\* The end of the stream: what is held is ordinary text, and a fence left open at
\* a clean stop is closed, once.
FlushHeld(r) ==
  [r EXCEPT !.held = <<>>, !.out = @ \o r.held, !.fence = Observe(@, r.held)]
CloseAtEnd(r) ==
  [r EXCEPT !.out = @ \o ClosingFence, !.fence = Observe(@, ClosingFence)]

\* The reply repaired in one piece, whatever the connection made of it.
Repaired(reply, finish) ==
  LET flushed == FlushHeld(Delta(FreshRepair, reply))
  IN  IF IsOpen(flushed.fence) /\ finish = "stop" THEN CloseAtEnd(flushed).out ELSE flushed.out
=============================================================================
