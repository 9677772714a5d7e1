----------------------------- MODULE ReplyStream -----------------------------
(***************************************************************************)
(* One reply streamed through the repair: the connection cuts it into      *)
(* deltas anywhere, may fail, and is replayed from the first token while   *)
(* nothing has been passed on (cave-agent's StreamResponse, from how       *)
(* bench/core/stream_repair.py uses it).                                   *)
(***************************************************************************)
EXTENDS StreamRepair

VARIABLES
  phase,        \* "reading" | "ending" | "done" | "failed"
  reply,        \* what the model writes
  finishReason, \* finish_reason: "stop", or "length" when the output limit cut it
  arrived,      \* symbols of the reply this connection has delivered
  repair,       \* the state of the repair, and the text it passed on
  closedAtEnd,  \* _closed_at_end
  connections   \* how often the connection failed

streamVars == <<phase, reply, finishReason, arrived, repair, closedAtEnd, connections>>

StreamInit ==
  /\ phase = "reading"
  /\ reply \in Replies
  /\ finishReason \in {"stop", "length"}
  /\ arrived = 0
  /\ repair = FreshRepair
  /\ closedAtEnd = FALSE
  /\ connections = 0

\* The next symbols of the reply arrive in one delta.
Receive(upTo) ==
  /\ phase = "reading"
  /\ upTo \in (arrived + 1)..Len(reply)
  /\ repair' = Delta(repair, SubSeq(reply, arrived + 1, upTo))
  /\ arrived' = upTo
  /\ UNCHANGED <<phase, reply, finishReason, closedAtEnd, connections>>

EndOfStream ==
  /\ phase = "reading"
  /\ arrived = Len(reply)
  /\ phase' = "ending"
  /\ UNCHANGED <<reply, finishReason, arrived, repair, closedAtEnd, connections>>

\* Mutant of AfterReset: the replay goes on where the lost connection was.
NotReset == repair

\* _open_stream: each connection starts from nothing.
AfterReset == FreshRepair

\* The connection fails.  It is opened again, and the reply replayed, as long as
\* no delta has been passed on; after that the error is the agent's.
ConnectionFails ==
  /\ phase = "reading"
  /\ connections < MaxFailures
  /\ connections' = connections + 1
  /\ IF repair.out = <<>>
     THEN arrived' = 0 /\ repair' = AfterReset /\ phase' = phase
     ELSE phase' = "failed" /\ UNCHANGED <<arrived, repair>>
  /\ UNCHANGED <<reply, finishReason, closedAtEnd>>

PassHeldOn ==
  /\ phase = "ending"
  /\ repair.held # <<>>
  /\ repair' = FlushHeld(repair)
  /\ UNCHANGED <<phase, reply, finishReason, arrived, closedAtEnd, connections>>

\* Mutant of LeftOpen: a reply that ended on a half-read tag is not closed.
LeftOpenByText == IsOpen(repair.fence) /\ ~closedAtEnd /\ finishReason = "stop" /\ Last(reply) # "<"

\* A block inside an unclosed string is never closed for the parser: once is enough.
LeftOpen == IsOpen(repair.fence) /\ ~closedAtEnd /\ finishReason = "stop"

CloseLeftOpen ==
  /\ phase = "ending"
  /\ repair.held = <<>> /\ LeftOpen
  /\ closedAtEnd' = TRUE
  /\ repair' = CloseAtEnd(repair)
  /\ UNCHANGED <<phase, reply, finishReason, arrived, connections>>

\* Mutant of NothingLeft: the end is not passed on while the parser holds a block.
ParserClosed == repair.held = <<>> /\ ~IsOpen(repair.fence)

NothingLeft == repair.held = <<>> /\ ~LeftOpen

Stop ==
  /\ phase = "ending"
  /\ NothingLeft
  /\ phase' = "done"
  /\ UNCHANGED <<reply, finishReason, arrived, repair, closedAtEnd, connections>>

Reading == EndOfStream \/ \E upTo \in 1..Len(reply) : Receive(upTo)
Ending == PassHeldOn \/ CloseLeftOpen \/ Stop
StreamNext == Reading \/ ConnectionFails \/ Ending

StreamSpec == StreamInit /\ [][StreamNext]_streamVars
\* A connection delivers its next delta, or times out; the agent reads to the end.
FairStream == StreamSpec /\ WF_streamVars(Reading) /\ WF_streamVars(Ending)

---------------------------------------------------------------------------
\* The state is well formed, and text is held only as long as it is undecided.
StreamTypeOK ==
  /\ phase \in {"reading", "ending", "done", "failed"}
  /\ reply \in Seq(Symbols) /\ finishReason \in {"stop", "length"}
  /\ arrived \in 0..Len(reply)
  /\ repair.out \in Seq(Symbols) /\ repair.fence \in Parser
  /\ {repair.swallow, repair.lineStart} \subseteq BOOLEAN
  /\ repair.held \in {<<>>, <<"]">>, <<"]", "]">>, <<"<">>, <<"<", "tick">>, <<"<", "tick", "tick">>}
  /\ closedAtEnd \in BOOLEAN /\ connections \in 0..MaxFailures

\* The repair believes a block open exactly when the agent's parser, which sees what
\* was passed on and nothing else, does: whatever was swallowed, held or replayed.
FenceAgrees == repair.fence = Observe(FreshParser, repair.out)

\* Nothing but line ends and CDATA closes, which may leave what was just opened as it is.
Hollow(text) ==
  \A i \in DOMAIN text :
    text[i] = "nl" \/ \E k \in i - 2..i :
                        {k, k + 2} \subseteq DOMAIN text /\ SubSeq(text, k, k + 2) = CDataClose

\* A fence or a tag is the first thing in the text.
StartsAnew(text) == \E i \in DOMAIN text : text[i] \in {"tick", "<"} /\ Hollow(Before(text, i))

\* A tag that names code, or a CDATA section, with a fence or a tag as the next thing.
FencedAgain ==
  \E i \in DOMAIN reply : reply[i] \in {"code>", "![CDATA["} /\ StartsAnew(From(reply, i + 1))

\* The agent is handed the same text however the stream was cut, replayed or held
\* back, in every reply without a fence or another tag as the next thing behind an
\* opening tag.
SameHoweverCut == phase = "done" /\ ~FencedAgain => repair.out = Repaired(reply, finishReason)

\* At a clean stop the agent's parser holds no block it would refuse as unfinished,
\* but for one cut inside a string, which nothing can close.
ClosedAtCleanStop ==
  phase = "done" /\ finishReason = "stop" => Observe(FreshParser, repair.out).mode # "code"

\* From its first delta to its clean end a reply leaves the agent's parser in a block
\* only while the repair knows of it, and its text is held no longer than undecided.
ParserAgrees == StreamTypeOK /\ FenceAgrees /\ ClosedAtCleanStop

\* Reading a reply ends: the fence left open is closed once and not for ever.
ReadingEnds == <>(phase \in {"done", "failed"})

\* A bare fence line just after a tag-opened fence is swallowed however it arrives,
\* so that it cannot close the block it was meant to open.
SwallowedHoweverCut == phase = "done" => repair.out = Repaired(reply, finishReason)

\* A closing tag closes the fence if one is open.
ClosingTagCloses ==
  /\ arrived > 1 /\ repair.held = <<>>
  /\ reply[arrived - 1] = "<" /\ reply[arrived] = "/code>"
  => repair.fence.mode # "code"
=============================================================================
