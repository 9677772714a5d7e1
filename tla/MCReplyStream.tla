---------------------------- MODULE MCReplyStream ----------------------------
(* Replies for TLC: every sequence of a few of the pieces models write. *)
EXTENDS ReplyStream

OpenTag == <<"<", "code>">>
CloseTag == <<"<", "/code>">>

MCEnvelopes ==
  {OpenTag, CloseTag, <<"<", "![CDATA[">>, CDataClose, <<"]">>, <<"<">>,
   OpeningFence, Fence, <<"x">>, <<"nl">>, <<"quote">>, <<"x">> \o OpenTag}
MCFencedTag == {OpenTag, CloseTag, Fence, <<"x">>, <<"nl">>}
=============================================================================
