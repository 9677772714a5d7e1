---------------------------- MODULE MCChannelPool ----------------------------
(* Instances of ChannelPool for TLC. *)
EXTENDS ChannelPool

MCTwoCases == <<"a", "b">>

\* What the studies' runs raise when the infrastructure failed them
\* (raise_if_infrastructure): the reason the agent stopped with, and no more. A
\* model error the conversation did not cause is an endpoint's refusal too.
StoppedWith(reason) == "agent stopped with " \o reason
MCStopTexts == {StoppedWith("model_error"), StoppedWith("runtime_error")}
=============================================================================
