----------------------------- MODULE MCPipeline -----------------------------
(* Instances of BroadcastPipeline for TLC.                                  *)
EXTENDS BroadcastPipeline, TLC

CONSTANTS k1, k2, d1, d2

Phone(k, d) == [key |-> k, device |-> d, v2 |-> TRUE, caps |-> {"opus", "hires_pcm24"}]
OldPhone(k, d) == [key |-> k, device |-> d, v2 |-> FALSE, caps |-> {}]

\* One capable phone; a capable phone or a legacy client.
OnePhone == {Phone(k1, d1)}
PhoneOrLegacy == {Phone(k1, d1), OldPhone(k2, d2)}

TwoModes == {"balanced", "low_latency"}
OneMode == {"balanced"}

\* A switch to another mode that also asks for another codec; that or one that
\* keeps the codec.
OneSwitch == {[mode |-> "low_latency", codec |-> "pcm16"]}
Switches == OneSwitch \cup {[mode |-> "low_latency", codec |-> None]}

Symmetric == Permutations(Sessions) \cup Permutations(Streams)
=============================================================================
