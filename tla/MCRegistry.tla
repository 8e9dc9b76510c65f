----------------------------- MODULE MCRegistry -----------------------------
(* Instances of SessionContract for TLC.                                    *)
EXTENDS SessionContract, TLC

CONSTANTS k1, k2, k3, d1, d2, d3

V2(k, d, c) == [key |-> k, device |-> d, v2 |-> TRUE, caps |-> c]
Legacy(k, d) == [key |-> k, device |-> d, v2 |-> FALSE, caps |-> {}]

\* A device that comes back with a new key from the same address, one that
\* comes back with the same key from another, and a third one: legacy clients.
WifiHellos == {V2(k1, d1, {}), V2(k2, d1, {}), Legacy(k2, d2), Legacy(k3, d3)}

\* Two devices over USB, a v2 one that decodes Opus and a legacy one.
UsbHellos == {V2(k1, d1, {"opus"}), Legacy(k2, d2)}

OneMode == {"balanced"}
OneRequest == [mode : OneMode, codec : {"pcm24"}]

Symmetric == Permutations(Sessions) \cup Permutations(Streams)
=============================================================================
