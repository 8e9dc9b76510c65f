------------------------------- MODULE MCWire -------------------------------
(* The instance of WireCodec for TLC: a client that asks for a rate Opus    *)
(* knows and one that does not; 10 ms at 48 kHz, 5 ms at 44.1 kHz (not a    *)
(* whole number of frames) and 5 ms above the 96 kHz cap of PCM24.          *)
EXTENDS WireCodec

MCPreferred == {12000, 44100}
MCSources == {[rate |-> 48000, frames |-> 480], [rate |-> 44100, frames |-> 220],
              [rate |-> 192000, frames |-> 960]}
=============================================================================
