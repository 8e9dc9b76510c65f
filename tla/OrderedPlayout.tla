--------------------------- MODULE OrderedPlayout ---------------------------
(***************************************************************************)
(* What a listener is promised by the receiving side, whatever the network *)
(* does: playback is a succession of runs; within a run the frames are     *)
(* played in the order the server produced them, none of them twice.       *)
(* Frames may be skipped, and a run may end at any moment.                 *)
(***************************************************************************)
EXTENDS Integers

CONSTANT None

VARIABLES
    produced,         \* number of the newest frame the server has produced
    last              \* the newest frame played in the current run, or None

vars == <<produced, last>>

Init == produced \in Nat /\ last = None

Produce == produced' = produced + 1 /\ UNCHANGED last

Play == /\ last' \in 0..produced
        /\ last = None \/ last' > last
        /\ UNCHANGED produced

EndRun == last' = None /\ UNCHANGED produced

Next == Produce \/ Play \/ EndRun

Spec == Init /\ [][Next]_vars
=============================================================================
