------------------------------ MODULE MCJitter ------------------------------
(* Instances of JitterBuffer for TLC.                                       *)
EXTENDS JitterBuffer

\* A deep and a shallow profile, the shallow one with the hard floor.
TwoProfiles == {[start |-> 2, max |-> 4, threshold |-> 3, floor |-> -1],
                [start |-> 1, max |-> 3, threshold |-> 1, floor |-> 0]}
=============================================================================
