----------------------------- MODULE MCAdaptive -----------------------------
(* Instances of AdaptiveRuntime for TLC.                                    *)
EXTENDS AdaptiveRuntime
=============================================================================
