----------------------------- MODULE MCOuterLoop -----------------------------
(* Four solutions with a tie, two rows, and every limit within reach.       *)
EXTENDS OuterLoop

CONSTANTS v0, v1, v2, v3, none

MCSolution == {v0, v1, v2, v3}
MCReadings == [v \in MCSolution |-> CASE v = v0 -> {1} [] v = v3 -> {3} [] OTHER -> {2}]
MCTargets  == {none, 3}
==============================================================================
