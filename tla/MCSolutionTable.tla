--------------------------- MODULE MCSolutionTable ---------------------------
(* Instances of SolutionTable for TLC: five bit vectors, three rows.        *)
EXTENDS SolutionTable

CONSTANTS v0, v1, v2, v3, v4

MCSolution == {v0, v1, v2, v3, v4}

(* Ties above, at and below the energy that drops out of a full list.      *)
MCReadings ==
  [v \in MCSolution |->
     CASE v = v0 -> {1} [] v \in {v1, v2} -> {2} [] OTHER -> {3}]
==============================================================================
