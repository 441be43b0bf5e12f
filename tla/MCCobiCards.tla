----------------------------- MODULE MCCobiCards -----------------------------
(* Two chips, room for two results and four programs a call, which fill the *)
(* card: no program more would fit before the first result is read.         *)
EXTENDS CobiCards

CONSTANTS c1, c2

MCEnergies == {-2, -1, 0}
==============================================================================
