--------------------------- MODULE MCBfsDecomposer ---------------------------
(* Every graph over four variables.                                         *)
EXTENDS BfsDecomposer

MCGraphs == SUBSET Pairs
==============================================================================
