------------------------------ MODULE BestPool ------------------------------
(***************************************************************************)
(* What cobisolv promises of its solution list: of all the (solution,      *)
(* energy) pairs it was ever shown it holds the nMax best.  SolutionTable  *)
(* implements this specification with sorted rows and an index array.      *)
(***************************************************************************)
EXTENDS Integers, FiniteSets

CONSTANTS nMax,      \* length of the list (QLEN: 20, or 75 for -a d)
          Candidate  \* the (solution, energy) pairs that may be offered

VARIABLES offered,   \* every pair offered so far
          pool       \* the pairs the list holds

vars == <<offered, pool>>

EnergyOf(pair) == pair[2]

(* P is a choice of the best nMax members of O; ties are broken freely.    *)
IsBest(P, O) ==
  /\ P \subseteq O
  /\ Cardinality(P) = IF Cardinality(O) < nMax THEN Cardinality(O) ELSE nMax
  /\ \A o \in O \ P, p \in P : EnergyOf(o) <= EnergyOf(p)

Init == offered = {} /\ pool = {}

Offer(pair) ==
  /\ offered' = offered \cup {pair}
  /\ pool' \subseteq pool \cup {pair}
  /\ IsBest(pool', offered')

Next == \E pair \in Candidate : Offer(pair)

Spec == Init /\ [][Next]_vars
=============================================================================
