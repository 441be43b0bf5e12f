------------------------------ MODULE Population ------------------------------
(***************************************************************************)
(* What src/util.cc computes from several solutions at once, bit by bit:   *)
(* the backbone (the variables they differ in) that -a d cuts its windows  *)
(* from, and the solution most of them agree with, from which it starts.   *)
(***************************************************************************)
EXTENDS Qubo, Sequences

SumOver(rows, bit) == SumFunction([r \in DOMAIN rows |-> rows[r][bit]])

(* How many solutions differ from the others at a bit, if not more than    *)
(* half of them do.                                                        *)
Mirrored_Never(sum, num) == sum
Mirrored(sum, num) == IF sum > (num + 1) \div 2 - 1 THEN num - sum ELSE sum

(* An index vector: the bits in ascending order, the rest of it zero.      *)
IndexVector(S) == [k \in Var |-> IF k < Cardinality(S) THEN InOrder(S)[k] ELSE 0]

mul_index_solution_diff(rows, delta_bits) ==
  LET differ == {i \in Var : Mirrored(SumOver(rows, i), Len(rows)) > delta_bits}
  IN  [len |-> Cardinality(differ), index |-> IndexVector(differ)]

(* The bit most solutions have, or, when more than bias of them differ from*)
(* the others, the opposite one.                                           *)
solution_population(rows, bias) ==
  [i \in Var |->
     LET sum     == SumOver(rows, i)
         popular == IF sum >= Len(rows) \div 2 THEN 1 ELSE 0
     IN  IF Mirrored(sum, Len(rows)) > bias THEN 1 - popular ELSE popular]
===============================================================================
