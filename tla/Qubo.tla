-------------------------------- MODULE Qubo --------------------------------
(***************************************************************************)
(* A QUBO and the operators of src/solver.cc that read it.  qubo is an     *)
(* upper triangular matrix; an entry below the diagonal is zero.  The      *)
(* solver maximises.                                                       *)
(***************************************************************************)
EXTENDS Integers, FiniteSets, Functions

CONSTANT qubo_size
ASSUME QuboSizeAssumption == qubo_size \in Nat \ {0}

Var       == 0 .. qubo_size - 1
Bits      == [Var -> {0, 1}]
UpperPair == {p \in Var \X Var : p[1] <= p[2]}

(* The objective as its definition reads, the long way (just_evaluate).    *)
Terms(qubo, x) == [p \in UpperPair |-> qubo[p] * x[p[1]] * x[p[2]]]
Objective(qubo, x) == SumFunction(Terms(qubo, x))

InRow(qubo, x, i) == [j \in i + 1 .. qubo_size - 1 |-> IF x[j] = 1 THEN qubo[<<i, j>>] ELSE 0]
InCol(qubo, x, i) == [j \in 0 .. i - 1 |-> IF x[j] = 1 THEN qubo[<<j, i>>] ELSE 0]
RowSum(qubo, x, i) == SumFunction(InRow(qubo, x, i))
ColSum(qubo, x, i) == SumFunction(InCol(qubo, x, i))

(* evaluate(): the objective from the rows of the variables that are set,  *)
(* and the change each single flip would make.                             *)
Evaluate(qubo, x) ==
  SumFunction([i \in Var |-> IF x[i] = 1 THEN RowSum(qubo, x, i) + qubo[<<i, i>>] ELSE 0])

FlipCost(qubo, x) ==
  [i \in Var |->
     LET contrib == RowSum(qubo, x, i) + ColSum(qubo, x, i) + qubo[<<i, i>>]
     IN  IF x[i] = 1 THEN -contrib ELSE contrib]

Flip(x, bit) == [x EXCEPT ![bit] = 1 - @]

(* evaluate_1bit(): the flip costs after a flip, from those before it.     *)
Coupler_RowOnly(qubo, i, j) == IF i < j THEN qubo[<<i, j>>] ELSE 0
Coupler(qubo, i, j) == IF i < j THEN qubo[<<i, j>>] ELSE qubo[<<j, i>>]

UpdatedFlipCost(qubo, x, flip_cost, bit) ==
  [i \in Var |->
     IF i = bit THEN -flip_cost[bit]
     ELSE LET delta == Coupler(qubo, i, bit) * (IF x[i] = 1 THEN 1 ELSE -1)
          IN  IF Flip(x, bit)[bit] = 0 THEN flip_cost[i] + delta
                                       ELSE flip_cost[i] - delta]

(* No single flip improves x.                                              *)
LocalOptimum(qubo, x) ==
  \A i \in Var : Objective(qubo, Flip(x, i)) <= Objective(qubo, x)

(* Variables as a vector, in ascending order: each stands behind as many   *)
(* others as are smaller.                                                  *)
InOrder(S) ==
  [k \in 0 .. Cardinality(S) - 1 |-> CHOOSE i \in S : Cardinality({j \in S : j < i}) = k]

Orderings(S) == Bijection(0 .. Cardinality(S) - 1, S)
=============================================================================
