----------------------------- MODULE LocalSearch -----------------------------
(***************************************************************************)
(* local_search() and local_search_1bit() of src/solver.cc: sweep the      *)
(* variables, flip every one whose flip improves the objective, stop after *)
(* a sweep without a flip.  Energy and flip costs are evaluated once and   *)
(* then only updated, flip by flip, and every candidate is counted against *)
(* the budget of the tabu search around it (TabuSearch).                   *)
(***************************************************************************)
EXTENDS Qubo

CONSTANT Qubos   \* the matrices to search, [UpperPair -> Int]
ASSUME QubosAssumption == Qubos \subseteq [UpperPair -> Int]

VARIABLES
  qubo, solution,
  energy, flip_cost,   \* unset before the evaluation
  bit_flips,           \* candidates tried so far, by all searches
  sweep_index,         \* the order of a sweep, rank -> variable
  kk, sweep_start,     \* the rank to try next, the rank the sweep began at
  improve,             \* has this sweep flipped a bit?
  ls_pc                \* "done" when no local search is under way

sweep  == <<sweep_index, kk, sweep_start, improve, ls_pc>>
ls     == <<qubo, solution, energy, flip_cost, bit_flips, sweep>>

Unset == [i \in Var |-> 0]

(* local_search_1bit() begins, at the top of its own index.                *)
Sweep(first) ==
  /\ sweep_index' = [i \in Var |-> i] /\ kk' = 0 /\ sweep_start' = 0
  /\ improve' = TRUE
  /\ ls_pc' = first

LocalInit ==
  /\ qubo \in Qubos /\ solution \in Bits
  /\ energy = 0 /\ flip_cost = Unset /\ bit_flips = 0
  /\ sweep_index = [i \in Var |-> i] /\ kk = 0 /\ sweep_start = 0
  /\ improve = TRUE
  /\ ls_pc = "evaluate"

(* local_search(): evaluate, then search.                                  *)
EvaluateAll ==
  /\ ls_pc = "evaluate"
  /\ energy' = Evaluate(qubo, solution)
  /\ flip_cost' = FlipCost(qubo, solution)
  /\ ls_pc' = "next sweep"
  /\ UNCHANGED <<qubo, solution, bit_flips, sweep_index, kk, sweep_start, improve>>

(* Shuffle and sweep downwards, then sweep upwards in the same order.  A   *)
(* single variable is always swept "downwards".                            *)
NextSweep ==
  /\ ls_pc = "next sweep"
  /\ improve
  /\ improve' = FALSE
  /\ IF sweep_start = 0
       THEN /\ sweep_index' \in Orderings(Var)
            /\ sweep_start' = qubo_size - 1
            /\ ls_pc' = "down"
       ELSE /\ sweep_start' = 0
            /\ ls_pc' = "up"
            /\ UNCHANGED sweep_index
  /\ kk' = sweep_start'
  /\ UNCHANGED <<qubo, solution, energy, flip_cost, bit_flips>>

SweepEnd_OffByOne == IF ls_pc = "down" THEN 0 ELSE qubo_size
SweepEnd == IF ls_pc = "down" THEN -1 ELSE qubo_size

Improves(bit) == flip_cost[bit] > 0

(* evaluate_1bit(): flip a bit and bring the energy and the costs along.   *)
evaluate_1bit(bit) ==
  /\ energy' = energy + flip_cost[bit]
  /\ solution' = Flip(solution, bit)
  /\ flip_cost' = UpdatedFlipCost(qubo, solution, flip_cost, bit)

TryBit ==
  /\ ls_pc \in {"down", "up"}
  /\ kk # SweepEnd
  /\ bit_flips' = bit_flips + 1
  /\ IF Improves(sweep_index[kk])
       THEN evaluate_1bit(sweep_index[kk]) /\ improve' = TRUE
       ELSE UNCHANGED <<energy, solution, flip_cost, improve>>
  /\ kk' = IF ls_pc = "down" THEN kk - 1 ELSE kk + 1
  /\ UNCHANGED <<qubo, sweep_index, sweep_start, ls_pc>>

EndSweep ==
  /\ ls_pc \in {"down", "up"}
  /\ kk = SweepEnd
  /\ ls_pc' = "next sweep"
  /\ UNCHANGED <<qubo, solution, energy, flip_cost, bit_flips, sweep_index, kk,
                 sweep_start, improve>>

(* The index is freed: the rest of the state of the search is forgotten.   *)
Return ==
  /\ ls_pc = "next sweep"
  /\ ~improve
  /\ ls_pc' = "done"
  /\ sweep_index' = [i \in Var |-> i] /\ kk' = 0 /\ sweep_start' = 0
  /\ UNCHANGED <<qubo, solution, energy, flip_cost, bit_flips, improve>>

LocalNext == EvaluateAll \/ NextSweep \/ TryBit \/ EndSweep \/ Return
------------------------------------------------------------------------------
(* The incrementally updated energy and flip costs are those a full        *)
(* evaluation by definition gives (solver.cc:104-151, "All the auxiliary   *)
(* information (flip_cost) is updated").                                   *)
AuxiliaryExact ==
  ls_pc # "evaluate" =>
    /\ energy = Objective(qubo, solution)
    /\ \A i \in Var :
         flip_cost[i] = Objective(qubo, Flip(solution, i)) - Objective(qubo, solution)
==============================================================================
