------------------------------ MODULE TabuSearch ------------------------------
(***************************************************************************)
(* tabu_search() of src/solver.cc.  A step is one turn of its while loop:  *)
(* a sweep over the variables that are not tabu ends at the first flip     *)
(* that beats the best energy, which local search then polishes, or else   *)
(* makes the best (or least bad) flip it saw.  The local search is that of *)
(* LocalSearch, step by step, on the same solution, costs and counter;     *)
(* energy is the code's Vlastchange.                                       *)
(***************************************************************************)
EXTENDS LocalSearch

CONSTANTS
  iter_budget,  \* candidate flips allowed on entry, iter_max - bit_flips
  nTabu,        \* tenure, 10 to 35 by size or set with -l
  Targets,      \* target energies, in the solver's sign; NoTarget is none
  NoTarget,
  NumIncrease,  \* how often the budget may grow (900)
  TinyDelta     \* a gain not above 1e-8 in the unit of the energies

ASSUME TabuAssumption ==
  /\ iter_budget \in Int
  /\ nTabu \in Nat
  /\ NoTarget \in Targets /\ Targets \ {NoTarget} \subseteq Int
  /\ NumIncrease \in Nat /\ TinyDelta \in Nat

VARIABLES
  target,
  best, best_energy,
  TabuK,          \* variable -> turns for which it is tabu
  last_bit,       \* the variable flipped last
  index,          \* order of a turn, best flip first
  kkstr,          \* rank the last turn began at
  iter_max, thisIter, increaseIter, numIncrease,
  bit_cycle_1, bit_cycle_2,  \* the last two improving variables
  bit_cycle,                 \* signs of going in circles
  Delta_E,                   \* how much the flip now polished has gained
  pc,
  start           \* history: the solution tabu_search was called with

limits == <<iter_max, thisIter, increaseIter, numIncrease>>
cycle  == <<bit_cycle_1, bit_cycle_2, bit_cycle>>
tabu == <<target, best, best_energy, TabuK, last_bit, index, kkstr, limits, cycle,
          Delta_E, pc, start>>
vars == <<ls, tabu>>

MAX(x, y) == IF x > y THEN x ELSE y
------------------------------------------------------------------------------
(* val_index_sort: the variables by falling flip cost, ties in any order.  *)
SortedIndex(costs) ==
  {order \in Orderings(Var) :
     \A i, j \in Var : i < j => costs[order[i]] >= costs[order[j]]}

TargetReached == target # NoTarget /\ energy >= target

Init ==
  /\ LocalInit
  /\ target \in Targets
  /\ start = solution /\ best = solution /\ best_energy = 0
  /\ TabuK = [i \in Var |-> 0]
  /\ last_bit = 0
  /\ index = [i \in Var |-> i] /\ kkstr = 0
  /\ iter_max = iter_budget
  /\ thisIter = 0 /\ increaseIter = 0 /\ numIncrease = NumIncrease
  /\ bit_cycle_1 = qubo_size /\ bit_cycle_2 = qubo_size /\ bit_cycle = 0
  /\ Delta_E = 0
  /\ pc = "enter"

(* A local search under way, on entry or after an improving flip.          *)
Polish ==
  /\ pc \in {"enter", "polish"} /\ ls_pc # "done"
  /\ LocalNext
  /\ UNCHANGED tabu

Remember == best' = solution /\ best_energy' = energy /\ index' \in SortedIndex(flip_cost)

(* Local search first; what is left of the budget is this search's own.    *)
Enter ==
  /\ pc = "enter" /\ ls_pc = "done"
  /\ Remember
  /\ thisIter' = iter_max - bit_flips
  /\ increaseIter' = thisIter' \div 2  \* of use only when positive
  /\ pc' = "loop"
  /\ UNCHANGED <<ls, target, TabuK, last_bit, kkstr, iter_max, numIncrease, cycle,
                 Delta_E, start>>

(* The sweep: from the bottom of the index, then from its top, and so on.  *)
NextStart == IF kkstr = 0 THEN qubo_size - 1 ELSE 0
Rank(i)  == CHOOSE rank \in Var : index[rank] = i
Turn(i)  == IF kkstr = 0 THEN qubo_size - 1 - Rank(i) ELSE Rank(i)

Candidates == {i \in Var : TabuK[i] = 0}
Gain(i)    == energy + flip_cost[i]
Improving  == {i \in Candidates : Gain(i) > best_energy /\ i # bit_cycle_1}
First(S)   == CHOOSE i \in S : \A j \in S : Turn(i) <= Turn(j)

(* Age the tabu list and make the variable flipped last tabu, for one turn *)
(* more or less depending on the last variable, "some asymmetry".          *)
Tenure(x) == IF x[qubo_size - 1] = 0 THEN nTabu + 1 ELSE nTabu - 1
AgeTabu_NoAging(x, bit) == TabuK' = [TabuK EXCEPT ![bit] = Tenure(x)]
AgeTabu(x, bit) ==
  TabuK' = [i \in Var |-> IF i = bit THEN Tenure(x) ELSE MAX(0, TabuK[i] - 1)]

(* The budget grows by half its size when a late improvement is found.     *)
Extend ==
  IF 5 * (iter_max - bit_flips) < 4 * thisIter /\ numIncrease > 0
    THEN /\ iter_max' = iter_max + increaseIter
         /\ thisIter' = thisIter + increaseIter
         /\ numIncrease' = numIncrease - 1
    ELSE UNCHANGED <<iter_max, thisIter, numIncrease>>

Signs ==
  (IF Delta_E <= TinyDelta THEN 1 ELSE 0) + (IF bit_cycle_2 = bit_cycle_1 THEN 1 ELSE 0)
  + (IF bit_cycle_2 = last_bit THEN 1 ELSE 0)

(* A flip beats the best energy: take it, and polish it.                   *)
Improve ==
  /\ pc = "loop" /\ bit_flips < iter_max
  /\ Improving # {}
  /\ LET bit == First(Improving) IN
       /\ last_bit' = bit
       /\ Delta_E' = Gain(bit) - best_energy
       /\ bit_flips' = bit_flips + Cardinality({i \in Candidates : Turn(i) <= Turn(bit)})
       /\ evaluate_1bit(bit)
  /\ Sweep("next sweep")
  /\ kkstr' = NextStart
  /\ pc' = "polish"
  /\ UNCHANGED <<qubo, target, best, best_energy, TabuK, index, limits, cycle, start>>

(* Then remember it and look whether the search goes in circles; leave the *)
(* loop at the target or in a circle, or age the tabu list.                *)
Polished ==
  /\ pc = "polish" /\ ls_pc = "done"
  /\ Remember
  /\ IF TargetReached
       THEN UNCHANGED <<cycle, iter_max, thisIter, numIncrease>>
       ELSE /\ bit_cycle' = bit_cycle + Signs
            /\ IF bit_cycle' > 4
                 THEN UNCHANGED <<bit_cycle_1, bit_cycle_2, iter_max, thisIter, numIncrease>>
                 ELSE /\ bit_cycle_2' = bit_cycle_1
                      /\ bit_cycle_1' = last_bit
                      /\ Extend
  /\ IF TargetReached \/ bit_cycle' > 6
       THEN pc' = "leave" /\ UNCHANGED TabuK
       ELSE pc' = "loop" /\ AgeTabu(solution, last_bit)
  /\ UNCHANGED <<ls, target, last_bit, kkstr, increaseIter, Delta_E, start>>

(* No flip does: make the best one of the sweep, or, when every variable   *)
(* is tabu, flip back the variable flipped last.                           *)
FallThrough ==
  /\ pc = "loop" /\ bit_flips < iter_max
  /\ Improving = {}
  /\ LET bit == IF Candidates = {} THEN last_bit
                ELSE First({i \in Candidates : \A j \in Candidates : Gain(i) >= Gain(j)})
     IN /\ last_bit' = bit
        /\ IF TargetReached \/ bit_cycle > 6
             THEN pc' = "leave" /\ UNCHANGED <<solution, energy, flip_cost, TabuK>>
             ELSE /\ pc' = "loop"
                  /\ evaluate_1bit(bit)
                  /\ AgeTabu(solution', bit)
  /\ bit_flips' = bit_flips + Cardinality(Candidates)
  /\ kkstr' = NextStart
  /\ UNCHANGED <<qubo, sweep, target, best, best_energy, index, limits, cycle,
                 Delta_E, start>>

Answer_Current == solution
Answer == best

(* Out of budget, or told to leave: return the best and its evaluation.    *)
Leave ==
  /\ pc = "leave" \/ (pc = "loop" /\ bit_flips >= iter_max)
  /\ solution' = Answer
  /\ energy' = Evaluate(qubo, solution')
  /\ flip_cost' = FlipCost(qubo, solution')
  /\ index' \in SortedIndex(flip_cost')
  /\ pc' = "done"
  /\ UNCHANGED <<qubo, bit_flips, sweep, target, best, best_energy, TabuK, last_bit, kkstr,
                 limits, cycle, Delta_E, start>>

Done == pc = "done" /\ UNCHANGED vars

Next == Polish \/ Enter \/ Improve \/ Polished \/ FallThrough \/ Leave \/ Done

(* One thread runs the loop without waiting for anything.                  *)
Spec == Init /\ [][Next]_vars /\ WF_vars(Next)
------------------------------------------------------------------------------
(* The search never returns less than it was given, and what it returns is *)
(* one of the local optima it polished (solver.cc:155, 242, "returns the   *)
(* best solution found").                                                  *)
ReturnsPolished ==
  pc = "done" =>
    /\ Objective(qubo, solution) >= Objective(qubo, start)
    /\ LocalOptimum(qubo, solution)

(* Whenever the loop goes round, best_energy is the energy of best, a local*)
(* optimum, though both come from incremental updates only.                *)
BestEnergyOfBest ==
  pc # "enter" => best_energy = Objective(qubo, best) /\ LocalOptimum(qubo, best)

(* The search comes to an end (solver.cc:239, "The algorithm terminates    *)
(* after sufficiently many bit flips without improvment"), and so does     *)
(* every local search in it.                                               *)
Terminates == <>(pc = "done")
==============================================================================
