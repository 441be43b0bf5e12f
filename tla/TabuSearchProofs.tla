-------------------------- MODULE TabuSearchProofs --------------------------
(***************************************************************************)
(* What the tabu search and the local search in it keep, for every matrix, *)
(* size, tenure and budget.  The argument is one inductive invariant: the  *)
(* energy and the flip costs are those of the solution (QuboProofs shows   *)
(* that one update keeps them so), a sweep that has not flipped a bit has  *)
(* left no gain behind it, and what is remembered as the best is never     *)
(* worse than what the search began with.                                  *)
(***************************************************************************)
EXTENDS TabuSearch, QuboProofs

NoGain(S) == \A i \in S : flip_cost[i] <= 0

(* The ranks a sweep has passed.                                           *)
Swept == IF ls_pc = "down" THEN kk + 1 .. qubo_size - 1 ELSE 0 .. kk - 1

TypeInv ==
  /\ qubo \in [UpperPair -> Int]
  /\ solution \in Bits /\ start \in Bits /\ best \in Bits
  /\ improve \in BOOLEAN
  /\ sweep_index \in Orderings(Var) /\ index \in Orderings(Var)
  /\ last_bit \in Var
  /\ ls_pc \in {"evaluate", "next sweep", "down", "up", "done"}
  /\ pc \in {"enter", "loop", "polish", "leave", "done"}

AuxInv ==
  ls_pc # "evaluate" =>
    energy = Objective(qubo, solution) /\ flip_cost = FlipCost(qubo, solution)

SweepInv ==
  /\ ls_pc = "evaluate" => improve
  /\ ls_pc = "down" => kk \in -1 .. qubo_size - 1
  /\ ls_pc = "up" => kk \in 0 .. qubo_size
  /\ ls_pc \in {"down", "up"} /\ ~improve =>
       \A rank \in Swept : flip_cost[sweep_index[rank]] <= 0
  /\ ls_pc = "next sweep" /\ ~improve => NoGain(Var)
  /\ ls_pc = "done" /\ pc \in {"enter", "polish"} => NoGain(Var)

BestInv ==
  /\ pc = "enter" /\ ls_pc = "evaluate" => solution = start
  /\ pc = "enter" /\ ls_pc # "evaluate" => energy >= Objective(qubo, start)
  /\ pc # "enter" => /\ ls_pc # "evaluate"
                     /\ best_energy = Objective(qubo, best)
                     /\ LocalOptimum(qubo, best)
                     /\ best_energy >= Objective(qubo, start)
  /\ pc = "polish" => energy >= best_energy
  /\ pc \in {"loop", "leave", "done"} => ls_pc = "done"
  /\ pc = "done" => solution = best

IInv == TypeInv /\ AuxInv /\ SweepInv /\ BestInv
------------------------------------------------------------------------------
(* An ordering of the variables gives every rank in Var one variable and   *)
(* every variable a rank; the identity is one.                             *)
LEMMA OrderingFacts ==
  /\ \A s \in Orderings(Var) : s \in [Var -> Var] /\ \A v \in Var : \E rank \in Var : s[rank] = v
  /\ [i \in Var |-> i] \in Orderings(Var)
<1>1. qubo_size \in Nat \ {0}
  BY QuboSizeAssumption
<1>2. Cardinality(Var) = qubo_size
  <2>1. 0 \in Int /\ qubo_size - 1 \in Int /\ ~(0 > qubo_size - 1) /\ qubo_size - 1 - 0 + 1 = qubo_size
    BY <1>1
  <2> QED BY <2>1, FS_Interval DEF Var
<1>3. 0 .. Cardinality(Var) - 1 = Var
  BY <1>2 DEF Var
<1>4. Orderings(Var) = Bijection(Var, Var)
  BY <1>3 DEF Orderings
<1> QED BY <1>4 DEF Bijection, Injection, Surjection, IsInjective

(* Among finitely many integers there is a largest and a smallest.         *)
LEMMA LargestOf ==
  ASSUME NEW S, IsFiniteSet(S), S # {}, NEW f, \A i \in S : f[i] \in Int
  PROVE  \E i \in S : \A j \in S : f[i] >= f[j]
<1> DEFINE above == [i \in S |-> {j \in S : f[j] >= f[i]}]
           T     == {above[i] : i \in S}
<1>1. T # {} /\ \A A \in T : IsFiniteSet(A)
  <2>1. ASSUME NEW A \in T PROVE IsFiniteSet(A)
    <3>1. A \subseteq S
      OBVIOUS
    <3> QED BY <3>1, FS_Subset
  <2> QED BY <2>1
<1>2. PICK A \in T : \A B \in T : B \subseteq A => B = A
  <2> HIDE DEF T
  <2> QED BY <1>1, SmallestSet
<1>3. PICK i \in S : A = above[i]
  OBVIOUS
<1>4. ASSUME NEW j \in S, ~(f[i] >= f[j]) PROVE FALSE
  <2>1. above[j] \subseteq above[i] /\ i \notin above[j] /\ i \in above[i]
    BY <1>4
  <2> QED BY <1>2, <1>3, <2>1
<1> QED BY <1>4

(* And one with the smallest.                                              *)
LEMMA SmallestOf ==
  ASSUME NEW S, IsFiniteSet(S), S # {}, NEW f, \A i \in S : f[i] \in Int
  PROVE  \E i \in S : \A j \in S : f[i] <= f[j]
<1>1. PICK g : g = [i \in S |-> -f[i]]
  OBVIOUS
<1>2. \A i \in S : g[i] \in Int /\ g[i] = -f[i]
  BY <1>1
<1>3. PICK i \in S : \A j \in S : g[i] >= g[j]
  BY <1>2, LargestOf
<1> QED BY <1>2, <1>3

(* The first of some variables in the order of a turn is one of them.      *)
LEMMA FirstIn ==
  ASSUME index \in Orderings(Var), NEW S \in SUBSET Var, S # {}
  PROVE  First(S) \in S
<1>1. \A i \in Var : Rank(i) \in Var
  BY OrderingFacts DEF Rank
<1>2. PICK t : t = [i \in Var |-> Turn(i)]
  OBVIOUS
<1>3. \A i \in Var : t[i] = Turn(i) /\ t[i] \in Int
  BY <1>1, <1>2, QuboSizeAssumption DEF Turn, Var
<1>4. IsFiniteSet(S) /\ \A i \in S : t[i] \in Int
  BY <1>3, QuboFinite, FS_Subset
<1>5. PICK i \in S : \A j \in S : t[i] <= t[j]
  BY <1>4, SmallestOf
<1>6. \E k \in S : \A j \in S : Turn(k) <= Turn(j)
  BY <1>3, <1>5
<1> QED BY <1>6 DEF First

(* The flip costs of a solution are integers, and when none is positive    *)
(* the solution is a local optimum.                                        *)
LEMMA CostFacts ==
  ASSUME NEW q \in [UpperPair -> Int], NEW x \in Bits
  PROVE  /\ FlipCost(q, x) \in [Var -> Int] /\ Objective(q, x) \in Int
         /\ (\A i \in Var : FlipCost(q, x)[i] <= 0) => LocalOptimum(q, x)
<1>1. Objective(q, x) \in Int /\ \A i \in Var : Objective(q, Flip(x, i)) \in Int
  BY TermsInt, FlipOne
<1>2. \A i \in Var : /\ FlipCost(q, x)[i] = Objective(q, Flip(x, i)) - Objective(q, x)
                     /\ FlipCost(q, x)[i] \in Int
  BY FlipCostExact
<1>3. FlipCost(q, x) \in [Var -> Int]
  <2>1. FlipCost(q, x) = [i \in Var |-> FlipCost(q, x)[i]]
    BY DEF FlipCost
  <2> QED BY <1>2, <2>1
<1>4. ASSUME \A i \in Var : FlipCost(q, x)[i] <= 0 PROVE LocalOptimum(q, x)
  BY <1>1, <1>2, <1>4 DEF LocalOptimum
<1> QED BY <1>1, <1>3, <1>4

(* A flip keeps the energy and the flip costs exact.                       *)
LEMMA FlipKeepsExact ==
  ASSUME TypeInv, AuxInv, ls_pc # "evaluate", NEW bit \in Var, evaluate_1bit(bit), qubo' = qubo
  PROVE  /\ solution' \in Bits
         /\ energy' = Objective(qubo', solution') /\ flip_cost' = FlipCost(qubo', solution')
         /\ energy' = energy + flip_cost[bit] /\ energy \in Int /\ flip_cost[bit] \in Int
<1>1. qubo \in [UpperPair -> Int] /\ solution \in Bits
  BY DEF TypeInv
<1>2. solution' = Flip(solution, bit) /\ Flip(solution, bit) \in Bits
  BY <1>1, FlipOne DEF evaluate_1bit
<1>3. energy = Objective(qubo, solution) /\ flip_cost = FlipCost(qubo, solution)
  BY DEF AuxInv
<1>4. PICK e \in Int, d \in Int : e = Objective(qubo, solution) /\ d = Objective(qubo, Flip(solution, bit))
  BY <1>1, <1>2, TermsInt
<1>5. flip_cost[bit] = d - e
  BY <1>1, <1>3, <1>4, FlipCostExact
<1>6. energy' = d
  BY <1>3, <1>4, <1>5 DEF evaluate_1bit
<1>7. flip_cost' = FlipCost(qubo, Flip(solution, bit))
  BY <1>1, <1>3, UpdatedExact DEF evaluate_1bit
<1> QED BY <1>2, <1>3, <1>4, <1>5, <1>6, <1>7 DEF evaluate_1bit

------------------------------------------------------------------------------
(* The invariant holds in the beginning.                                   *)
LEMMA InvInit == Init => IInv
<1> SUFFICES ASSUME Init PROVE IInv
  OBVIOUS
<1>1. 0 \in Var /\ qubo \in [UpperPair -> Int]
  BY QuboSizeAssumption, QubosAssumption DEF Var, Init, LocalInit
<1>2. TypeInv
  BY <1>1, OrderingFacts DEF Init, LocalInit, TypeInv
<1>3. AuxInv /\ SweepInv /\ BestInv
  BY DEF Init, LocalInit, AuxInv, SweepInv, BestInv
<1> QED BY <1>2, <1>3 DEF IInv

(* What a step of the local search keeps.                                  *)
LEMMA EvaluateAllKeeps == ASSUME IInv, EvaluateAll, UNCHANGED tabu PROVE IInv'
<1> USE DEF IInv
<1>1. TypeInv'
  BY DEF TypeInv, EvaluateAll, tabu
<1>2. qubo \in [UpperPair -> Int] /\ solution \in Bits
  BY DEF TypeInv
<1>3. energy' = Objective(qubo, solution) /\ flip_cost' = FlipCost(qubo, solution)
  BY <1>2, EvaluateExact DEF EvaluateAll
<1>4. AuxInv'
  BY <1>3 DEF AuxInv, EvaluateAll
<1>5. SweepInv'
  BY DEF SweepInv, EvaluateAll
<1>6. BestInv'
  <2>1. Objective(qubo, solution) \in Int
    BY <1>2, TermsInt
  <2>2. pc = "enter" /\ solution = start
    BY DEF BestInv, EvaluateAll, TypeInv
  <2>3. pc' = "enter" /\ ls_pc' = "next sweep" /\ UNCHANGED <<qubo, start>>
    BY <2>2 DEF EvaluateAll, tabu
  <2>4. energy' = Objective(qubo', start') /\ energy' \in Int
    BY <1>3, <2>1, <2>2, <2>3
  <2>5. energy' >= Objective(qubo', start')
    BY <2>4
  <2> HIDE DEF IInv
  <2> QED BY <2>3, <2>5 DEF BestInv
<1> QED BY <1>1, <1>4, <1>5, <1>6

(* A step of the search itself that touches neither the solution nor what  *)
(* is remembered of it.                                                    *)
LEMMA SearchUntouched ==
  ASSUME IInv, UNCHANGED <<qubo, solution, energy, flip_cost, best, best_energy, start, pc>>,
         ls_pc # "evaluate", ls_pc' # "evaluate",
         pc \in {"enter", "polish"}
  PROVE  AuxInv' /\ BestInv'
<1>1. AuxInv'
  BY DEF IInv, AuxInv
<1>2. BestInv'
  BY DEF IInv, BestInv, LocalOptimum
<1> QED BY <1>1, <1>2

(* The next bit of a sweep.                                                *)
LEMMA NextSweepKeeps ==
  ASSUME IInv, NextSweep, UNCHANGED tabu, pc \in {"enter", "polish"} PROVE IInv'
<1> USE DEF IInv
<1>1. TypeInv'
  BY DEF TypeInv, NextSweep, tabu
<1>2. AuxInv' /\ BestInv'
  BY SearchUntouched DEF NextSweep, tabu
<1>3. SweepInv'
  <2>1. CASE sweep_start = 0
    <3>1. kk' = qubo_size - 1 /\ ls_pc' = "down"
      BY <2>1 DEF NextSweep
    <3>2. Swept' = {}
      BY <3>1, QuboSizeAssumption DEF Swept
    <3>3. kk' \in -1 .. qubo_size - 1
      BY <3>1, QuboSizeAssumption
    <3> HIDE DEF IInv
    <3> QED BY <3>1, <3>2, <3>3 DEF SweepInv
  <2>2. CASE sweep_start # 0
    <3>1. kk' = 0 /\ ls_pc' = "up"
      BY <2>2 DEF NextSweep
    <3>2. Swept' = {}
      BY <3>1 DEF Swept
    <3>3. kk' \in 0 .. qubo_size
      BY <3>1, QuboSizeAssumption
    <3> HIDE DEF IInv
    <3> QED BY <3>1, <3>2, <3>3 DEF SweepInv
  <2> QED BY <2>1, <2>2
<1> QED BY <1>1, <1>2, <1>3

(* A bit tried in a sweep, flipped if that gains.                          *)
LEMMA TryBitKeeps ==
  ASSUME IInv, TryBit, UNCHANGED tabu, pc \in {"enter", "polish"} PROVE IInv'
<1> DEFINE bit == sweep_index[kk]
<1>1. kk \in Var /\ bit \in Var /\ ls_pc \in {"down", "up"} /\ ls_pc' = ls_pc
  <2>1. kk \in Var
    <3>1. \/ ls_pc = "down" /\ kk # -1 /\ kk \in -1 .. qubo_size - 1
          \/ ls_pc = "up" /\ kk # qubo_size /\ kk \in 0 .. qubo_size
      BY DEF IInv, SweepInv, TryBit, SweepEnd
    <3> QED BY <3>1, QuboSizeAssumption DEF Var
  <2> QED BY <2>1, OrderingFacts DEF IInv, TypeInv, TryBit
<1>2. CASE Improves(bit)
  <2>1. evaluate_1bit(bit) /\ improve' = TRUE
    BY <1>2 DEF TryBit
  <2>2. /\ solution' \in Bits
        /\ energy' = Objective(qubo', solution') /\ flip_cost' = FlipCost(qubo', solution')
        /\ energy' = energy + flip_cost[bit] /\ energy \in Int /\ flip_cost[bit] \in Int
    BY <1>1, <2>1, FlipKeepsExact DEF IInv, TryBit
  <2>3. energy' > energy
    BY <1>2, <2>2 DEF Improves
  <2>4. TypeInv'
    BY <2>1, <2>2 DEF IInv, TypeInv, TryBit, tabu
  <2>5. AuxInv'
    BY <2>2 DEF AuxInv
  <2>6. SweepInv'
    BY <1>1, <2>1, QuboSizeAssumption DEF SweepInv, TryBit, Var
  <2>7. BestInv'
    <3>1. Objective(qubo, start) \in Int
      BY TermsInt DEF IInv, TypeInv
    <3>2. pc # "enter" => best_energy \in Int
      BY TermsInt DEF IInv, TypeInv, BestInv
    <3> QED BY <1>1, <2>2, <2>3, <3>1, <3>2 DEF IInv, BestInv, TryBit, tabu, LocalOptimum
  <2> QED BY <2>4, <2>5, <2>6, <2>7 DEF IInv
<1>3. CASE ~Improves(bit)
  <2>1. UNCHANGED <<energy, solution, flip_cost, improve>>
    BY <1>3 DEF TryBit
  <2>2. TypeInv'
    BY <2>1 DEF IInv, TypeInv, TryBit, tabu
  <2>3. AuxInv' /\ BestInv'
    BY <1>1, <2>1, SearchUntouched DEF TryBit, tabu
  <2>4. flip_cost[bit] <= 0
    <3>1. flip_cost[bit] \in Int
      BY <1>1, CostFacts DEF IInv, TypeInv, AuxInv
    <3> QED BY <1>3, <3>1 DEF Improves
  <2>5. SweepInv'
    <3>1. Swept' = Swept \cup {kk}
      BY <1>1, QuboSizeAssumption DEF Swept, TryBit, Var
    <3>2. sweep_index' = sweep_index /\ kk' = IF ls_pc = "down" THEN kk - 1 ELSE kk + 1
      BY DEF TryBit
    <3>3. /\ ls_pc = "down" => kk' \in -1 .. qubo_size - 1
          /\ ls_pc = "up" => kk' \in 0 .. qubo_size
      BY <1>1, <3>2, QuboSizeAssumption DEF Var
    <3>4. ~improve => \A rank \in Swept' : flip_cost'[sweep_index'[rank]] <= 0
      BY <1>1, <2>1, <2>4, <3>1, <3>2 DEF IInv, SweepInv
    <3> QED BY <1>1, <2>1, <3>3, <3>4 DEF SweepInv
  <2> QED BY <2>2, <2>3, <2>5 DEF IInv
<1> QED BY <1>2, <1>3

(* The end of a sweep.                                                     *)
LEMMA EndSweepKeeps ==
  ASSUME IInv, EndSweep, UNCHANGED tabu, pc \in {"enter", "polish"} PROVE IInv'
<1>1. TypeInv'
  BY DEF IInv, TypeInv, EndSweep, tabu
<1>2. AuxInv' /\ BestInv'
  BY SearchUntouched DEF EndSweep, tabu
<1>3. ASSUME ~improve PROVE NoGain(Var)
  <2>1. Swept = Var
    <3>1. \/ ls_pc = "down" /\ kk = -1
          \/ ls_pc = "up" /\ kk = qubo_size
      BY DEF EndSweep, SweepEnd
    <3> QED BY <3>1, QuboSizeAssumption DEF Swept, Var
  <2>2. \A rank \in Var : flip_cost[sweep_index[rank]] <= 0
    BY <1>3, <2>1 DEF IInv, SweepInv, EndSweep
  <2> QED BY <2>2, OrderingFacts DEF IInv, TypeInv, NoGain
<1>4. SweepInv'
  BY <1>3 DEF SweepInv, EndSweep, NoGain
<1> QED BY <1>1, <1>2, <1>4 DEF IInv

(* The return from the local search.                                       *)
LEMMA ReturnKeeps ==
  ASSUME IInv, Return, UNCHANGED tabu, pc \in {"enter", "polish"} PROVE IInv'
<1>1. TypeInv'
  BY OrderingFacts DEF IInv, TypeInv, Return, tabu
<1>2. AuxInv' /\ BestInv'
  BY SearchUntouched DEF Return, tabu
<1>3. SweepInv'
  BY DEF IInv, SweepInv, Return, NoGain
<1> QED BY <1>1, <1>2, <1>3 DEF IInv

------------------------------------------------------------------------------
(* What local search leaves is worth remembering: a local optimum with its *)
(* energy, no worse than the solution the search began with.               *)
LEMMA WorthRemembering ==
  ASSUME IInv, ls_pc = "done", pc \in {"enter", "polish"}
  PROVE  /\ energy = Objective(qubo, solution) /\ LocalOptimum(qubo, solution)
         /\ energy >= Objective(qubo, start)
<1>1. qubo \in [UpperPair -> Int] /\ solution \in Bits /\ start \in Bits
  BY DEF IInv, TypeInv
<1>2. energy = Objective(qubo, solution) /\ flip_cost = FlipCost(qubo, solution)
  BY DEF IInv, AuxInv
<1>3. LocalOptimum(qubo, solution)
  BY <1>1, <1>2, CostFacts DEF IInv, SweepInv, NoGain
<1>4. energy >= Objective(qubo, start)
  <2>1. CASE pc = "enter"
    BY <2>1 DEF IInv, BestInv
  <2>2. CASE pc = "polish"
    <3>1. energy >= best_energy /\ best_energy >= Objective(qubo, start)
      BY <2>2 DEF IInv, BestInv
    <3>2. energy \in Int /\ best_energy \in Int /\ Objective(qubo, start) \in Int
      <4>1. best_energy = Objective(qubo, best) /\ best \in Bits
        BY <2>2 DEF IInv, BestInv, TypeInv
      <4> QED BY <1>1, <1>2, <4>1, TermsInt
    <3> QED BY <3>1, <3>2
  <2> QED BY <2>1, <2>2
<1> QED BY <1>2, <1>3, <1>4

(* The calls of the local search.                                          *)
LEMMA EnterKeeps == ASSUME IInv, Enter PROVE IInv'
<1>1. TypeInv'
  BY DEF IInv, TypeInv, Enter, Remember, SortedIndex, ls, sweep
<1>2. AuxInv'
  BY DEF IInv, AuxInv, Enter, ls, sweep
<1>3. SweepInv'
  BY DEF IInv, SweepInv, Enter, ls, sweep, NoGain
<1>4. BestInv'
  <2>1. /\ energy = Objective(qubo, solution) /\ LocalOptimum(qubo, solution)
        /\ energy >= Objective(qubo, start)
    BY WorthRemembering DEF Enter
  <2> QED BY <2>1 DEF BestInv, Enter, Remember, ls, sweep, LocalOptimum
<1> QED BY <1>1, <1>2, <1>3, <1>4 DEF IInv

(* A move that improves on the best solution.                              *)
LEMMA ImproveKeeps == ASSUME IInv, Improve PROVE IInv'
<1> DEFINE bit == First(Improving)
<1>1. bit \in Improving /\ bit \in Var
  BY FirstIn DEF IInv, TypeInv, Improve, Improving, Candidates
<1>2. /\ evaluate_1bit(bit) /\ pc = "loop" /\ pc' = "polish" /\ last_bit' = bit
      /\ ls_pc' = "next sweep" /\ improve' = TRUE /\ sweep_index' = [i \in Var |-> i]
      /\ UNCHANGED <<qubo, best, best_energy, index, start>>
  BY DEF Improve, Sweep
<1>3. ls_pc = "done"
  BY <1>2 DEF IInv, BestInv
<1>4. /\ solution' \in Bits
      /\ energy' = Objective(qubo', solution') /\ flip_cost' = FlipCost(qubo', solution')
      /\ energy' = energy + flip_cost[bit] /\ energy \in Int /\ flip_cost[bit] \in Int
  <2> HIDE DEF bit
  <2> QED BY <1>1, <1>2, <1>3, FlipKeepsExact DEF IInv
<1>5. energy' >= best_energy
  <2>1. best_energy \in Int
    <3>1. best_energy = Objective(qubo, best) /\ best \in Bits /\ qubo \in [UpperPair -> Int]
      BY <1>2 DEF IInv, BestInv, TypeInv
    <3> QED BY <3>1, TermsInt
  <2>2. energy + flip_cost[bit] > best_energy
    BY <1>1 DEF Improving, Gain
  <2> HIDE DEF bit
  <2> QED BY <1>4, <2>1, <2>2
<1> HIDE DEF bit
<1>6. TypeInv'
  BY <1>1, <1>2, <1>4, OrderingFacts DEF IInv, TypeInv
<1>7. AuxInv'
  BY <1>4 DEF AuxInv
<1>8. SweepInv'
  BY <1>2 DEF SweepInv
<1>9. BestInv'
  BY <1>2, <1>5 DEF IInv, BestInv, LocalOptimum
<1> QED BY <1>6, <1>7, <1>8, <1>9 DEF IInv

(* The best solution is what the local search made of it.                  *)
LEMMA PolishedKeeps == ASSUME IInv, Polished PROVE IInv'
<1>1. pc' \in {"leave", "loop"} /\ pc = "polish" /\ ls_pc = "done"
  BY DEF Polished
<1>2. TypeInv'
  BY <1>1 DEF IInv, TypeInv, Polished, Remember, SortedIndex, ls, sweep
<1>3. AuxInv'
  BY DEF IInv, AuxInv, Polished, ls, sweep
<1>4. SweepInv'
  BY <1>1 DEF IInv, SweepInv, Polished, ls, sweep
<1>5. BestInv'
  <2>1. /\ energy = Objective(qubo, solution) /\ LocalOptimum(qubo, solution)
        /\ energy >= Objective(qubo, start)
    BY <1>1, WorthRemembering
  <2> QED BY <1>1, <2>1 DEF BestInv, Polished, Remember, ls, sweep, LocalOptimum
<1> QED BY <1>2, <1>3, <1>4, <1>5 DEF IInv

(* The best move that is not tabu.                                         *)
LEMMA FallThroughKeeps == ASSUME IInv, FallThrough PROVE IInv'
<1> DEFINE most == {i \in Candidates : \A j \in Candidates : Gain(i) >= Gain(j)}
           bit  == IF Candidates = {} THEN last_bit ELSE First(most)
<1>1. pc = "loop" /\ ls_pc = "done"
  BY DEF FallThrough, IInv, BestInv
<1>2. energy \in Int /\ flip_cost \in [Var -> Int]
  BY <1>1, CostFacts DEF IInv, TypeInv, AuxInv
<1>3. bit \in Var
  <2>1. CASE Candidates = {}
    BY <2>1 DEF IInv, TypeInv
  <2>2. CASE Candidates # {}
    <3>1. PICK f : f = [i \in Var |-> Gain(i)]
      OBVIOUS
    <3>2. \A i \in Candidates : i \in Var /\ f[i] = Gain(i) /\ f[i] \in Int
      BY <1>2, <3>1 DEF Candidates, Gain
    <3>3. IsFiniteSet(Candidates)
      BY QuboFinite, FS_Subset DEF Candidates
    <3>4. PICK i \in Candidates : \A j \in Candidates : f[i] >= f[j]
      BY <2>2, <3>2, <3>3, LargestOf
    <3>5. most # {} /\ most \in SUBSET Var
      BY <3>2, <3>4
    <3>6. First(most) \in most
      <4> HIDE DEF most
      <4> QED BY <3>5, FirstIn DEF IInv, TypeInv
    <3> QED BY <2>2, <3>5, <3>6
  <2> QED BY <2>1, <2>2
<1>4. /\ last_bit' = bit /\ pc' \in {"leave", "loop"}
      /\ \/ UNCHANGED <<solution, energy, flip_cost>>
         \/ evaluate_1bit(bit)
      /\ UNCHANGED <<qubo, sweep, best, best_energy, index, start>>
  BY DEF FallThrough
<1> HIDE DEF bit
<1>5. /\ solution' \in Bits
      /\ energy' = Objective(qubo', solution') /\ flip_cost' = FlipCost(qubo', solution')
  <2>1. CASE UNCHANGED <<solution, energy, flip_cost>>
    BY <1>1, <1>4, <2>1 DEF IInv, TypeInv, AuxInv
  <2>2. CASE evaluate_1bit(bit)
    BY <1>1, <1>3, <1>4, <2>2, FlipKeepsExact DEF IInv
  <2> QED BY <1>4, <2>1, <2>2
<1>6. TypeInv'
  BY <1>3, <1>4, <1>5 DEF IInv, TypeInv, sweep
<1>7. AuxInv'
  BY <1>5 DEF AuxInv
<1>8. SweepInv'
  BY <1>1, <1>4 DEF SweepInv, sweep
<1>9. BestInv'
  BY <1>1, <1>4 DEF IInv, BestInv, sweep, LocalOptimum
<1> QED BY <1>6, <1>7, <1>8, <1>9 DEF IInv

(* The end of the search.                                                  *)
LEMMA LeaveKeeps == ASSUME IInv, Leave PROVE IInv'
<1>1. pc \in {"leave", "loop"} /\ pc' = "done" /\ ls_pc = "done" /\ ls_pc' = "done"
  BY DEF Leave, IInv, BestInv, sweep
<1>2. /\ solution' = best /\ qubo' = qubo /\ best \in Bits /\ qubo \in [UpperPair -> Int]
      /\ UNCHANGED <<best, best_energy, start>>
  BY DEF Leave, Answer, IInv, TypeInv
<1>3. energy' = Objective(qubo, best) /\ flip_cost' = FlipCost(qubo, best)
  BY <1>2, EvaluateExact DEF Leave
<1>4. TypeInv'
  BY <1>1, <1>2 DEF IInv, TypeInv, Leave, SortedIndex, sweep
<1>5. AuxInv'
  BY <1>2, <1>3 DEF AuxInv
<1>6. SweepInv'
  BY <1>1 DEF SweepInv
<1>7. BestInv'
  BY <1>1, <1>2 DEF IInv, BestInv, LocalOptimum
<1> QED BY <1>4, <1>5, <1>6, <1>7 DEF IInv

(* Every step keeps the invariant.                                         *)
LEMMA InvStep == IInv /\ [Next]_vars => IInv'
<1> SUFFICES ASSUME IInv, [Next]_vars PROVE IInv'
  OBVIOUS
<1>1. CASE Polish
  <2>1. LocalNext /\ UNCHANGED tabu /\ pc \in {"enter", "polish"}
    BY <1>1 DEF Polish
  <2> QED BY <2>1, EvaluateAllKeeps, NextSweepKeeps, TryBitKeeps, EndSweepKeeps, ReturnKeeps DEF LocalNext
<1>2. CASE Enter
  BY <1>2, EnterKeeps
<1>3. CASE Improve
  BY <1>3, ImproveKeeps
<1>4. CASE Polished
  BY <1>4, PolishedKeeps
<1>5. CASE FallThrough
  BY <1>5, FallThroughKeeps
<1>6. CASE Leave
  BY <1>6, LeaveKeeps
<1>7. CASE UNCHANGED vars
  BY <1>7 DEF vars, ls, sweep, tabu, IInv, TypeInv, AuxInv, SweepInv, BestInv, NoGain, Swept, LocalOptimum
<1> QED BY <1>1, <1>2, <1>3, <1>4, <1>5, <1>6, <1>7 DEF Next, Done

(* The invariant holds throughout the search.                              *)
LEMMA InvAlways == Spec => []IInv
BY InvInit, InvStep, PTL DEF Spec
------------------------------------------------------------------------------
(* However many flips the searches make, the energy and the flip costs they *)
(* steer by are those a full evaluation gives.                              *)
THEOREM UpdatesStayExact == Spec => []AuxiliaryExact
<1>1. IInv => AuxiliaryExact
  BY FlipCostExact DEF IInv, TypeInv, AuxInv, AuxiliaryExact
<1> QED BY <1>1, InvAlways, PTL

(* What the search has remembered is a local optimum with its own energy.  *)
THEOREM BestIsPolished == Spec => []BestEnergyOfBest
<1>1. IInv => BestEnergyOfBest
  BY DEF IInv, BestInv, BestEnergyOfBest
<1> QED BY <1>1, InvAlways, PTL

(* The search returns a local optimum no worse than what it was given.     *)
THEOREM SearchReturnsPolished == Spec => []ReturnsPolished
<1>1. IInv => ReturnsPolished
  BY DEF IInv, BestInv, ReturnsPolished
<1> QED BY <1>1, InvAlways, PTL
=============================================================================
