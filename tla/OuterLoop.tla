------------------------------- MODULE OuterLoop -------------------------------
(***************************************************************************)
(* The main loop of solve(), src/solver.cc: prime the list of solutions,   *)
(* then alternate a pass over sub-problems with a search of the whole      *)
(* problem, until the target, the repeats or the time are reached.  The    *)
(* list is that of SolutionTable.  What the searches and samplers compute  *)
(* is any solution; modules LocalSearch, TabuSearch, SubmatrixPass and     *)
(* ReduceProject look inside them.                                         *)
(***************************************************************************)
EXTENDS SolutionTable

CONSTANTS
  Algos,           \* -a: "o", "b" or "d"
  SubSizes,        \* -S; a negative size ends at the malloc of Icompress
  MaxLength,       \* bound: variables the windows of a pass cover
  FewChanges,      \* a pass that changes no more has not moved (2)
  PrimeLimit,      \* priming searches of -a d (41, and one more)
  Repeats,         \* -n
  Targets,         \* target energies in the solver's sign; NoTarget is none
  NoTarget,
  Time_,           \* -t, in ticks of CPU time
  MaxPassTime,     \* bound: ticks one pass takes
  Progress_check,  \* passes without progress before a restart (12)
  PosLimit,        \* a duplicate below this rank (4), or found more often
  HitLimit,        \* than this (8), is left for a random solution
  ShortMax,        \* SHRT_MAX
  MaxUnimproved    \* bound: the history counts no further

ASSUME LoopAssumption ==
  /\ Algos \subseteq {"o", "b", "d"}
  /\ SubSizes \subseteq Nat /\ MaxLength \in Nat \ {0} /\ FewChanges \in Nat /\ PrimeLimit \in Nat
  /\ Repeats \subseteq Int
  /\ NoTarget \in Targets /\ Targets \ {NoTarget} \subseteq Int
  /\ Time_ \in Nat /\ MaxPassTime \in Nat \ {0}
  /\ Progress_check \in Nat \ {0} /\ PosLimit \in Nat /\ HitLimit \in Nat
  /\ ShortMax \in Nat
  /\ MaxUnimproved \in Nat /\ \A n \in Repeats : MaxUnimproved >= n

VARIABLES
  algo, target, repeats, subMatrix,
  decomposes,    \* qubo_size > 20 /\ subMatrix <= qubo_size
  solution,      \* the current solution
  batch,         \* the bits of batch_solutions[0]
  change,        \* bits the sub-problems changed in this pass
  l, l_max,      \* where the next window begins, and where they end
  best_energy,
  RepeatPass, NoProgress,  \* shorts
  pass,          \* priming searches so far
  clock,         \* CPU time used; past the limit it need not be told
  pc,
  unimproved     \* history: passes since the best energy last rose

given   == <<algo, target, repeats, subMatrix, decomposes>>
windows == <<batch, change, l, l_max>>
counter == <<RepeatPass, NoProgress, unimproved>>
vars == <<given, solution, windows, best_energy, counter, pass, clock, pc, table>>

Increment(short) == IF short = ShortMax THEN -ShortMax - 1 ELSE short + 1
------------------------------------------------------------------------------
(* -a d primes while len_index < MIN(subMatrix, qubo_size / 2), which is   *)
(* nothing for sub-problems of size 0 and for a problem of one variable.   *)
Beginnings ==
  (IF algo = "d" /\ subMatrix > 0 THEN {"prime"} ELSE {})
    \cup (IF algo = "d" /\ subMatrix > 0 /\ decomposes THEN {} ELSE {"first search"})

Init ==
  /\ algo \in Algos /\ target \in Targets /\ repeats \in Repeats
  /\ subMatrix \in SubSizes /\ decomposes \in BOOLEAN
  /\ solution \in Solution
  /\ batch = Zero /\ change = 0 /\ l = 0 /\ l_max = 0
  /\ best_energy = BIGNEGFP
  /\ RepeatPass = 0 /\ NoProgress = 0 /\ unimproved = 0
  /\ pass = 0 /\ clock = 0
  /\ pc \in Beginnings
  /\ TableInit

(* A search that ends at v, offered to the list with the energy it got.    *)
SearchAndOffer(v, energy) ==
  /\ solution' = v
  /\ manage_solutions(v, energy)

(* while (ContinueWhile): the target alone decides when there is one.      *)
Continues(best, repeated) ==
  IF target # NoTarget THEN best < target ELSE repeated < repeats

Enter(best) == pc' = IF Continues(best, RepeatPass) THEN "sub-problems" ELSE "done"

(* -a d: search from random solutions until the listed ones differ in      *)
(* enough variables to make a backbone, or the limit is reached.           *)
Prime ==
  /\ pc = "prime"
  /\ \E v \in Solution : \E energy \in Readings[v] : SearchAndOffer(v, energy)
  /\ pass' = pass + 1
  /\ \E backbone \in BOOLEAN :
       /\ backbone => num_nq_solutions' > 1
       /\ pc' = IF pass > PrimeLimit - 1 \/ backbone THEN "first search" ELSE "prime"
  /\ UNCHANGED <<given, windows, best_energy, counter, clock>>

FirstBest_LastSearch(energy) == energy
FirstBest(energy) == IF algo = "d" THEN energy_list'[list_order'[0]] ELSE energy

FirstSearch ==
  /\ pc = "first search"
  /\ \E v \in Solution : \E energy \in Readings[v] :
       /\ SearchAndOffer(v, energy)
       /\ best_energy' = FirstBest(energy)
  /\ Enter(best_energy')
  /\ UNCHANGED <<given, windows, counter, pass, clock>>
------------------------------------------------------------------------------
(* Every Progress_check-th pass without progress starts from scratch.  C's *)
(* remainder of a wrapped, negative count is not positive.                 *)
RestartDue == NoProgress >= 0 /\ NoProgress % Progress_check = Progress_check - 1

Restart ==
  /\ pc = "sub-problems" /\ decomposes /\ RestartDue
  /\ solution' \in Solution
  /\ pc' = "full search"
  /\ UNCHANGED <<given, windows, best_energy, counter, pass, clock, table>>

(* A pass works on a copy of the solution.  -a o and -a b cover at least   *)
(* one variable, -a d the backbone, which may be empty.                    *)
BeginPass ==
  /\ pc = "sub-problems" /\ decomposes /\ ~RestartDue
  /\ batch' = solution /\ change' = 0 /\ l' = 0
  /\ l_max' \in (IF algo = "d" THEN 0 ELSE 1) .. MaxLength
  /\ pc' = "windows"
  /\ UNCHANGED <<given, solution, best_energy, counter, pass, clock, table>>

(* One window, and l += subMatrix: with sub-problems of size 0 there is no *)
(* bit to change and l stays where it is.  A sampler that returns is       *)
(* assumed for them as for all others.                                     *)
SolveWindow ==
  /\ pc = "windows" /\ l < l_max
  /\ l' = l + subMatrix
  /\ \E t_change \in 0 .. subMatrix :
       /\ change' = change + t_change
       /\ batch' \in IF t_change = 0 THEN {batch} ELSE Solution
  /\ UNCHANGED <<given, solution, l_max, best_energy, counter, pass, clock, pc, table>>

EndWindows ==
  /\ pc = "windows" /\ l >= l_max
  /\ pc' = "few changes"
  /\ UNCHANGED <<given, solution, windows, best_energy, counter, pass, clock, table>>

(* Flip bits at random when the sub-problems changed next to nothing; then *)
(* the batch becomes the solution and is freed: nothing of the pass is     *)
(* read again.                                                             *)
FlipBits ==
  /\ pc = "few changes"
  /\ IF change <= FewChanges
       THEN solution' \in Solution
       ELSE UNCHANGED solution
  /\ pc' = "take batch"
  /\ UNCHANGED <<given, windows, best_energy, counter, pass, clock, table>>

TakeBatch ==
  /\ pc = "take batch"
  /\ solution' = batch
  /\ batch' = Zero /\ change' = 0 /\ l' = 0 /\ l_max' = 0
  /\ pc' = "full search"
  /\ UNCHANGED <<given, best_energy, counter, pass, clock, table>>

SkipSubproblems ==
  /\ pc = "sub-problems" /\ ~decomposes
  /\ pc' = "full search"
  /\ UNCHANGED <<given, solution, windows, best_energy, counter, pass, clock, table>>
------------------------------------------------------------------------------
(* What the code of the offer does to the counters and the solution.       *)
Improved  == result'.code = "NEW_HIGH_ENERGY_UNIQUE_SOL"
Again     == result'.code \in {"DUPLICATE_ENERGY", "DUPLICATE_HIGHEST_ENERGY"}
TooPoor   == result'.code = "NOTHING"
WornOut   == Again /\ (result'.pos > PosLimit \/ result'.count > HitLimit)

Count_NoReset ==
  /\ RepeatPass' = IF Again \/ TooPoor THEN Increment(RepeatPass) ELSE RepeatPass
  /\ NoProgress' = IF TooPoor \/ result'.code = "DUPLICATE_ENERGY"
                     THEN Increment(NoProgress) ELSE NoProgress
Count ==
  /\ RepeatPass' = IF Improved THEN 0
                   ELSE IF Again \/ TooPoor THEN Increment(RepeatPass) ELSE RepeatPass
  /\ NoProgress' = IF TooPoor \/ result'.code = "DUPLICATE_ENERGY"
                     THEN Increment(NoProgress) ELSE NoProgress

TimedOut_Exactly(now) == now = Time_
TimedOut(now) == now >= Time_

(* The search of the whole problem, and the end of the pass.               *)
FullSearch ==
  /\ pc = "full search"
  /\ \E v \in Solution : \E energy \in Readings[v] : manage_solutions(v, energy)
                          /\ \/ ~WornOut /\ solution' = v
                             \/ WornOut /\ solution' \in Solution
  /\ best_energy' = energy_list'[list_order'[0]]
  /\ Count
  /\ unimproved' = IF best_energy' > best_energy THEN 0
                   ELSE MIN(unimproved + 1, MaxUnimproved)
  /\ \E ticks \in 1 .. MaxPassTime : clock' = MIN(clock + ticks, Time_ + 1)
  /\ pc' = IF Continues(best_energy', RepeatPass') /\ ~TimedOut(clock')
             THEN "sub-problems" ELSE "done"
  /\ UNCHANGED <<given, windows, pass>>

Done == pc = "done" /\ UNCHANGED vars

Next == \/ Prime \/ FirstSearch \/ Restart
        \/ BeginPass \/ SolveWindow \/ EndWindows \/ FlipBits \/ TakeBatch
        \/ SkipSubproblems \/ FullSearch \/ Done

(* One thread, and searches that return.                                   *)
Spec == Init /\ [][Next]_vars /\ WF_vars(Next)
------------------------------------------------------------------------------
(* best_energy, which the target is compared with, is the energy of the    *)
(* best solution any search of the run has returned, and the row printed   *)
(* as the answer holds it.                                                 *)
BestTracked ==
  pc \notin {"prime", "first search"} =>
    /\ best_energy = energy_list[list_order[0]]
    /\ BestNeverLost

(* The solver gives up only at the target, or out of time, or, without a   *)
(* target, after as many passes without a better solution as were asked    *)
(* for (solver.cc:689, README.rst:94).                                     *)
NeverGivesUpEarly ==
  pc = "done" =>
    \/ target # NoTarget /\ \E pair \in offered : pair[2] >= target
    \/ TimedOut(clock)
    \/ target = NoTarget /\ unimproved >= repeats

(* The time limit ends every run whose windows advance, also with a target *)
(* out of reach and with repeats that no short can count to                *)
(* (solver.cc:830, 1109).  With -S 0, "the default value" by main.c:522 but*)
(* taken as it is, they do not advance when there are more than 20         *)
(* variables, and the first pass never comes to the limit (solver.cc:907). *)
Terminates == (decomposes => subMatrix > 0) => <>(pc = "done")
==============================================================================
