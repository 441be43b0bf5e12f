---------------------------- MODULE SubmatrixSearch ----------------------------
(***************************************************************************)
(* One pass of solve() over its sub-problems, src/solver.cc:847-1017, made *)
(* of the modules for its parts.  The variables are put in the order of    *)
(* their flip costs (-a o, IndexSort) or the backbone of the list is taken *)
(* (-a d, Population); SubmatrixPass moves the window; each window is      *)
(* reduced, sampled and projected into the batch (ReduceProject), and the  *)
(* batch becomes the solution.                                             *)
(***************************************************************************)
EXTENDS Population

CONSTANTS
  subMatrix,  \* variables of a sub-problem
  MinSize,    \* passes run for more variables than this (20)
  Qubos,      \* the matrices, [UpperPair -> Int]
  Lists,      \* lists of solutions, in the order of Qindex
  QLEN,       \* solutions the list holds at most
  Bias,       \* third argument of the call of solution_population (10)
  Memory      \* what may stand in front of Pcompress

ASSUME SubmatrixSearchAssumption ==
  /\ subMatrix \in 1 .. qubo_size /\ MinSize \in 0 .. qubo_size - 1
  /\ Qubos \subseteq [UpperPair -> Int] /\ Lists \subseteq Seq(Bits)
  /\ QLEN \in Nat /\ Bias \in Nat /\ Memory \subseteq Int

VARIABLES
  algo,                         \* -a
  listed,                       \* the list of solutions
  qubo, solution,
  flip_cost, index,             \* sorted by IndexSort
  stack, lo, hi, si, sj, sort_pc,
  Pcompress, len_index,         \* the backbone and its length
  l_max, l,                     \* the pass runs while l < l_max
  batch, Icompress, sub_qubo, sub_solution, t_change, window_pc, before,
  change,                       \* bits changed in the pass
  pc,
  entered                       \* history: the solution the pass began with

sorting  == <<flip_cost, index, stack, lo, hi, si, sj, sort_pc>>
backbone == <<listed, Pcompress, len_index>>
passing  == <<algo, l_max, l>>
window   == <<qubo, batch, Icompress, sub_qubo, sub_solution, t_change, window_pc, before>>
vars == <<sorting, backbone, passing, window, solution, change, pc, entered>>

Sort   == INSTANCE IndexSort WITH n <- qubo_size, val <- flip_cost, arr <- index,
                                  l <- lo, h <- hi, i <- si, j <- sj, pc <- sort_pc
Pass   == INSTANCE SubmatrixPass WITH MaxSize <- qubo_size, MinSub <- 1,
                                      i_strt <- 0, covered <- {}
Reduce == INSTANCE ReduceProject WITH solution <- batch, change <- t_change, pc <- window_pc

Position == 0 .. subMatrix - 1
------------------------------------------------------------------------------
(* The list -a d works on is any: its first loop offers solutions until    *)
(* they differ in MIN(subMatrix, qubo_size / 2) variables, but gives up    *)
(* after 41 of them (solver.cc:795, 802), and manage_solutions may push    *)
(* listed solutions out again.                                             *)
Init ==
  /\ algo \in {"o", "d", "b"}
  /\ listed \in IF algo = "d" THEN Lists ELSE {<<>>}
  /\ qubo \in Qubos
  /\ solution \in Bits /\ batch = solution /\ entered = solution
  /\ flip_cost = FlipCost(qubo, solution)
  /\ index \in IF algo = "o" THEN Sort!Orders ELSE {[i \in Var |-> i]}
  /\ stack = <<<<0, qubo_size - 1>>>>
  /\ lo = 0 /\ hi = 0 /\ si = -1 /\ sj = 0 /\ sort_pc = "pop"
  /\ Pcompress = [i \in Var |-> 0] /\ len_index = 0
  /\ l_max = Pass!PassLength(0) /\ l = 0
  /\ Icompress = [i \in Position |-> 0]
  /\ sub_qubo = [p \in Reduce!Sub!UpperPair |-> 0]
  /\ sub_solution = [i \in Position |-> 0]
  /\ t_change = 0 /\ window_pc = "done" /\ before = batch
  /\ change = 0
  /\ pc = CASE algo = "o" -> "sort" [] algo = "d" -> "prime" [] OTHER -> "pass"

(* -a o: val_index_sort, step by step.                                     *)
SortStep ==
  /\ pc = "sort"
  /\ Sort!Next
  /\ pc' = IF sort_pc' = "done" THEN "pass" ELSE "sort"
  /\ UNCHANGED <<backbone, passing, window, solution, change, entered>>

(* -a d, before the first pass: start from what the list agrees on.        *)
Prime ==
  /\ pc = "prime"
  /\ solution' = solution_population(listed, Bias)
  /\ pc' = "search"
  /\ UNCHANGED <<sorting, backbone, passing, window, change, entered>>

(* manage_solutions (SolutionTable) leaves the list alone, or puts the     *)
(* solution at some rank and drops what no longer fits.                    *)
Inserted(rows, x, rank) == SubSeq(rows, 1, rank) \o <<x>> \o SubSeq(rows, rank + 1, Len(rows))
Offered(rows, x) ==
  {rows} \cup {SubSeq(Inserted(rows, x, rank), 1, Pass!MIN(Len(rows) + 1, QLEN)) :
                rank \in 0 .. Len(rows)}

(* -a d: a tabu search makes any solution of that (TabuSearch), which is   *)
(* offered to the list.                                                    *)
Search ==
  /\ pc = "search"
  /\ solution' \in Bits
  /\ listed' \in Offered(listed, solution')
  /\ pc' = "backbone"
  /\ UNCHANGED <<sorting, Pcompress, len_index, passing, window, change, entered>>

(* -a d: take the backbone of the list as it is by now.                    *)
PickBackbone ==
  /\ pc = "backbone"
  /\ batch' = solution /\ entered' = solution /\ before' = solution
  /\ LET diff == mul_index_solution_diff(listed, 0)
     IN  Pcompress' = diff.index /\ len_index' = diff.len /\ l_max' = Pass!PassLength(diff.len)
  /\ pc' = "pass"
  /\ UNCHANGED <<sorting, listed, solution, algo, l, qubo, Icompress,
                 sub_qubo, sub_solution, t_change, window_pc, change>>

index_sort(I) == InOrder({I[k] : k \in Position})

(* The window at start of the backbone.  In a backbone that is shorter     *)
(* than the window it starts before the array.                             *)
BackboneWindows(start) ==
  {I \in [Position -> Var \cup Memory] :
     \A k \in Position : IF start + k < 0 THEN I[k] \in Memory ELSE I[k] = Pcompress[start + k]}

(* The variables of the window at start.  The index is sorted after it is  *)
(* cut, the backbone is in order already; a traversal (BfsDecomposer)      *)
(* yields any distinct variables.                                          *)
Windows_Unsorted(start) ==
  CASE algo = "o" -> {[k \in Position |-> index[start + k]]}
    [] algo = "d" -> BackboneWindows(start)
    [] algo = "b" -> Reduce!Ascending
Windows(start) ==
  CASE algo = "o" -> {index_sort([k \in Position |-> index[start + k]])}
    [] algo = "d" -> BackboneWindows(start)
    [] algo = "b" -> Reduce!Ascending

NextWindow ==
  /\ pc = "pass" /\ window_pc = "done" /\ l < l_max
  /\ Icompress' \in Windows(Pass!WindowStart)
  /\ l' = l + subMatrix
  /\ before' = batch
  /\ window_pc' = "reduce"
  /\ UNCHANGED <<sorting, backbone, algo, l_max, qubo, batch, sub_qubo, sub_solution, t_change,
                 solution, change, pc, entered>>

(* reduce_solve_projection on the batch.                                   *)
SolveWindow ==
  /\ pc = "pass"
  /\ Reduce!reduce \/ Reduce!Overrun \/ Reduce!sub_sampler
  /\ UNCHANGED <<sorting, backbone, passing, solution, change, pc, entered>>

Total_Last(all, latest) == latest
Total(all, latest) == all + latest

ProjectWindow ==
  /\ pc = "pass"
  /\ Reduce!Project
  /\ change' = Total(change, t_change')
  /\ UNCHANGED <<sorting, backbone, passing, solution, pc, entered>>

(* The batch becomes the solution.  (Bits flipped before that because      *)
(* little changed are overwritten here: see OuterLoop.)                    *)
TakeBatch ==
  /\ pc = "pass" /\ window_pc = "done" /\ l >= l_max
  /\ solution' = batch
  /\ pc' = "done"
  /\ UNCHANGED <<sorting, backbone, passing, window, change, entered>>

Done == (pc = "done" \/ window_pc = "outside") /\ UNCHANGED vars

Next == \/ SortStep \/ Prime \/ Search \/ PickBackbone
        \/ NextWindow \/ SolveWindow \/ ProjectWindow \/ TakeBatch
        \/ Done

Spec == Init /\ [][Next]_vars
------------------------------------------------------------------------------
(* See IndexSort: the index a pass takes its windows from holds every      *)
(* variable once, by falling flip cost.                                    *)
SortsDown == Sort!SortsDown

(* See IndexSort: the sort's stack stays within its allocation.            *)
StackFits == Sort!StackFits

(* The backbone -a d cuts its windows from is exactly the variables on     *)
(* which some two solutions of the list differ (util.cc:530, "any one of   *)
(* the solutions not same as any other"), and a bit on which all of two    *)
(* or more solutions agree is kept by solution_population.                 *)
Differing == {i \in Var : \E r, s \in 1 .. Len(listed) : listed[r][i] # listed[s][i]}
BackboneExact ==
  /\ algo = "d" /\ pc \in {"pass", "done"} =>
       {Pcompress[k] : k \in 0 .. len_index - 1} = Differing
  /\ pc = "search" /\ Len(listed) > 1 =>
       \A i \in Var \ Differing : solution[i] = listed[1][i]

(* A window of -a d fits into the backbone, or there is none to take.      *)
BackboneHoldsWindow == algo = "d" => len_index = 0 \/ len_index >= subMatrix

(* reduce() walks past the variables of a sub-problem with one pointer,    *)
(* which is right only for distinct variables in ascending order           *)
(* (solver.cc:516, "ordered lowest to highest"): every decomposition hands *)
(* over such an Icompress, -a d if its backbone is as long as a window.    *)
WindowsAscend ==
  BackboneHoldsWindow => (window_pc = "reduce" => Icompress \in Reduce!Ascending)

(* See ReduceProject: a gain in a window is the same gain in the batch, as *)
(* long as the backbone of -a d holds a window.                            *)
ProjectionExact == BackboneHoldsWindow => Reduce!ProjectionExact

(* The changes counted over the windows are at least the bits the pass has *)
(* moved, and with -a o, whose windows do not overlap, exactly those: a    *)
(* pass that moved far is never taken for one that is stuck                *)
(* (solver.cc:980, "did not produce enough new values").  With -a d as     *)
(* long as the backbone holds a window.                                    *)
ChangeCounts ==
  BackboneHoldsWindow /\ pc = "done" =>
    LET moved == Cardinality({i \in Var : solution[i] # entered[i]})
    IN  change >= moved /\ (algo = "o" => change = moved)
==============================================================================
