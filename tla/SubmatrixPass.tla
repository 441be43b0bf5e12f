---------------------------- MODULE SubmatrixPass ----------------------------
(***************************************************************************)
(* One pass over sub-problems in solve() of src/solver.cc: windows of      *)
(* subMatrix variables are cut out of an index, clamped to the rest of the *)
(* solution, sampled and written back.  algo is -a: "o" takes windows of   *)
(* the variables by flip cost, "d" windows of the backbone (the variables  *)
(* on which the listed solutions differ), "b" a traversal of the QUBO's    *)
(* graph, which module BfsDecomposer models in detail.                     *)
(***************************************************************************)
EXTENDS Integers, FiniteSets

CONSTANTS
  MinSize,  \* passes run for more variables than this (20)
  MaxSize,  \* bound: variables of the QUBO
  MinSub    \* smallest sub-problem -S lets through

ASSUME PassAssumption == MinSize \in Nat /\ MaxSize \in Nat /\ MinSub \in Nat

VARIABLES
  qubo_size, subMatrix, algo,  \* what solve() was called with
  len_index,  \* length of the backbone
  l_max, l,   \* the pass runs while l < l_max
  i_strt,     \* where the last window began
  covered,    \* history: the positions of the index the windows took
  pc

params == <<qubo_size, subMatrix, algo, len_index, l_max>>
vars == <<params, l, i_strt, covered, pc>>

MIN(x, y) == IF x < y THEN x ELSE y
MAX(x, y) == IF x > y THEN x ELSE y

(* A fifth of the variables (SubMatrix_span, 0.214), or one more than a    *)
(* sub-problem holds.                                                      *)
MaxNodes_sub == MAX(subMatrix + 1, (214 * qubo_size) \div 1000)

(* How much of the index the pass is to cover.                             *)
PassLength_WholeIndex(backbone) == IF algo = "d" THEN backbone ELSE qubo_size
PassLength(backbone) ==
  IF algo = "d" THEN backbone
  ELSE MAX(MIN(qubo_size - subMatrix, MaxNodes_sub), 1)

(* The guard of the pass: no sub-problem is larger than the problem.       *)
SubSizes(size) == MinSub .. size

(* Any two listed solutions differ in some of the variables: the backbone  *)
(* has any length mul_index_solution_diff can count.                       *)
Init ==
  /\ qubo_size \in MinSize + 1 .. MaxSize
  /\ subMatrix \in SubSizes(qubo_size)
  /\ algo \in {"o", "d", "b"}
  /\ len_index \in IF algo = "d" THEN 0 .. qubo_size ELSE {0}
  /\ l_max = PassLength(len_index)
  /\ l = 0 /\ i_strt = 0
  /\ covered = {}
  /\ pc = "pass"

WindowStart_NoBackup == l
WindowStart ==
  IF algo = "d" /\ l + subMatrix > len_index THEN len_index - subMatrix - 1 ELSE l

Window(start) == start .. start + subMatrix - 1

(* Cut out, solve and project one window.                                  *)
Subproblem ==
  /\ pc = "pass" /\ l < l_max
  /\ i_strt' = WindowStart
  /\ covered' = IF algo = "b" THEN covered ELSE covered \cup Window(WindowStart)
  /\ l' = l + subMatrix
  /\ UNCHANGED <<params, pc>>

EndPass ==
  /\ pc = "pass" /\ l >= l_max
  /\ pc' = "done"
  /\ UNCHANGED <<params, l, i_strt, covered>>

Done == pc = "done" /\ UNCHANGED vars

Next == Subproblem \/ EndPass \/ Done

(* One thread runs the loop; the sub-sampler answers.                      *)
Spec == Init /\ [][Next]_vars /\ WF_vars(Next)
------------------------------------------------------------------------------
(* Every variable has its type (solver.cc:847-1018).                       *)
TypeOK ==
  /\ qubo_size \in Nat /\ subMatrix \in 0 .. qubo_size
  /\ algo \in {"o", "d", "b"}
  /\ len_index \in 0 .. qubo_size
  /\ l_max \in Nat /\ l \in Nat /\ i_strt \in Int
  /\ covered \subseteq Int
  /\ pc \in {"pass", "done"}

(* With -a o every window is read inside the index (solver.cc:914-916); *)
(* so is, with -a o and b, the stretch flip_solution_by_index(l) reads     *)
(* after the pass (solver.cc:983).                                         *)
ReadsInsideIndex ==
  algo # "d" => covered \subseteq 0 .. qubo_size - 1 /\ l <= qubo_size

(* With -a d every window is read inside the backbone, if that is longer   *)
(* than a sub-problem (solver.cc:922-927).                                 *)
ReadsInsideBackbone ==
  algo = "d" /\ len_index > subMatrix => covered \subseteq 0 .. len_index - 1

(* With -a d the windows take every backbone position (solver.cc:924,      *)
(* "cover all of len_index by backup on last pass").                       *)
CoversBackbone ==
  algo = "d" /\ pc = "done" => 0 .. len_index - 1 \subseteq covered

==============================================================================
