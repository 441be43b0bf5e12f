----------------------------- MODULE ReduceProject -----------------------------
(***************************************************************************)
(* reduce_solve_projection() and reduce() of src/solver.cc: cut a sub-QUBO *)
(* out of the QUBO, clamp it to the rest of the solution, let a            *)
(* sub-sampler (tabu, COBI, random or none) change the variables it holds, *)
(* and write them back into the solution.                                  *)
(***************************************************************************)
EXTENDS Qubo

CONSTANTS subMatrix,  \* variables of the sub-QUBO, 1 .. qubo_size
          Qubos       \* the matrices to cut from, [UpperPair -> Int]

Sub == INSTANCE Qubo WITH qubo_size <- subMatrix

VARIABLES
  qubo, solution,
  Icompress,     \* position in the sub-QUBO -> variable
  sub_qubo, sub_solution,
  change,        \* bits the projection changed
  pc,
  before         \* history: the solution the call began with

vars == <<qubo, solution, Icompress, sub_qubo, sub_solution, change, pc, before>>

SubVar == Sub!Var
Last   == subMatrix - 1

(* What reduce_solve_projection() asks for (solver.cc:516, "ordered lowest *)
(* to highest"): distinct variables, ascending.                            *)
Ascending == {I \in [SubVar -> Var] : \A a, b \in SubVar : a < b => I[a] < I[b]}

(* The two walks of reduce() towards one variable, from the highest down   *)
(* and from zero up.  ji points to the extracted variable to be skipped    *)
(* next; every other one that is set weighs in.  A walk meets its own      *)
(* variable last, so that ji stays within any I of variables, in order or  *)
(* not.                                                                    *)
SkipDown(I, variable) ==
  LET ji[j \in variable .. qubo_size - 1] ==
        IF j = qubo_size - 1 THEN Last
        ELSE ji[j + 1] - IF I[ji[j + 1]] = j + 1 THEN 1 ELSE 0
  IN  ji

SkipUp(I, variable) ==
  LET ji[j \in 0 .. variable] ==
        IF j = 0 THEN 0
        ELSE ji[j - 1] + IF I[ji[j - 1]] = j - 1 THEN 1 ELSE 0
  IN  ji

ClampFromTop(q, x, I, variable) ==
  LET ji == SkipDown(I, variable)
  IN  SumFunction([j \in variable + 1 .. qubo_size - 1 |->
                     IF I[ji[j]] = j THEN 0 ELSE q[<<variable, j>>] * x[j]])

ClampFromBottom(q, x, I, variable) ==
  LET ji == SkipUp(I, variable)
  IN  SumFunction([j \in 0 .. variable |->
                     IF I[ji[j]] = j THEN 0 ELSE q[<<j, variable>>] * x[j]])

Clamp_RowOnly(q, x, I, variable) == ClampFromTop(q, x, I, variable)
Clamp(q, x, I, variable) ==
  ClampFromTop(q, x, I, variable) + ClampFromBottom(q, x, I, variable)

(* The matrix has nothing below its diagonal, where an I that does not     *)
(* ascend leads.                                                           *)
Entry(q, i, j) == IF i <= j THEN q[<<i, j>>] ELSE 0

Reduced(q, x, I) ==
  [p \in Sub!UpperPair |->
     Entry(q, I[p[1]], I[p[2]]) + IF p[1] = p[2] THEN Clamp(q, x, I, I[p[1]]) ELSE 0]
------------------------------------------------------------------------------
reduce ==
  /\ pc = "reduce" /\ Icompress \in [SubVar -> Var]
  /\ sub_qubo' = Reduced(qubo, solution, Icompress)
  /\ sub_solution' = [i \in SubVar |-> solution[Icompress[i]]]
  /\ pc' = "sample"
  /\ UNCHANGED <<qubo, solution, Icompress, change, before>>

(* An index outside the arrays: from here on the code promises nothing.    *)
Overrun ==
  /\ pc = "reduce" /\ Icompress \notin [SubVar -> Var]
  /\ pc' = "outside"
  /\ UNCHANGED <<qubo, solution, Icompress, sub_qubo, sub_solution, change, before>>

(* Whatever the sub-sampler makes of the bits.                             *)
sub_sampler ==
  /\ pc = "sample"
  /\ sub_solution' \in Sub!Bits
  /\ pc' = "project"
  /\ UNCHANGED <<qubo, solution, Icompress, sub_qubo, change, before>>

(* The solution after the first n bits are written back: a variable keeps  *)
(* the last bit written to it.                                             *)
Written(x, I, s, n) ==
  [i \in Var |->
     LET writes == {j \in SubVar : j < n /\ I[j] = i}
     IN  IF writes = {} THEN x[i] ELSE s[CHOOSE j \in writes : \A k \in writes : k <= j]]
Projected(x, I, s) == Written(x, I, s, subMatrix)

Changes(I, s) == Cardinality({j \in SubVar : Written(solution, I, s, j)[I[j]] # s[j]})

Project ==
  /\ pc = "project"
  /\ solution' = Projected(solution, Icompress, sub_solution)
  /\ change' = Changes(Icompress, sub_solution)
  /\ pc' = "done"
  /\ UNCHANGED <<qubo, Icompress, sub_qubo, sub_solution, before>>

------------------------------------------------------------------------------
SubBefore == [i \in SubVar |-> before[Icompress[i]]]

(* What the sub-sampler gains on the clamped sub-QUBO is exactly what the  *)
(* projection gains on the whole QUBO, whatever bits it returns (solver.cc *)
(* :412-414, "adding the influence of the fixed variables").               *)
ProjectionExact ==
  pc = "done" =>
    Objective(qubo, solution) - Objective(qubo, before) =
      Sub!Objective(sub_qubo, sub_solution) - Sub!Objective(sub_qubo, SubBefore)
==============================================================================
