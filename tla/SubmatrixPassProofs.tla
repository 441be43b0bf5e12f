-------------------------- MODULE SubmatrixPassProofs --------------------------
(***************************************************************************)
(* Proofs about SubmatrixPass for every size of problem, sub-problem and   *)
(* backbone.                                                               *)
(***************************************************************************)
EXTENDS SubmatrixPass, TLAPS

(* The pass never changes what it was asked to cover (solver.cc:847-1018). *)
LengthKept == l_max = PassLength(len_index)

Inv == TypeOK /\ LengthKept /\ ReadsInsideIndex /\ ReadsInsideBackbone

(* MIN and MAX pick one of their operands (macros.h:31-32).                *)
LEMMA MinMax ==
  ASSUME NEW x \in Int, NEW y \in Int
  PROVE  /\ MIN(x, y) \in Int /\ MIN(x, y) <= x /\ MIN(x, y) <= y
         /\ MAX(x, y) \in Int /\ MAX(x, y) >= x /\ MAX(x, y) >= y
         /\ MAX(x, y) = x \/ MAX(x, y) = y
BY DEF MIN, MAX

(* A pass with -a o or b is to cover at least one variable, and leaves     *)
(* room for one more sub-problem, or the sub-problem is the problem.       *)
LEMMA PassLengthBound ==
  ASSUME NEW backbone \in Nat, qubo_size \in Nat, subMatrix \in 0 .. qubo_size
  PROVE  /\ PassLength(backbone) \in Nat
         /\ algo = "d" => PassLength(backbone) = backbone
         /\ algo # "d" => \/ PassLength(backbone) = 1
                          \/ PassLength(backbone) <= qubo_size - subMatrix
<1>1. MaxNodes_sub \in Int
  <2>1. (214 * qubo_size) \div 1000 \in Int
    OBVIOUS
  <2> QED BY <2>1, MinMax DEF MaxNodes_sub
<1> DEFINE room == MIN(qubo_size - subMatrix, MaxNodes_sub)
<1>2. room \in Int /\ room <= qubo_size - subMatrix
  BY <1>1, MinMax
<1> HIDE DEF room
<1>3. /\ MAX(room, 1) \in Int /\ MAX(room, 1) >= 1
      /\ MAX(room, 1) = room \/ MAX(room, 1) = 1
  BY <1>2, MinMax
<1> QED BY <1>2, <1>3 DEF PassLength, room

LEMMA InitInv == Init => Inv
<1> SUFFICES ASSUME Init PROVE Inv
  OBVIOUS
<1>1. /\ qubo_size \in Nat /\ subMatrix \in 0 .. qubo_size
      /\ len_index \in 0 .. qubo_size
  BY PassAssumption DEF Init, SubSizes
<1>2. l_max \in Nat
  BY <1>1, PassLengthBound DEF Init
<1>3. TypeOK
  BY <1>1, <1>2 DEF Init, TypeOK
<1>4. ReadsInsideIndex /\ ReadsInsideBackbone
  BY <1>1 DEF Init, ReadsInsideIndex, ReadsInsideBackbone
<1> QED BY <1>3, <1>4 DEF Init, Inv, LengthKept

(* A window begins at an integer; with a backbone longer than itself it    *)
(* begins and ends inside (solver.cc:922-927).                             *)
LEMMA WindowInBackbone ==
  ASSUME TypeOK
  PROVE  /\ WindowStart \in Int
         /\ Window(WindowStart) \subseteq Int
         /\ algo = "d" /\ len_index > subMatrix =>
              Window(WindowStart) \subseteq 0 .. len_index - 1
BY DEF TypeOK, WindowStart, Window

LEMMA StepInv == Inv /\ [Next]_vars => Inv'
<1> SUFFICES ASSUME Inv, [Next]_vars PROVE Inv'
  OBVIOUS
<1> USE DEF Inv
<1>1. CASE Subproblem
  <2> USE <1>1 DEF Subproblem, params
  <2>1. LengthKept'
    BY DEF LengthKept, PassLength, MaxNodes_sub
  <2>2. Window(WindowStart) \subseteq Int /\ WindowStart \in Int
    BY WindowInBackbone
  <2>3. TypeOK'
    <3>1. covered' \subseteq Int /\ i_strt' \in Int
      BY <2>2 DEF TypeOK
    <3>2. l' \in Nat
      BY DEF TypeOK
    <3> QED BY <3>1, <3>2 DEF TypeOK
  <2>4. ReadsInsideIndex'
    <3> SUFFICES ASSUME algo # "d"
                 PROVE  covered' \subseteq 0 .. qubo_size - 1 /\ l' <= qubo_size
      BY DEF ReadsInsideIndex
    <3>1. \/ l_max = 1
          \/ l_max <= qubo_size - subMatrix
      BY PassLengthBound DEF TypeOK, LengthKept
    <3>2. l + subMatrix <= qubo_size
      BY <3>1 DEF TypeOK
    <3>3. WindowStart = l
      BY DEF WindowStart
    <3>4. Window(l) \subseteq 0 .. qubo_size - 1
      BY <3>2 DEF Window, TypeOK
    <3> QED BY <3>2, <3>3, <3>4 DEF ReadsInsideIndex
  <2>5. ReadsInsideBackbone'
    BY WindowInBackbone DEF ReadsInsideBackbone
  <2> QED BY <2>1, <2>3, <2>4, <2>5
<1>2. CASE EndPass
  BY <1>2 DEF EndPass, params, TypeOK, LengthKept, PassLength, MaxNodes_sub,
              ReadsInsideIndex, ReadsInsideBackbone
<1>3. CASE UNCHANGED vars
  BY <1>3 DEF vars, params, TypeOK, LengthKept, PassLength, MaxNodes_sub,
              ReadsInsideIndex, ReadsInsideBackbone
<1>4. CASE Done
  BY <1>3, <1>4 DEF Done
<1> QED BY <1>1, <1>2, <1>3, <1>4 DEF Next

(* Every variable of the pass keeps its type.                              *)
THEOREM PassTypeCorrect == Spec => []TypeOK
<1>1. Inv => TypeOK
  BY DEF Inv
<1> QED BY <1>1, InitInv, StepInv, PTL DEF Spec

(* With -a o or b no window, and no stretch of bits flipped after the      *)
(* pass, reaches beyond the index (solver.cc:914-916, 983).                *)
THEOREM WindowsInsideIndex == Spec => []ReadsInsideIndex
<1>1. Inv => ReadsInsideIndex
  BY DEF Inv
<1> QED BY <1>1, InitInv, StepInv, PTL DEF Spec

(* With -a d and a backbone longer than a sub-problem no window reaches    *)
(* beyond the backbone (solver.cc:922-927).                                *)
THEOREM WindowsInsideBackbone == Spec => []ReadsInsideBackbone
<1>1. Inv => ReadsInsideBackbone
  BY DEF Inv
<1> QED BY <1>1, InitInv, StepInv, PTL DEF Spec
===============================================================================
