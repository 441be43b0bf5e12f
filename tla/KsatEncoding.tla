----------------------------- MODULE KsatEncoding -----------------------------
(***************************************************************************)
(* The first iteration of the k-SAT driver, src/isd/ksat_optimized.py: the *)
(* variables of a CNF formula are frozen one by one at random values until *)
(* what is left fits the spins of the chip; its long clauses are split     *)
(* into clauses of three, which become a QUBO and then the matrix the chip *)
(* is programmed with.  The iteration ends there: the call that submits    *)
(* the program is one the script does not import.                          *)
(***************************************************************************)
EXTENDS Sequences, FiniteSetsExt, Functions

CONSTANTS
  maxvar,        \* the variables are 1 .. maxvar
  SOLVER_SPINS,  \* spins a program may use (45)
  Cnfs,          \* formulas: sequences of clauses, clauses of at most ten
                 \* literals, of different variables
  Orders,        \* orders in which list() may give the literals of a set
  Listed(_, _)   \* what it gives in an order

Literal == (-maxvar .. maxvar) \ {0}
VariableOf(lit) == IF lit < 0 THEN -lit ELSE lit

ASSUME KsatAssumption ==
  /\ maxvar \in Nat \ {0} /\ SOLVER_SPINS \in Nat
  /\ Cnfs \subseteq Seq(Seq(Literal))
  /\ \A formula \in Cnfs : \A k \in DOMAIN formula : Len(formula[k]) \in 1 .. 10

DistinctVariables(clause) ==
  \A i, j \in DOMAIN clause : VariableOf(clause[i]) = VariableOf(clause[j]) => i = j
ASSUME ClauseAssumption ==
  \A formula \in Cnfs : \A k \in DOMAIN formula : DistinctVariables(formula[k])

Literals(clause) == {clause[i] : i \in DOMAIN clause}

ASSUME OrderAssumption ==
  \A order \in Orders : \A S \in SUBSET Literal :
    /\ Listed(order, S) \in Seq(Literal) /\ Literals(Listed(order, S)) = S
    /\ \A i, j \in DOMAIN Listed(order, S) : Listed(order, S)[i] = Listed(order, S)[j] => i = j

VARIABLES
  cnf,
  spins,           \* frozen variable -> its value
  surrogate_cnf,   \* what the frozen variables leave of the formula
  cnf3,            \* the same in clauses of three
  surrogate_vars,  \* the variables of cnf3
  curr_Q,          \* <<i, j>> -> coefficient, i <= j
  mtx, clamped,    \* the program, and how many of its entries were cut off
  step

ksat == <<cnf, spins, surrogate_cnf, cnf3, surrogate_vars, curr_Q, mtx, clamped, step>>

SignOf(lit)       == IF lit < 0 THEN -1 ELSE 1
Variables(clause) == {VariableOf(lit) : lit \in Literals(clause)}
AllVariables(formula) == UNION {Variables(formula[k]) : k \in DOMAIN formula}

ancillary_counter_PerClause(clause) == IF Len(clause) <= 2 THEN 0 ELSE 1
ancillary_counter(clause) == IF Len(clause) <= 2 THEN 0 ELSE (Len(clause) - 2) * 2 - 1

(* Spins a formula will take: its variables and the ancillaries estimated. *)
varcnt(formula) ==
  Cardinality(AllVariables(formula))
    + SumFunction([k \in DOMAIN formula |-> ancillary_counter(formula[k])])

(* Numbers in ascending order, and the entries of a sequence at places.    *)
Ascending(S) ==
  [k \in 1 .. Cardinality(S) |-> CHOOSE i \in S : Cardinality({j \in S : j < i}) = k - 1]
Kept(s, S) == [k \in 1 .. Cardinality(S) |-> s[Ascending(S)[k]]]

(* A clause the value satisfies goes, a literal it refutes goes, and so    *)
(* does a clause without literals.  What is left of a clause comes out of a*)
(* set, and may stand in another order.                                    *)
unitProp2_AnySign(formula, index, value, order) ==
  Kept(formula, {k \in DOMAIN formula : index \notin Variables(formula[k])})
unitProp2(formula, index, value, order) ==
  LET true == IF value = 1 THEN index ELSE -index
      left == [k \in DOMAIN formula |->
                 IF -true \in Literals(formula[k]) THEN Listed(order, Literals(formula[k]) \ {-true})
                 ELSE formula[k]]
  IN  Kept(left, {k \in DOMAIN formula : true \notin Literals(formula[k]) /\ left[k] # <<>>})
------------------------------------------------------------------------------
(* A clause of more than three: two literals at a time are replaced by a   *)
(* new variable, which is true only if one of them is; it joins the end.   *)
(* In clauses of 4, 8 and 9 the last new variable has the opposite sign.   *)
NewVariables(f) == IF Len(f) > 3 THEN Len(f) - 3 ELSE 0

Clauses3(f, v) ==
  LET n      == NewVariables(f)
      New(i) == IF i = n /\ Len(f) \in {4, 8, 9} THEN v + i - 1 ELSE -(v + i - 1)
      Q(i)   == IF i <= Len(f) THEN f[i] ELSE -New(i - Len(f))
  IN  [k \in 1 .. n + 1 |->
         IF n = 0 THEN f ELSE <<Q(2 * k - 1), Q(2 * k), IF k <= n THEN New(k) ELSE Q(2 * k + 1)>>]

(* The new variables are numbered from V, the number of the last variable  *)
(* of the formula.                                                         *)
sat_kN_to_k3(formula, V) ==
  LET k3[k \in 0 .. Len(formula)] ==
        IF k = 0 THEN [formula |-> <<>>, v |-> V]
        ELSE [formula |-> k3[k - 1].formula \o Clauses3(formula[k], k3[k - 1].v),
              v       |-> k3[k - 1].v + NewVariables(formula[k])]
  IN  k3[Len(formula)]

(* The QUBO, its variables numbered from 0.  A clause of up to three is the*)
(* sum of its literals less the products of two of them, with 1 - x for a  *)
(* negated x; in a clause of three an ancilla, numbered from maxvar3 and   *)
(* fourth in the clause, makes up for the case that all are true.  It has  *)
(* one coefficient with each variable, of the last literal if there are    *)
(* several.  Constants are dropped.                                        *)
Linear_Alone(c, i) == SignOf(c[i])
Linear(c, i) == SignOf(c[i]) * (1 - Cardinality({j \in DOMAIN c : c[j] < 0 /\ c[j] # c[i]}))

Coefficient(c, i, j) ==
  IF i = 4 THEN Cardinality({n \in DOMAIN c : c[n] < 0}) - 2
  ELSE IF j = 4 THEN
    IF \E n \in i + 1 .. 3 : VariableOf(c[n]) = VariableOf(c[i]) THEN 0 ELSE SignOf(c[i])
  ELSE IF i = j THEN Linear(c, i) ELSE -SignOf(c[i]) * SignOf(c[j])

Terms3(formula) ==
  UNION {{<<k, i, j>> : i, j \in IF Len(formula[k]) = 3 THEN 1 .. 4 ELSE DOMAIN formula[k]} :
           k \in DOMAIN formula}

NumberOf(formula, maxvar3, k, i) ==
  IF i = 4 THEN maxvar3 + Cardinality({n \in 1 .. k - 1 : Len(formula[n]) = 3})
           ELSE VariableOf(formula[k][i]) - 1

get_idt(formula, maxvar3) ==
  LET terms == {t \in Terms3(formula) : t[2] <= t[3]}
      by    == [t \in terms |-> Coefficient(formula[t[1]], t[2], t[3])]
      at    == [t \in terms |-> LET u == NumberOf(formula, maxvar3, t[1], t[2])
                                    v == NumberOf(formula, maxvar3, t[1], t[3])
                                IN  IF u <= v THEN <<u, v>> ELSE <<v, u>>]
  IN  [p \in Range(at) |-> -SumFunctionOnSet(by, {t \in terms : at[t] = p})]

(* The variables of the program, in ascending order: those of the formula, *)
(* and those with a coefficient.                                           *)
ProgramVariables(vars3, Q) ==
  LET S == {v - 1 : v \in vars3} \cup UNION {{p[1], p[2]} : p \in {q \in DOMAIN Q : Q[q] # 0}}
  IN  Ascending(S)

(* Spin 0 of the matrix stands for the linear terms.  SCALE is 4, which    *)
(* makes the Ising values whole; beyond 7 they are cut off.                *)
Ising(Q, variables) ==
  LET q(a, b) == IF <<a, b>> \in DOMAIN Q THEN Q[<<a, b>>] ELSE 0
      h(a)    == 2 * q(a, a) + SumFunction([b \in Range(variables) \ {a} |-> q(a, b) + q(b, a)])
  IN  [p \in {e \in (0 .. Len(variables)) \X (1 .. Len(variables)) : e[1] < e[2]} |->
         IF p[1] = 0 THEN h(variables[p[2]]) ELSE q(variables[p[1]], variables[p[2]])]
TooLarge(J) == {p \in DOMAIN J : VariableOf(J[p]) > 7}

Matrix(J) ==
  [p \in (0 .. SOLVER_SPINS) \X (0 .. SOLVER_SPINS) |->
     LET e == IF p[1] < p[2] THEN p ELSE <<p[2], p[1]>>
     IN  IF e \notin DOMAIN J THEN 0 ELSE IF e \in TooLarge(J) THEN -7 * SignOf(J[e]) ELSE -J[e]]
------------------------------------------------------------------------------
KsatInit ==
  /\ cnf \in Cnfs /\ surrogate_cnf = cnf
  /\ spins = [v \in {} |-> 0]
  /\ cnf3 = <<>> /\ surrogate_vars = {} /\ curr_Q = <<>>
  /\ mtx = <<>> /\ clamped = 0
  /\ step = "freeze"

(* The variables stand in an order of which any may be the last: that of a *)
(* breadth-first walk from a random one, shuffled, and those it does not   *)
(* reach.  The last is frozen at the random value it has.  When all are    *)
(* frozen nothing is left that would not fit.                              *)
nodes == AllVariables(cnf) \ DOMAIN spins

Freeze(node, value) ==
  /\ step = "freeze"
  /\ \E order \in Orders : surrogate_cnf' = unitProp2(surrogate_cnf, node, value, order)
  /\ spins' = [v \in DOMAIN spins \cup {node} |-> IF v = node THEN value ELSE spins[v]]
  /\ step' = IF varcnt(surrogate_cnf') <= SOLVER_SPINS THEN "encode" ELSE "freeze"
  /\ UNCHANGED <<cnf, cnf3, surrogate_vars, curr_Q, mtx, clamped>>

Encode ==
  /\ step = "encode"
  /\ LET k3 == sat_kN_to_k3(surrogate_cnf, maxvar)
     IN  /\ cnf3' = k3.formula
         /\ surrogate_vars' = AllVariables(k3.formula)
         /\ step' = IF varcnt(k3.formula) <= SOLVER_SPINS THEN "sample" ELSE "assertion failed"
         /\ curr_Q' = get_idt(k3.formula, k3.v)
  /\ UNCHANGED <<cnf, spins, surrogate_cnf, mtx, clamped>>

(* cobidualres_sample(), up to the call of w_submit_problem.               *)
Sample ==
  /\ step = "sample"
  /\ LET J == Ising(curr_Q, ProgramVariables(surrogate_vars, curr_Q))
     IN  mtx' = Matrix(J) /\ clamped' = Cardinality(TooLarge(J))
  /\ step' = "submit"
  /\ UNCHANGED <<cnf, spins, surrogate_cnf, cnf3, surrogate_vars, curr_Q>>

NameError == step = "submit" /\ UNCHANGED ksat

KsatNext ==
  (\E node \in nodes : \E value \in {0, 1} : Freeze(node, value))
    \/ Encode \/ Sample \/ NameError

KsatSpec == KsatInit /\ [][KsatNext]_ksat
------------------------------------------------------------------------------
True(l, x) == x[VariableOf(l)] = IF l > 0 THEN 1 ELSE 0
Satisfied(formula, x) ==
  Cardinality({k \in DOMAIN formula : \E l \in Literals(formula[k]) : True(l, x)})

(* What is left after freezing counts the same clauses as the formula: of  *)
(* two assignments with the frozen values, one satisfies as many more      *)
(* clauses of it as of the formula (ksat_optimized.py:1123, "freeze more   *)
(* variables until subproblem fits in hardware").                          *)
SurrogateExact ==
  LET agree == {x \in [1 .. maxvar -> {0, 1}] : \A v \in DOMAIN spins : x[v] = spins[v]}
  IN  Cardinality({Satisfied(cnf, x) - Satisfied(surrogate_cnf, x) : x \in agree}) = 1

(* The estimate by which variables are frozen is that of the split clauses,*)
(* so that the assertion after the split holds and every variable of the   *)
(* program has a spin (ksat_optimized.py:1163, "assert").                  *)
FitsSpins ==
  /\ step # "assertion failed"
  /\ step = "submit" => Len(ProgramVariables(surrogate_vars, curr_Q)) <= SOLVER_SPINS

(* The first new variable has the number of the last variable of the       *)
(* formula.  While that one is not in use, and no weight is cut off, the   *)
(* program encodes the formula: over all new variables and ancillas, the   *)
(* least energy of an assignment falls by SCALE with each clause it        *)
(* satisfies (ksat_optimized.py:463, 696).                                 *)
Collides == maxvar \in AllVariables(surrogate_cnf) /\ \E k \in DOMAIN surrogate_cnf : Len(surrogate_cnf[k]) > 3

States(n)    == {s \in [0 .. n -> {-1, 1}] : s[0] = 1}
Pairs(n)     == {p \in (0 .. n) \X (0 .. n) : p[1] < p[2]}
Energy(n, s) == -SumFunction([p \in Pairs(n) |-> mtx[p] * s[p[1]] * s[p[2]]])
Assigned(variables, s) ==
  [v \in AllVariables(surrogate_cnf) |->
     LET k == CHOOSE k \in 1 .. Len(variables) : variables[k] + 1 = v IN (s[k] + 1) \div 2]

EncodingExact ==
  step = "submit" /\ clamped = 0 /\ ~Collides =>
    LET variables == ProgramVariables(surrogate_vars, curr_Q)
        n         == Len(variables)
        energy    == [s \in States(n) |-> Energy(n, s)]
        bits      == [s \in States(n) |-> Assigned(variables, s)]
        Least(x)  == Min({energy[s] : s \in {t \in States(n) : bits[t] = x}})
    IN  Cardinality({Least(x) + 4 * Satisfied(surrogate_cnf, x) : x \in Range(bits)}) = 1
=============================================================================
