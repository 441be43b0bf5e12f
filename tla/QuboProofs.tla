------------------------------ MODULE QuboProofs ------------------------------
(***************************************************************************)
(* What the operators of Qubo compute, for every size, matrix and          *)
(* solution.  Sums come first.  SumFunction folds a function over a finite *)
(* set; the lemmas say what a reader expects of a sum, whatever the order  *)
(* of the fold.  An induction on the size of the set is not at hand: each  *)
(* proof takes a smallest set (SmallestSet) for which the lemma would fail,*)
(* and removes an element.  Then come the flip costs, and vectors in order.*)
(***************************************************************************)
EXTENDS Qubo, FiniteSetTheorems, TLAPS

(* A set of finite sets has a smallest member.                             *)
LEMMA SmallestSet ==
  ASSUME NEW T, T # {}, \A A \in T : IsFiniteSet(A)
  PROVE  \E A \in T : \A B \in T : B \subseteq A => B = A
<1> DEFINE S == UNION T
<1>1. T \subseteq FiniteSubsetsOf(S)
  BY DEF FiniteSubsetsOf
<1>2. PICK A \in T : \A B \in T : ~(<<B, A>> \in StrictSubsetOrdering(S))
  BY <1>1, FS_StrictSubsetOrderingWellFounded, WFMin
<1>3. ASSUME NEW B \in T, B \subseteq A PROVE B = A
  BY <1>2, <1>3 DEF StrictSubsetOrdering
<1> QED BY <1>3

Pick(S) == CHOOSE x \in S : TRUE

IsFold(g, f, S) ==
  g = [s \in SUBSET S |-> IF s = {} THEN 0 ELSE f[Pick(s)] + g[s \ {Pick(s)}]]

(* What is picked is in the set.                                           *)
LEMMA PickIn == ASSUME NEW S, S # {} PROVE Pick(S) \in S
BY DEF Pick

(* Two folds of a function agree where both are defined: the smallest set  *)
(* on which they did not would lose an element and still differ.           *)
LEMMA FoldsAgree ==
  ASSUME NEW f, NEW A, IsFiniteSet(A), NEW B, NEW g, NEW h, IsFold(g, f, A), IsFold(h, f, B)
  PROVE  \A s \in SUBSET (A \cap B) : g[s] = h[s]
<1> DEFINE T == {s \in SUBSET (A \cap B) : g[s] # h[s]}
<1> SUFFICES ASSUME T # {} PROVE FALSE
  OBVIOUS
<1>1. \A s \in T : IsFiniteSet(s)
  BY FS_Subset
<1>2. PICK s \in T : \A t \in T : t \subseteq s => t = s
  <2> HIDE DEF T
  <2> QED BY <1>1, SmallestSet
<1>3. CASE s = {}
  BY <1>2, <1>3 DEF IsFold
<1>4. CASE s # {}
  <2> DEFINE x == Pick(s)
             r == s \ {x}
  <2>1. x \in s
    BY <1>4, PickIn
  <2>2. g[s] = f[x] + g[r] /\ h[s] = f[x] + h[r]
    BY <1>4 DEF IsFold
  <2>3. r \notin T
    BY <1>2, <2>1
  <2>4. g[r] = h[r]
    BY <2>3
  <2> QED BY <2>2, <2>4
<1> QED BY <1>3, <1>4

(* Every finite set has a fold: add an element to the smallest set without *)
(* one and extend the fold of the rest.                                    *)
LEMMA FoldExists ==
  ASSUME NEW f, NEW S, IsFiniteSet(S)
  PROVE  \E g : IsFold(g, f, S)
<1> DEFINE T == {A \in SUBSET S : ~(\E g : IsFold(g, f, A))}
<1> SUFFICES ASSUME S \in T PROVE FALSE
  OBVIOUS
<1>1. \A A \in T : IsFiniteSet(A)
  BY FS_Subset
<1>2. PICK A \in T : \A B \in T : B \subseteq A => B = A
  <2>1. T # {}
    OBVIOUS
  <2> HIDE DEF T
  <2> QED BY <1>1, <2>1, SmallestSet
<1> DEFINE G(B) == CHOOSE g : IsFold(g, f, B)
<1>3. ASSUME NEW B \in SUBSET A, B # A PROVE IsFold(G(B), f, B)
  <2>1. B \notin T
    BY <1>2, <1>3
  <2>2. \E g : IsFold(g, f, B)
    BY <2>1, <1>2
  <2> QED BY <2>2
<1> HIDE DEF G
<1> DEFINE rest(s) == s \ {Pick(s)}
           g == [s \in SUBSET A |-> IF s = {} THEN 0 ELSE f[Pick(s)] + G(rest(s))[rest(s)]]
<1>4. ASSUME NEW s \in SUBSET A, s # {} PROVE g[rest(s)] = G(rest(s))[rest(s)]
  <2> DEFINE r == rest(s)
  <2>1. Pick(s) \in s
    BY <1>4, PickIn
  <2>2. r \in SUBSET A /\ r # A
    BY <2>1
  <2>3. IsFold(G(r), f, r)
    BY <1>3, <2>2
  <2>4. CASE r = {}
    BY <2>3, <2>4 DEF IsFold
  <2>5. CASE r # {}
    <3> DEFINE q == rest(r)
    <3>1. Pick(r) \in r
      BY <2>5, PickIn
    <3>2. q \in SUBSET A /\ q # A /\ q \in SUBSET r
      BY <2>2, <3>1
    <3>3. IsFold(G(q), f, q)
      BY <1>3, <3>2
    <3>4. G(r)[r] = f[Pick(r)] + G(r)[q]
      BY <2>3, <2>5 DEF IsFold
    <3>5. G(r)[q] = G(q)[q]
      <4>1. IsFiniteSet(r) /\ q \in SUBSET (r \cap q)
        BY <2>2, <3>2, <1>1, <1>2, FS_Subset
      <4>2. PICK u : u = G(r)
        OBVIOUS
      <4>3. PICK v : v = G(q)
        OBVIOUS
      <4> HIDE DEF r, q, g
      <4> QED BY <2>3, <3>3, <4>1, <4>2, <4>3, FoldsAgree
    <3> QED BY <2>2, <2>5, <3>4, <3>5
  <2> QED BY <2>4, <2>5
<1>5. IsFold(g, f, A)
  <2>1. ASSUME NEW s \in SUBSET A
        PROVE  g[s] = IF s = {} THEN 0 ELSE f[Pick(s)] + g[rest(s)]
    BY <1>4
  <2> HIDE DEF rest
  <2>2. g = [s \in SUBSET A |-> g[s]]
    OBVIOUS
  <2>3. g = [s \in SUBSET A |-> IF s = {} THEN 0 ELSE f[Pick(s)] + g[rest(s)]]
    <3> HIDE DEF g
    <3> QED BY <2>1, <2>2, Zenon
  <2> QED BY <2>3 DEF IsFold, rest
<1> QED BY <1>2, <1>5

(* The equation the fold is defined by.                                    *)
LEMMA SumFold ==
  ASSUME NEW f, NEW S, IsFiniteSet(S)
  PROVE  \E g : IsFold(g, f, S) /\ SumFunctionOnSet(f, S) = g[S]
<1> DEFINE g == CHOOSE g : IsFold(g, f, S)
<1>1. IsFold(g, f, S)
  BY FoldExists
<1>2. SumFunctionOnSet(f, S) = g[S]
  BY DEF SumFunctionOnSet, FoldFunctionOnSet, MapThenFoldSet, IsFold, Pick
<1> QED BY <1>1, <1>2

(* The sum over nothing.                                                   *)
LEMMA SumEmpty == ASSUME NEW f PROVE SumFunctionOnSet(f, {}) = 0
<1>1. PICK g : IsFold(g, f, {}) /\ SumFunctionOnSet(f, {}) = g[{}]
  BY SumFold, FS_EmptySet
<1>2. {} \in SUBSET {} /\ g = [s \in SUBSET {} |-> IF s = {} THEN 0 ELSE f[Pick(s)] + g[s \ {Pick(s)}]]
  BY <1>1 DEF IsFold
<1> QED BY <1>1, <1>2

(* A sum is the element picked and the sum of the others.                  *)
LEMMA SumPick ==
  ASSUME NEW f, NEW S, IsFiniteSet(S), S # {}
  PROVE  SumFunctionOnSet(f, S) = f[Pick(S)] + SumFunctionOnSet(f, S \ {Pick(S)})
<1> DEFINE R == S \ {Pick(S)}
<1>1. PICK g : IsFold(g, f, S) /\ SumFunctionOnSet(f, S) = g[S]
  BY SumFold
<1>2. IsFiniteSet(R)
  BY FS_Subset
<1>3. PICK h : IsFold(h, f, R) /\ SumFunctionOnSet(f, R) = h[R]
  BY <1>2, SumFold
<1>4. g[R] = h[R]
  BY <1>1, <1>3, FoldsAgree
<1>5. g[S] = f[Pick(S)] + g[R]
  BY <1>1 DEF IsFold
<1> QED BY <1>1, <1>3, <1>4, <1>5

(* Sums of integers are integers.                                          *)
LEMMA SumInt ==
  ASSUME NEW S, IsFiniteSet(S), NEW f, \A x \in S : f[x] \in Int
  PROVE  SumFunctionOnSet(f, S) \in Int
<1> DEFINE T == {A \in SUBSET S : SumFunctionOnSet(f, A) \notin Int}
<1> SUFFICES ASSUME T # {} PROVE FALSE
  OBVIOUS
<1>1. \A A \in T : IsFiniteSet(A)
  BY FS_Subset
<1>2. PICK A \in T : \A B \in T : B \subseteq A => B = A
  <2> HIDE DEF T
  <2> QED BY <1>1, SmallestSet
<1>3. A # {}
  BY SumEmpty
<1>4. Pick(A) \in A
  BY <1>3, PickIn
<1>5. SumFunctionOnSet(f, A \ {Pick(A)}) \in Int
  BY <1>2, <1>4
<1> QED BY <1>1, <1>3, <1>4, <1>5, SumPick

(* Any element may be taken out of a sum first.                            *)
LEMMA SumElement ==
  ASSUME NEW S, IsFiniteSet(S), NEW f, \A x \in S : f[x] \in Int
  PROVE  \A x \in S : SumFunctionOnSet(f, S) = f[x] + SumFunctionOnSet(f, S \ {x})
<1> DEFINE Out(A, x) == SumFunctionOnSet(f, A) = f[x] + SumFunctionOnSet(f, A \ {x})
           T == {A \in SUBSET S : \E x \in A : ~Out(A, x)}
<1> SUFFICES ASSUME T # {} PROVE FALSE
  OBVIOUS
<1>1. \A A \in T : IsFiniteSet(A)
  BY FS_Subset
<1>2. PICK A \in T : \A B \in T : B \subseteq A => B = A
  <2> HIDE DEF T
  <2> QED BY <1>1, SmallestSet
<1>3. PICK x \in A : ~Out(A, x)
  OBVIOUS
<1>4. PICK p \in A : p = Pick(A)
  BY <1>3, PickIn
<1>5. Out(A, p)
  BY <1>1, <1>4, SumPick
<1>6. x # p
  BY <1>3, <1>5
<1>7. ASSUME NEW y \in A PROVE \A z \in A \ {y} : Out(A \ {y}, z)
  <2>1. A \ {y} \in SUBSET S /\ A \ {y} \subseteq A /\ A \ {y} # A
    OBVIOUS
  <2>2. A \ {y} \notin T
    BY <1>2, <2>1
  <2> QED BY <2>1, <2>2
<1>8. Out(A \ {p}, x) /\ Out(A \ {x}, p)
  BY <1>6, <1>7
<1>9. (A \ {p}) \ {x} = (A \ {x}) \ {p}
  OBVIOUS
<1>10. SumFunctionOnSet(f, (A \ {x}) \ {p}) \in Int /\ f[x] \in Int /\ f[p] \in Int
  <2>1. A \in SUBSET S /\ IsFiniteSet((A \ {x}) \ {p}) /\ (A \ {x}) \ {p} \subseteq S
    BY <1>1, FS_Subset
  <2>2. SumFunctionOnSet(f, (A \ {x}) \ {p}) \in Int
    BY <2>1, SumInt
  <2> QED BY <2>1, <2>2
<1>11. PICK m \in Int : m = SumFunctionOnSet(f, (A \ {x}) \ {p})
  BY <1>10
<1>12. SumFunctionOnSet(f, A \ {p}) = f[x] + m /\ SumFunctionOnSet(f, A \ {x}) = f[p] + m
  BY <1>8, <1>9, <1>11
<1>13. SumFunctionOnSet(f, A) = f[x] + (f[p] + m)
  BY <1>5, <1>10, <1>12
<1> QED BY <1>3, <1>12, <1>13

(* A sum depends only on the values it adds up.                            *)
LEMMA SumEqual ==
  ASSUME NEW S, IsFiniteSet(S), NEW f, NEW g, \A x \in S : f[x] = g[x]
  PROVE  SumFunctionOnSet(f, S) = SumFunctionOnSet(g, S)
<1> DEFINE T == {A \in SUBSET S : SumFunctionOnSet(f, A) # SumFunctionOnSet(g, A)}
<1> SUFFICES ASSUME T # {} PROVE FALSE
  OBVIOUS
<1>1. \A A \in T : IsFiniteSet(A)
  BY FS_Subset
<1>2. PICK A \in T : \A B \in T : B \subseteq A => B = A
  <2> HIDE DEF T
  <2> QED BY <1>1, SmallestSet
<1>3. A # {}
  BY SumEmpty
<1>4. Pick(A) \in A
  BY <1>3, PickIn
<1>5. SumFunctionOnSet(f, A \ {Pick(A)}) = SumFunctionOnSet(g, A \ {Pick(A)})
  BY <1>2, <1>4
<1> QED BY <1>1, <1>3, <1>4, <1>5, SumPick

(* The sum of a pointwise sum.                                             *)
LEMMA SumAdd ==
  ASSUME NEW S, IsFiniteSet(S), NEW f, NEW g, NEW h,
         \A x \in S : f[x] \in Int /\ g[x] \in Int /\ h[x] = f[x] + g[x]
  PROVE  SumFunctionOnSet(h, S) = SumFunctionOnSet(f, S) + SumFunctionOnSet(g, S)
<1> DEFINE T == {A \in SUBSET S : SumFunctionOnSet(h, A) # SumFunctionOnSet(f, A) + SumFunctionOnSet(g, A)}
<1> SUFFICES ASSUME T # {} PROVE FALSE
  OBVIOUS
<1>1. \A A \in T : IsFiniteSet(A)
  BY FS_Subset
<1>2. PICK A \in T : \A B \in T : B \subseteq A => B = A
  <2> HIDE DEF T
  <2> QED BY <1>1, SmallestSet
<1>3. A # {}
  <2>1. \A k : SumFunctionOnSet(k, {}) = 0
    BY SumEmpty
  <2>2. {} \notin T
    BY <2>1
  <2> QED BY <2>2
<1>4. PICK p \in A : p = Pick(A)
  BY <1>3, PickIn
<1> DEFINE R == A \ {p}
<1>5. SumFunctionOnSet(h, R) = SumFunctionOnSet(f, R) + SumFunctionOnSet(g, R)
  BY <1>2, <1>4
<1>6. SumFunctionOnSet(f, R) \in Int /\ SumFunctionOnSet(g, R) \in Int
  <2>1. IsFiniteSet(R) /\ R \subseteq S
    BY <1>1, FS_Subset
  <2> QED BY <2>1, SumInt
<1>7. \A k : SumFunctionOnSet(k, A) = k[p] + SumFunctionOnSet(k, R)
  BY <1>1, <1>3, <1>4, SumPick
<1>8. f[p] \in Int /\ g[p] \in Int /\ h[p] = f[p] + g[p]
  OBVIOUS
<1>9. PICK m \in Int, k \in Int : m = SumFunctionOnSet(f, R) /\ k = SumFunctionOnSet(g, R)
  BY <1>6
<1>10. SumFunctionOnSet(f, A) = f[p] + m /\ SumFunctionOnSet(g, A) = g[p] + k
  BY <1>7, <1>9
<1>11. SumFunctionOnSet(h, A) = (f[p] + g[p]) + (m + k)
  BY <1>5, <1>7, <1>8, <1>9
<1> QED BY <1>8, <1>10, <1>11

(* The sum over two sets without common elements.                          *)
LEMMA SumUnion ==
  ASSUME NEW A, NEW B, IsFiniteSet(A), IsFiniteSet(B), A \cap B = {},
         NEW f, \A x \in A \cup B : f[x] \in Int
  PROVE  SumFunctionOnSet(f, A \cup B) = SumFunctionOnSet(f, A) + SumFunctionOnSet(f, B)
<1> DEFINE T == {C \in SUBSET A : SumFunctionOnSet(f, C \cup B) # SumFunctionOnSet(f, C) + SumFunctionOnSet(f, B)}
<1> SUFFICES ASSUME T # {} PROVE FALSE
  OBVIOUS
<1>1. \A C \in T : IsFiniteSet(C)
  BY FS_Subset
<1>2. PICK C \in T : \A D \in T : D \subseteq C => D = C
  <2> HIDE DEF T
  <2> QED BY <1>1, SmallestSet
<1>3. SumFunctionOnSet(f, B) \in Int
  BY SumInt
<1>4. C # {}
  <2>1. SumFunctionOnSet(f, {}) = 0 /\ {} \cup B = B
    BY SumEmpty
  <2>2. {} \notin T
    BY <1>3, <2>1
  <2> QED BY <2>2
<1>5. PICK p \in C : TRUE
  BY <1>4
<1> DEFINE R == C \ {p}
<1>6. IsFiniteSet(R) /\ R \subseteq A /\ IsFiniteSet(C) /\ IsFiniteSet(C \cup B) /\ (C \cup B) \ {p} = R \cup B
  BY <1>1, FS_Subset, FS_Union
<1>7. SumFunctionOnSet(f, R \cup B) = SumFunctionOnSet(f, R) + SumFunctionOnSet(f, B)
  BY <1>2, <1>5
<1>8. SumFunctionOnSet(f, C) = f[p] + SumFunctionOnSet(f, R)
  BY <1>6, SumElement
<1>9. SumFunctionOnSet(f, C \cup B) = f[p] + SumFunctionOnSet(f, R \cup B)
  BY <1>6, SumElement
<1>10. SumFunctionOnSet(f, R) \in Int /\ f[p] \in Int
  BY <1>6, SumInt
<1> QED BY <1>3, <1>7, <1>8, <1>9, <1>10

(* A sum of zeros.                                                         *)
LEMMA SumZero ==
  ASSUME NEW S, IsFiniteSet(S), NEW f, \A x \in S : f[x] = 0
  PROVE  SumFunctionOnSet(f, S) = 0
<1> DEFINE T == {A \in SUBSET S : SumFunctionOnSet(f, A) # 0}
<1> SUFFICES ASSUME T # {} PROVE FALSE
  OBVIOUS
<1>1. \A A \in T : IsFiniteSet(A)
  BY FS_Subset
<1>2. PICK A \in T : \A B \in T : B \subseteq A => B = A
  <2> HIDE DEF T
  <2> QED BY <1>1, SmallestSet
<1>3. A # {}
  BY SumEmpty
<1>4. Pick(A) \in A
  BY <1>3, PickIn
<1>5. SumFunctionOnSet(f, A \ {Pick(A)}) = 0
  BY <1>2, <1>4
<1> QED BY <1>1, <1>3, <1>4, <1>5, SumPick

(* What is zero outside a part of the set need only be summed there.       *)
LEMMA SumSupport ==
  ASSUME NEW S, IsFiniteSet(S), NEW A \in SUBSET S, NEW f,
         \A x \in S : f[x] \in Int, \A x \in S \ A : f[x] = 0
  PROVE  SumFunctionOnSet(f, S) = SumFunctionOnSet(f, A)
<1>1. IsFiniteSet(A) /\ IsFiniteSet(S \ A) /\ A \cup (S \ A) = S
  BY FS_Subset
<1>2. SumFunctionOnSet(f, S \ A) = 0
  BY <1>1, SumZero
<1>3. SumFunctionOnSet(f, A) \in Int
  BY <1>1, SumInt
<1>4. SumFunctionOnSet(f, A \cup (S \ A)) = SumFunctionOnSet(f, A) + SumFunctionOnSet(f, S \ A)
  BY <1>1, SumUnion
<1>5. SumFunctionOnSet(f, S) = SumFunctionOnSet(f, A) + 0
  BY <1>1, <1>2, <1>4
<1> QED BY <1>3, <1>5

(* The values a function takes on a finite set are finitely many.          *)
LEMMA ImageFinite ==
  ASSUME NEW S, IsFiniteSet(S), NEW f
  PROVE  IsFiniteSet({f[x] : x \in S})
<1> DEFINE g == [x \in S |-> f[x]]
<1>1. g \in Surjection(S, {f[x] : x \in S})
  BY DEF Surjection
<1> QED BY <1>1, FS_Surjection

(* A sum does not change with the names of what is summed.                 *)
LEMMA SumRename ==
  ASSUME NEW S, IsFiniteSet(S), NEW f, NEW g, NEW to, NEW U, \A x \in S : f[x] \in Int,
         \A x, y \in S : to[x] = to[y] => x = y,
         \A x \in S : to[x] \in U /\ g[to[x]] = f[x],
         \A u \in U : \E x \in S : u = to[x]
  PROVE  SumFunctionOnSet(g, U) = SumFunctionOnSet(f, S)
<1> SUFFICES SumFunctionOnSet(g, {to[x] : x \in S}) = SumFunctionOnSet(f, S)
  <2>1. U = {to[x] : x \in S}
    OBVIOUS
  <2> QED BY <2>1
<1> DEFINE Image(A) == {to[x] : x \in A}
           T == {A \in SUBSET S : SumFunctionOnSet(g, Image(A)) # SumFunctionOnSet(f, A)}
<1> SUFFICES ASSUME T # {} PROVE FALSE
  OBVIOUS
<1>1. \A A \in T : IsFiniteSet(A)
  BY FS_Subset
<1>2. PICK A \in T : \A B \in T : B \subseteq A => B = A
  <2> HIDE DEF T
  <2> QED BY <1>1, SmallestSet
<1>3. A # {}
  <2>1. Image({}) = {}
    OBVIOUS
  <2> QED BY <2>1, SumEmpty
<1>4. PICK p \in A : TRUE
  BY <1>3
<1> DEFINE R == A \ {p}
<1>5. SumFunctionOnSet(g, Image(R)) = SumFunctionOnSet(f, R)
  BY <1>2, <1>4
<1>6. Image(R) = Image(A) \ {to[p]} /\ to[p] \in Image(A)
  OBVIOUS
<1>7. IsFiniteSet(Image(A))
  BY <1>1, ImageFinite
<1>8. SumFunctionOnSet(g, Image(A)) = g[to[p]] + SumFunctionOnSet(g, Image(R))
  <2>1. \A y \in Image(A) : g[y] \in Int
    OBVIOUS
  <2>2. PICK B, C, q : B = Image(A) /\ C = Image(R) /\ q = to[p] /\ q \in B
    BY <1>6
  <2>3. SumFunctionOnSet(g, B) = g[q] + SumFunctionOnSet(g, B \ {q})
    BY <1>7, <2>1, <2>2, SumElement
  <2> QED BY <1>6, <2>2, <2>3
<1>9. SumFunctionOnSet(f, A) = f[p] + SumFunctionOnSet(f, R)
  BY <1>1, SumElement
<1> QED BY <1>5, <1>8, <1>9

(* A sum may be taken part by part.                                        *)
LEMMA SumByParts ==
  ASSUME NEW I, IsFiniteSet(I), NEW part, NEW f,
         \A i \in I : IsFiniteSet(part[i]) /\ \A x \in part[i] : f[x] \in Int,
         \A i, k \in I : i # k => part[i] \cap part[k] = {}
  PROVE  SumFunctionOnSet(f, UNION {part[i] : i \in I}) =
           SumFunctionOnSet([i \in I |-> SumFunctionOnSet(f, part[i])], I)
<1> DEFINE all(A) == UNION {part[i] : i \in A}
           s == [i \in I |-> SumFunctionOnSet(f, part[i])]
           T == {A \in SUBSET I : SumFunctionOnSet(f, all(A)) # SumFunctionOnSet(s, A)}
<1> SUFFICES ASSUME T # {} PROVE FALSE
  OBVIOUS
<1>1. \A A \in T : IsFiniteSet(A)
  BY FS_Subset
<1>2. PICK A \in T : \A B \in T : B \subseteq A => B = A
  <2> HIDE DEF T
  <2> QED BY <1>1, SmallestSet
<1>3. A # {}
  <2>1. \A k : SumFunctionOnSet(k, {}) = 0
    BY SumEmpty
  <2>2. all({}) = {}
    OBVIOUS
  <2>3. {} \notin T
    BY <2>1, <2>2
  <2> QED BY <2>3
<1>4. PICK p \in A : TRUE
  BY <1>3
<1> DEFINE R == A \ {p}
<1>5. SumFunctionOnSet(f, all(R)) = SumFunctionOnSet(s, R)
  <2>1. R \in SUBSET I /\ R \subseteq A /\ R # A
    BY <1>4
  <2>2. R \notin T
    BY <1>2, <2>1
  <2> HIDE DEF all, s, R
  <2> QED BY <2>1, <2>2
<1>6. /\ IsFiniteSet(R)
      /\ all(A) = all(R) \cup part[p] /\ all(R) \cap part[p] = {} /\ IsFiniteSet(part[p])
      /\ p \in I /\ A \in SUBSET I /\ IsFiniteSet(A)
  BY <1>1, FS_Subset
<1>7. IsFiniteSet(all(R))
  <2>1. PICK parts : parts = {part[i] : i \in R}
    OBVIOUS
  <2>2. IsFiniteSet(parts) /\ \A part_i \in parts : IsFiniteSet(part_i)
    BY <1>6, <2>1, ImageFinite
  <2>3. all(R) = UNION parts
    BY <2>1
  <2> HIDE DEF all
  <2> QED BY <2>2, <2>3, FS_UNION
<1>8. SumFunctionOnSet(f, all(R) \cup part[p]) = SumFunctionOnSet(f, all(R)) + SumFunctionOnSet(f, part[p])
  <2>1. \A x \in all(R) \cup part[p] : f[x] \in Int
    OBVIOUS
  <2>2. PICK B, C : B = all(R) /\ C = part[p]
    OBVIOUS
  <2>3. SumFunctionOnSet(f, B \cup C) = SumFunctionOnSet(f, B) + SumFunctionOnSet(f, C)
    BY <1>6, <1>7, <2>1, <2>2, SumUnion
  <2> QED BY <2>2, <2>3
<1>9. \A i \in A : s[i] \in Int
  BY SumInt
<1>10. SumFunctionOnSet(s, A) = s[p] + SumFunctionOnSet(s, R)
  <2> HIDE DEF s
  <2> QED BY <1>6, <1>9, SumElement
<1>11. SumFunctionOnSet(s, R) \in Int
  <2> HIDE DEF s
  <2> QED BY <1>6, <1>9, SumInt
<1>12. s[p] = SumFunctionOnSet(f, part[p]) /\ s[p] \in Int
  BY <1>6, <1>9
<1>13. SumFunctionOnSet(f, all(A)) = SumFunctionOnSet(s, A)
  <2> HIDE DEF s, all, R, T
  <2>1. SumFunctionOnSet(f, all(A)) = SumFunctionOnSet(s, R) + s[p]
    BY <1>5, <1>6, <1>8, <1>12
  <2> QED BY <2>1, <1>10, <1>11, <1>12
<1> QED BY <1>13

(* The sum of what is negated.                                             *)
LEMMA SumNegate ==
  ASSUME NEW S, IsFiniteSet(S), NEW f, NEW g, \A x \in S : f[x] \in Int /\ g[x] = -f[x]
  PROVE  SumFunctionOnSet(g, S) = -SumFunctionOnSet(f, S)
<1> DEFINE zero == [x \in S |-> 0]
<1>1. SumFunctionOnSet(zero, S) = 0
  BY SumZero
<1>2. SumFunctionOnSet(zero, S) = SumFunctionOnSet(f, S) + SumFunctionOnSet(g, S)
  <2>1. \A x \in S : f[x] \in Int /\ g[x] \in Int /\ zero[x] = f[x] + g[x]
    OBVIOUS
  <2> HIDE DEF zero
  <2> QED BY <2>1, SumAdd
<1>3. SumFunctionOnSet(f, S) \in Int /\ SumFunctionOnSet(g, S) \in Int
  BY SumInt
<1> QED BY <1>1, <1>2, <1>3

------------------------------------------------------------------------------
(* The parts of a QUBO are finite, and a flip changes one bit.             *)
LEMMA QuboFinite ==
  /\ IsFiniteSet(Var) /\ IsFiniteSet(UpperPair)
  /\ \A i \in Var : IsFiniteSet(i + 1 .. qubo_size - 1) /\ IsFiniteSet(0 .. i - 1)
<1>1. qubo_size \in Int
  BY QuboSizeAssumption
<1>2. IsFiniteSet(Var)
  BY <1>1, FS_Interval DEF Var
<1>3. IsFiniteSet(UpperPair)
  <2>1. IsFiniteSet(Var \X Var)
    BY <1>2, FS_Product
  <2> QED BY <2>1, FS_Subset DEF UpperPair
<1>4. ASSUME NEW i \in Var PROVE IsFiniteSet(i + 1 .. qubo_size - 1) /\ IsFiniteSet(0 .. i - 1)
  BY <1>1, FS_Interval DEF Var
<1> QED BY <1>2, <1>3, <1>4

(* A flip changes one bit.                                                 *)
LEMMA FlipOne ==
  ASSUME NEW x \in Bits, NEW b \in Var
  PROVE  /\ Flip(x, b) \in Bits /\ x[b] \in {0, 1}
         /\ \A i \in Var : Flip(x, b)[i] = IF i = b THEN 1 - x[b] ELSE x[i]
BY DEF Flip, Bits

(* One entry of the sum along a row, and one of the sum along a column.    *)
LEMMA RowEntry ==
  ASSUME NEW q \in [UpperPair -> Int], NEW i \in Var, NEW j \in i + 1 .. qubo_size - 1, NEW x
  PROVE  /\ j \in Var /\ <<i, j>> \in UpperPair /\ q[<<i, j>>] \in Int
         /\ InRow(q, x, i)[j] = (IF x[j] = 1 THEN q[<<i, j>>] ELSE 0)
         /\ InRow(q, x, i)[j] \in Int
<1>1. j \in Var /\ <<i, j>> \in UpperPair
  BY QuboSizeAssumption DEF Var, UpperPair
<1>2. InRow(q, x, i)[j] = (IF x[j] = 1 THEN q[<<i, j>>] ELSE 0)
  BY DEF InRow
<1> QED BY <1>1, <1>2

LEMMA ColEntry ==
  ASSUME NEW q \in [UpperPair -> Int], NEW i \in Var, NEW j \in 0 .. i - 1, NEW x
  PROVE  /\ j \in Var /\ <<j, i>> \in UpperPair /\ q[<<j, i>>] \in Int
         /\ InCol(q, x, i)[j] = (IF x[j] = 1 THEN q[<<j, i>>] ELSE 0)
         /\ InCol(q, x, i)[j] \in Int
<1>1. j \in Var /\ <<j, i>> \in UpperPair
  BY QuboSizeAssumption DEF Var, UpperPair
<1>2. InCol(q, x, i)[j] = (IF x[j] = 1 THEN q[<<j, i>>] ELSE 0)
  BY DEF InCol
<1> QED BY <1>1, <1>2

(* The sums over the rest of a row and of a column, on their own domains.  *)
LEMMA RowColSums ==
  ASSUME NEW q \in [UpperPair -> Int], NEW x \in Bits, NEW i \in Var
  PROVE  /\ RowSum(q, x, i) = SumFunctionOnSet(InRow(q, x, i), i + 1 .. qubo_size - 1)
         /\ ColSum(q, x, i) = SumFunctionOnSet(InCol(q, x, i), 0 .. i - 1)
         /\ \A j \in i + 1 .. qubo_size - 1 :
              /\ j \in Var /\ <<i, j>> \in UpperPair /\ q[<<i, j>>] \in Int
              /\ InRow(q, x, i)[j] = (IF x[j] = 1 THEN q[<<i, j>>] ELSE 0)
              /\ InRow(q, x, i)[j] \in Int
         /\ \A j \in 0 .. i - 1 :
              /\ j \in Var /\ <<j, i>> \in UpperPair /\ q[<<j, i>>] \in Int
              /\ InCol(q, x, i)[j] = (IF x[j] = 1 THEN q[<<j, i>>] ELSE 0)
              /\ InCol(q, x, i)[j] \in Int
         /\ <<i, i>> \in UpperPair /\ q[<<i, i>>] \in Int
         /\ RowSum(q, x, i) \in Int /\ ColSum(q, x, i) \in Int
<1>1. RowSum(q, x, i) = SumFunctionOnSet(InRow(q, x, i), i + 1 .. qubo_size - 1)
  BY DEF RowSum, InRow, SumFunction
<1>2. ColSum(q, x, i) = SumFunctionOnSet(InCol(q, x, i), 0 .. i - 1)
  BY DEF ColSum, InCol, SumFunction
<1>3. ASSUME NEW j \in i + 1 .. qubo_size - 1
      PROVE  /\ j \in Var /\ <<i, j>> \in UpperPair /\ q[<<i, j>>] \in Int
             /\ InRow(q, x, i)[j] = (IF x[j] = 1 THEN q[<<i, j>>] ELSE 0)
             /\ InRow(q, x, i)[j] \in Int
  BY RowEntry
<1>4. ASSUME NEW j \in 0 .. i - 1
      PROVE  /\ j \in Var /\ <<j, i>> \in UpperPair /\ q[<<j, i>>] \in Int
             /\ InCol(q, x, i)[j] = (IF x[j] = 1 THEN q[<<j, i>>] ELSE 0)
             /\ InCol(q, x, i)[j] \in Int
  BY ColEntry
<1>5. <<i, i>> \in UpperPair /\ q[<<i, i>>] \in Int
  <2>1. <<i, i>> \in UpperPair
    BY DEF Var, UpperPair
  <2> QED BY <2>1
<1>6. RowSum(q, x, i) \in Int /\ ColSum(q, x, i) \in Int
  <2>1. PICK R, C, r, c :
          R = i + 1 .. qubo_size - 1 /\ C = 0 .. i - 1 /\ r = InRow(q, x, i) /\ c = InCol(q, x, i)
    OBVIOUS
  <2>2. IsFiniteSet(R) /\ IsFiniteSet(C)
    BY <2>1, QuboFinite
  <2>3. (\A j \in R : r[j] \in Int) /\ (\A j \in C : c[j] \in Int)
    BY <1>3, <1>4, <2>1
  <2>4. SumFunctionOnSet(r, R) \in Int /\ SumFunctionOnSet(c, C) \in Int
    BY <2>2, <2>3, SumInt
  <2> QED BY <1>1, <1>2, <2>1, <2>4
<1> QED BY <1>1, <1>2, <1>3, <1>4, <1>5, <1>6

(* The terms of the objective and their sum are integers.                  *)
LEMMA TermsInt ==
  ASSUME NEW q \in [UpperPair -> Int], NEW x \in Bits
  PROVE  /\ Objective(q, x) = SumFunctionOnSet(Terms(q, x), UpperPair)
         /\ \A p \in UpperPair :
              /\ p = <<p[1], p[2]>> /\ p[1] \in Var /\ p[2] \in Var /\ p[1] <= p[2]
              /\ Terms(q, x)[p] = q[p] * x[p[1]] * x[p[2]] /\ Terms(q, x)[p] \in Int
         /\ Objective(q, x) \in Int
<1>1. Objective(q, x) = SumFunctionOnSet(Terms(q, x), UpperPair)
  BY DEF Objective, Terms, SumFunction
<1>2. ASSUME NEW p \in UpperPair
      PROVE  /\ p = <<p[1], p[2]>> /\ p[1] \in Var /\ p[2] \in Var /\ p[1] <= p[2]
             /\ Terms(q, x)[p] = q[p] * x[p[1]] * x[p[2]] /\ Terms(q, x)[p] \in Int
  <2>1. p = <<p[1], p[2]>> /\ p[1] \in Var /\ p[2] \in Var /\ p[1] <= p[2]
    BY DEF UpperPair
  <2>2. q[p] \in Int /\ x[p[1]] \in {0, 1} /\ x[p[2]] \in {0, 1}
    BY <2>1 DEF Bits
  <2>3. q[p] * x[p[1]] * x[p[2]] \in {0, q[p]}
    BY <2>2
  <2> QED BY <2>1, <2>2, <2>3 DEF Terms
<1>3. Objective(q, x) \in Int
  BY <1>1, <1>2, QuboFinite, SumInt
<1> QED BY <1>1, <1>2, <1>3

(* evaluate() computes the objective: row by row, the rows of the bits that*)
(* are set (solver.cc:50-69).                                              *)
THEOREM EvaluateExact ==
  ASSUME NEW q \in [UpperPair -> Int], NEW x \in Bits
  PROVE  Evaluate(q, x) = Objective(q, x)
<1> DEFINE row == [i \in Var |-> {p \in UpperPair : p[1] = i}]
           f   == Terms(q, x)
           s   == [i \in Var |-> IF x[i] = 1 THEN RowSum(q, x, i) + q[<<i, i>>] ELSE 0]
<1>1. ASSUME NEW i \in Var PROVE SumFunctionOnSet(f, row[i]) = s[i]
  <2>1. row[i] \subseteq UpperPair /\ IsFiniteSet(row[i]) /\ <<i, i>> \in row[i]
    BY QuboFinite, FS_Subset, RowColSums DEF row
  <2>2. CASE x[i] # 1
    <3>1. x[i] = 0
      BY <2>2 DEF Bits
    <3>2. \A p \in row[i] : f[p] = 0
      <4> SUFFICES ASSUME NEW p \in row[i] PROVE f[p] = 0
        OBVIOUS
      <4>1. p \in UpperPair /\ p[1] = i
        OBVIOUS
      <4>2. f[p] = q[p] * x[i] * x[p[2]] /\ q[p] \in Int /\ x[p[2]] \in {0, 1}
        BY <4>1, TermsInt DEF Bits
      <4> QED BY <3>1, <4>2
    <3> HIDE DEF f, row
    <3>3. SumFunctionOnSet(f, row[i]) = 0
      BY <2>1, <3>2, SumZero
    <3> QED BY <2>2, <3>3
  <2>3. CASE x[i] = 1
    <3> DEFINE right == row[i] \ {<<i, i>>}
               to    == [j \in i + 1 .. qubo_size - 1 |-> <<i, j>>]
    <3>1. SumFunctionOnSet(f, row[i]) = f[<<i, i>>] + SumFunctionOnSet(f, right)
      <4>1. \A p \in row[i] : f[p] \in Int
        BY <2>1, TermsInt
      <4> HIDE DEF f, row
      <4> QED BY <2>1, <4>1, SumElement
    <3>2. right = {to[j] : j \in i + 1 .. qubo_size - 1}
      <4>1. ASSUME NEW p \in right PROVE p \in {to[j] : j \in i + 1 .. qubo_size - 1}
        <5>1. p \in UpperPair /\ p[1] = i /\ p # <<i, i>>
          OBVIOUS
        <5>2. p = <<i, p[2]>> /\ p[2] \in Var /\ i <= p[2]
          BY <5>1 DEF UpperPair
        <5>3. p[2] # i
          BY <5>1, <5>2
        <5>4. p[2] \in i + 1 .. qubo_size - 1
          BY <5>2, <5>3, QuboSizeAssumption DEF Var
        <5> QED BY <5>2, <5>4
      <4>2. ASSUME NEW j \in i + 1 .. qubo_size - 1 PROVE to[j] \in right
        <5>1. <<i, j>> \in UpperPair
          BY RowColSums
        <5>2. i # j /\ i \in Int
          BY DEF Var
        <5> QED BY <5>1, <5>2
      <4> QED BY <4>1, <4>2
    <3>3. SumFunctionOnSet(f, right) = SumFunctionOnSet(InRow(q, x, i), i + 1 .. qubo_size - 1)
      <4>1. ASSUME NEW j \in i + 1 .. qubo_size - 1
            PROVE  InRow(q, x, i)[j] \in Int /\ f[to[j]] = InRow(q, x, i)[j]
        <5>1. /\ j \in Var /\ <<i, j>> \in UpperPair /\ q[<<i, j>>] \in Int
              /\ InRow(q, x, i)[j] = (IF x[j] = 1 THEN q[<<i, j>>] ELSE 0)
          BY RowEntry
        <5>2. f[<<i, j>>] = q[<<i, j>>] * x[i] * x[j] /\ x[j] \in {0, 1}
          BY <5>1, TermsInt DEF Bits
        <5> QED BY <2>3, <5>1, <5>2
      <4>2. \A j, k \in i + 1 .. qubo_size - 1 : to[j] = to[k] => j = k
        OBVIOUS
      <4>3. PICK J, g : J = i + 1 .. qubo_size - 1 /\ g = InRow(q, x, i)
        OBVIOUS
      <4>4. IsFiniteSet(J)
        BY <4>3, QuboFinite
      <4> HIDE DEF to, f, right
      <4>5. /\ \A j \in J : to[j] \in right
            /\ \A u \in right : \E j \in J : u = to[j]
            /\ \A j, k \in J : to[j] = to[k] => j = k
            /\ \A j \in J : g[j] \in Int /\ f[to[j]] = g[j]
        BY <3>2, <4>1, <4>2, <4>3
      <4>6. SumFunctionOnSet(f, right) = SumFunctionOnSet(g, J)
        BY <4>4, <4>5, SumRename
      <4> QED BY <4>3, <4>6
    <3>4. f[<<i, i>>] = q[<<i, i>>]
      <4>1. <<i, i>> \in UpperPair /\ q[<<i, i>>] \in Int
        BY RowColSums
      <4>2. f[<<i, i>>] = q[<<i, i>>] * x[i] * x[i]
        BY <4>1, TermsInt
      <4> QED BY <2>3, <4>1, <4>2
    <3>5. RowSum(q, x, i) = SumFunctionOnSet(InRow(q, x, i), i + 1 .. qubo_size - 1) /\ RowSum(q, x, i) \in Int
          /\ q[<<i, i>>] \in Int
      BY RowColSums
    <3> HIDE DEF f, row, right
    <3> QED BY <2>3, <3>1, <3>3, <3>4, <3>5
  <2> QED BY <2>2, <2>3
<1>2. UpperPair = UNION {row[i] : i \in Var}
  BY DEF UpperPair
<1>3. \A i \in Var : IsFiniteSet(row[i]) /\ \A p \in row[i] : f[p] \in Int
  BY QuboFinite, FS_Subset, TermsInt
<1>4. \A i, k \in Var : i # k => row[i] \cap row[k] = {}
  OBVIOUS
<1>5. SumFunctionOnSet(f, UpperPair) = SumFunctionOnSet([i \in Var |-> SumFunctionOnSet(f, row[i])], Var)
  <2> HIDE DEF row, f
  <2>1. IsFiniteSet(Var)
    BY QuboFinite
  <2>2. SumFunctionOnSet(f, UNION {row[i] : i \in Var}) =
          SumFunctionOnSet([i \in Var |-> SumFunctionOnSet(f, row[i])], Var)
    BY <1>3, <1>4, <2>1, SumByParts
  <2> QED BY <1>2, <2>2
<1>6. [i \in Var |-> SumFunctionOnSet(f, row[i])] = s
  <2> HIDE DEF f, row
  <2> QED BY <1>1
<1>7. Evaluate(q, x) = SumFunctionOnSet(s, Var)
  BY DEF Evaluate, SumFunction
<1> QED BY <1>5, <1>6, <1>7, TermsInt

(* How one flip changes one term of the objective.                         *)
Signed(bit, v) == IF bit = 1 THEN -v ELSE v
Change(q, x, b) == [p \in UpperPair |-> Terms(q, Flip(x, b))[p] - Terms(q, x)[p]]

(* What a flip of b does to a term: nothing to a term without b.           *)
LEMMA TermChange ==
  ASSUME NEW q \in [UpperPair -> Int], NEW x \in Bits, NEW b \in Var, NEW p \in UpperPair
  PROVE  /\ Terms(q, x)[p] \in Int /\ Terms(q, Flip(x, b))[p] \in Int /\ Change(q, x, b)[p] \in Int
         /\ Terms(q, Flip(x, b))[p] = Terms(q, x)[p] + Change(q, x, b)[p]
         /\ p[1] # b /\ p[2] # b => Change(q, x, b)[p] = 0
         /\ p[1] = b /\ p[2] = b => Change(q, x, b)[p] = Signed(x[b], q[p])
         /\ p[1] = b /\ p[2] # b => Change(q, x, b)[p] = Signed(x[b], IF x[p[2]] = 1 THEN q[p] ELSE 0)
         /\ p[1] # b /\ p[2] = b => Change(q, x, b)[p] = Signed(x[b], IF x[p[1]] = 1 THEN q[p] ELSE 0)
<1>1. PICK y : y = Flip(x, b)
  OBVIOUS
<1>2. /\ y \in Bits /\ x[b] \in {0, 1} /\ y[b] = 1 - x[b]
      /\ \A i \in Var : i # b => y[i] = x[i]
  BY <1>1, FlipOne
<1>3. /\ p[1] \in Var /\ p[2] \in Var /\ q[p] \in Int
      /\ Terms(q, x)[p] = q[p] * x[p[1]] * x[p[2]] /\ Terms(q, x)[p] \in Int
      /\ Terms(q, y)[p] = q[p] * y[p[1]] * y[p[2]] /\ Terms(q, y)[p] \in Int
  BY <1>2, TermsInt
<1>4. x[p[1]] \in {0, 1} /\ x[p[2]] \in {0, 1}
  BY <1>3 DEF Bits
<1>5. Change(q, x, b)[p] = Terms(q, y)[p] - Terms(q, x)[p]
  BY <1>1 DEF Change
<1>6. PICK v \in Int, c \in {0, 1}, d \in {0, 1}, e \in {0, 1} :
         v = q[p] /\ c = x[b] /\ d = x[p[1]] /\ e = x[p[2]]
  BY <1>2, <1>3, <1>4
<1>7. /\ v * d * e \in Int /\ Terms(q, x)[p] = v * d * e
      /\ Change(q, x, b)[p] = Terms(q, y)[p] - Terms(q, x)[p]
  BY <1>3, <1>5, <1>6
<1>8. p[1] # b /\ p[2] # b => Change(q, x, b)[p] = 0
  BY <1>2, <1>3, <1>7
<1>9. p[1] = b /\ p[2] = b => Change(q, x, b)[p] = Signed(c, v)
  <2> HAVE p[1] = b /\ p[2] = b
  <2>1. Terms(q, y)[p] = v * (1 - c) * (1 - c) /\ Terms(q, x)[p] = v * c * c
    BY <1>2, <1>3, <1>6
  <2> QED BY <1>7, <2>1 DEF Signed
<1>10. p[1] = b /\ p[2] # b => Change(q, x, b)[p] = Signed(c, IF e = 1 THEN v ELSE 0)
  <2> HAVE p[1] = b /\ p[2] # b
  <2>1. Terms(q, y)[p] = v * (1 - c) * e /\ Terms(q, x)[p] = v * c * e
    BY <1>2, <1>3, <1>6
  <2> QED BY <1>7, <2>1 DEF Signed
<1>11. p[1] # b /\ p[2] = b => Change(q, x, b)[p] = Signed(c, IF d = 1 THEN v ELSE 0)
  <2> HAVE p[1] # b /\ p[2] = b
  <2>1. Terms(q, y)[p] = v * d * (1 - c) /\ Terms(q, x)[p] = v * d * c
    BY <1>2, <1>3, <1>6
  <2> QED BY <1>7, <2>1 DEF Signed
<1> QED BY <1>1, <1>3, <1>5, <1>6, <1>8, <1>9, <1>10, <1>11

(* The change along a row or column, J renamed into the line L.            *)
LEMMA LineChange ==
  ASSUME NEW J, IsFiniteSet(J), NEW L, NEW d, NEW r, NEW to, NEW bit \in {0, 1},
         \A j \in J : r[j] \in Int /\ to[j] \in L /\ d[to[j]] = Signed(bit, r[j]),
         \A j, k \in J : to[j] = to[k] => j = k,
         \A u \in L : \E j \in J : u = to[j]
  PROVE  SumFunctionOnSet(d, L) = Signed(bit, SumFunctionOnSet(r, J))
<1> DEFINE h == [j \in J |-> Signed(bit, r[j])]
<1>1. \A j \in J : h[j] = Signed(bit, r[j]) /\ h[j] \in Int
  BY DEF Signed
<1>2. SumFunctionOnSet(d, L) = SumFunctionOnSet(h, J)
  <2> HIDE DEF h
  <2> QED BY <1>1, SumRename
<1> HIDE DEF h
<1>3. CASE bit = 1
  <2>1. \A j \in J : r[j] \in Int /\ h[j] = -r[j]
    BY <1>1, <1>3 DEF Signed
  <2> QED BY <1>2, <1>3, <2>1, SumNegate DEF Signed
<1>4. CASE bit = 0
  <2>1. \A j \in J : h[j] = r[j]
    BY <1>1, <1>4 DEF Signed
  <2> QED BY <1>2, <1>4, <2>1, SumEqual DEF Signed
<1> QED BY <1>3, <1>4

(* The terms right of b in its row change by its row sum.                  *)
LEMMA RowChange ==
  ASSUME NEW q \in [UpperPair -> Int], NEW x \in Bits, NEW b \in Var
  PROVE  SumFunctionOnSet(Change(q, x, b), {p \in UpperPair : p[1] = b /\ p[2] # b}) =
           Signed(x[b], RowSum(q, x, b))
<1>1. PICK J, r, L, d :
         /\ J = b + 1 .. qubo_size - 1 /\ r = InRow(q, x, b)
         /\ L = {p \in UpperPair : p[1] = b /\ p[2] # b} /\ d = Change(q, x, b)
  OBVIOUS
<1> DEFINE to == [j \in J |-> <<b, j>>]
<1>2. ASSUME NEW j \in J
      PROVE  r[j] \in Int /\ to[j] \in L /\ d[to[j]] = Signed(x[b], r[j])
  <2>1. /\ j \in Var /\ <<b, j>> \in UpperPair /\ q[<<b, j>>] \in Int
        /\ r[j] = (IF x[j] = 1 THEN q[<<b, j>>] ELSE 0) /\ r[j] \in Int
    BY <1>1, RowEntry
  <2>2. j # b
    BY <1>1 DEF Var
  <2>3. PICK p \in UpperPair : p = <<b, j>>
    BY <2>1
  <2>4. d[p] = Signed(x[b], IF x[p[2]] = 1 THEN q[p] ELSE 0)
    BY <1>1, <2>2, <2>3, TermChange
  <2> QED BY <1>1, <2>1, <2>2, <2>3, <2>4
<1>3. ASSUME NEW u \in L PROVE \E j \in J : u = to[j]
  <2>1. u = <<b, u[2]>> /\ u[2] \in Var /\ b <= u[2] /\ u[2] # b
    BY <1>1 DEF UpperPair
  <2>2. u[2] \in J
    BY <1>1, <2>1, QuboSizeAssumption DEF Var
  <2> QED BY <2>1, <2>2
<1>4. \A j, k \in J : to[j] = to[k] => j = k
  OBVIOUS
<1>5. IsFiniteSet(J) /\ RowSum(q, x, b) = SumFunctionOnSet(r, J)
  <2>1. IsFiniteSet(J)
    BY <1>1, QuboFinite
  <2>2. RowSum(q, x, b) = SumFunctionOnSet(InRow(q, x, b), b + 1 .. qubo_size - 1)
    BY DEF RowSum, InRow, SumFunction
  <2> QED BY <1>1, <2>1, <2>2
<1>6. x[b] \in {0, 1}
  BY DEF Bits
<1> HIDE DEF to
<1>7. SumFunctionOnSet(d, L) = Signed(x[b], SumFunctionOnSet(r, J))
  BY <1>2, <1>3, <1>4, <1>5, <1>6, LineChange
<1> QED BY <1>1, <1>5, <1>7

(* The terms above b in its column change by its column sum.               *)
LEMMA ColChange ==
  ASSUME NEW q \in [UpperPair -> Int], NEW x \in Bits, NEW b \in Var
  PROVE  SumFunctionOnSet(Change(q, x, b), {p \in UpperPair : p[2] = b /\ p[1] # b}) =
           Signed(x[b], ColSum(q, x, b))
<1>1. PICK J, r, L, d :
         /\ J = 0 .. b - 1 /\ r = InCol(q, x, b)
         /\ L = {p \in UpperPair : p[2] = b /\ p[1] # b} /\ d = Change(q, x, b)
  OBVIOUS
<1> DEFINE to == [j \in J |-> <<j, b>>]
<1>2. ASSUME NEW j \in J
      PROVE  r[j] \in Int /\ to[j] \in L /\ d[to[j]] = Signed(x[b], r[j])
  <2>1. /\ j \in Var /\ <<j, b>> \in UpperPair /\ q[<<j, b>>] \in Int
        /\ r[j] = (IF x[j] = 1 THEN q[<<j, b>>] ELSE 0) /\ r[j] \in Int
    BY <1>1, ColEntry
  <2>2. j # b
    BY <1>1 DEF Var
  <2>3. PICK p \in UpperPair : p = <<j, b>>
    BY <2>1
  <2>4. d[p] = Signed(x[b], IF x[p[1]] = 1 THEN q[p] ELSE 0)
    BY <1>1, <2>2, <2>3, TermChange
  <2> QED BY <1>1, <2>1, <2>2, <2>3, <2>4
<1>3. ASSUME NEW u \in L PROVE \E j \in J : u = to[j]
  <2>1. u = <<u[1], b>> /\ u[1] \in Var /\ u[1] <= b /\ u[1] # b
    BY <1>1 DEF UpperPair
  <2>2. u[1] \in J
    BY <1>1, <2>1 DEF Var
  <2> QED BY <2>1, <2>2
<1>4. \A j, k \in J : to[j] = to[k] => j = k
  OBVIOUS
<1>5. IsFiniteSet(J) /\ ColSum(q, x, b) = SumFunctionOnSet(r, J)
  <2>1. IsFiniteSet(J)
    BY <1>1, QuboFinite
  <2>2. ColSum(q, x, b) = SumFunctionOnSet(InCol(q, x, b), 0 .. b - 1)
    BY DEF ColSum, InCol, SumFunction
  <2> QED BY <1>1, <2>1, <2>2
<1>6. x[b] \in {0, 1}
  BY DEF Bits
<1> HIDE DEF to
<1>7. SumFunctionOnSet(d, L) = Signed(x[b], SumFunctionOnSet(r, J))
  BY <1>2, <1>3, <1>4, <1>5, <1>6, LineChange
<1> QED BY <1>1, <1>5, <1>7

(* The flip costs evaluate() computes are what each flip would change      *)
(* (solver.cc:50-69).                                                      *)
THEOREM FlipCostExact ==
  ASSUME NEW q \in [UpperPair -> Int], NEW x \in Bits, NEW b \in Var
  PROVE  /\ FlipCost(q, x)[b] = Objective(q, Flip(x, b)) - Objective(q, x)
         /\ FlipCost(q, x)[b] \in Int
<1> DEFINE touched == {p \in UpperPair : p[1] = b \/ p[2] = b}
           right == {p \in UpperPair : p[1] = b /\ p[2] # b}
           up    == {p \in UpperPair : p[2] = b /\ p[1] # b}
<1>1. PICK f, g, d : f = Terms(q, x) /\ g = Terms(q, Flip(x, b)) /\ d = Change(q, x, b)
  OBVIOUS
<1>2. \A p \in UpperPair : f[p] \in Int /\ g[p] \in Int /\ d[p] \in Int /\ g[p] = f[p] + d[p]
  BY <1>1, TermChange
<1>3. SumFunctionOnSet(g, UpperPair) = SumFunctionOnSet(f, UpperPair) + SumFunctionOnSet(d, UpperPair)
  BY <1>2, QuboFinite, SumAdd
<1>4. SumFunctionOnSet(d, UpperPair) = SumFunctionOnSet(d, touched)
  <2>1. touched \in SUBSET UpperPair /\ \A p \in UpperPair \ touched : d[p] = 0
    BY <1>1, TermChange
  <2> HIDE DEF touched
  <2> QED BY <1>2, <2>1, QuboFinite, SumSupport
<1>5. /\ <<b, b>> \in UpperPair /\ q[<<b, b>>] \in Int /\ x[b] \in {0, 1}
      /\ d[<<b, b>>] = Signed(x[b], q[<<b, b>>])
  <2>1. <<b, b>> \in UpperPair /\ q[<<b, b>>] \in Int
    BY RowColSums
  <2>2. PICK p \in UpperPair : p = <<b, b>>
    BY <2>1
  <2>3. d[p] = Signed(x[b], q[p])
    BY <1>1, <2>2, TermChange
  <2> QED BY <2>1, <2>2, <2>3 DEF Bits
<1>6. SumFunctionOnSet(d, touched) = d[<<b, b>>] + (SumFunctionOnSet(d, right) + SumFunctionOnSet(d, up))
  <2>1. \A p \in touched : p[1] = b /\ p[2] = b => p = <<b, b>>
    BY DEF UpperPair
  <2>2. touched \ {<<b, b>>} = right \cup up
    BY <2>1
  <2>3. /\ <<b, b>> \in touched /\ IsFiniteSet(touched) /\ IsFiniteSet(right) /\ IsFiniteSet(up)
        /\ right \cap up = {}
        /\ \A p \in touched : d[p] \in Int
        /\ \A p \in right \cup up : d[p] \in Int
    BY <1>2, <1>5, QuboFinite, FS_Subset
  <2> HIDE DEF touched, right, up
  <2>4. SumFunctionOnSet(d, touched) = d[<<b, b>>] + SumFunctionOnSet(d, right \cup up)
    BY <2>2, <2>3, SumElement
  <2>5. SumFunctionOnSet(d, right \cup up) = SumFunctionOnSet(d, right) + SumFunctionOnSet(d, up)
    BY <2>3, SumUnion
  <2> QED BY <2>4, <2>5
<1>7. PICK m \in Int, k \in Int, l \in Int : m = RowSum(q, x, b) /\ k = ColSum(q, x, b) /\ l = q[<<b, b>>]
  BY RowColSums
<1>8. SumFunctionOnSet(d, right) = Signed(x[b], m) /\ SumFunctionOnSet(d, up) = Signed(x[b], k)
  BY <1>1, <1>7, RowChange, ColChange
<1>9. PICK e \in Int, c \in Int : e = Objective(q, x) /\ c = Objective(q, Flip(x, b))
  BY FlipOne, TermsInt
<1>10. c = e + (Signed(x[b], l) + (Signed(x[b], m) + Signed(x[b], k)))
  <2>1. c = SumFunctionOnSet(g, UpperPair) /\ e = SumFunctionOnSet(f, UpperPair)
    BY <1>1, <1>9, FlipOne, TermsInt
  <2> HIDE DEF touched, right, up
  <2> QED BY <1>3, <1>4, <1>5, <1>6, <1>7, <1>8, <2>1
<1>11. FlipCost(q, x)[b] = IF x[b] = 1 THEN -(m + k + l) ELSE m + k + l
  BY <1>7 DEF FlipCost
<1> QED BY <1>9, <1>10, <1>11 DEF Signed

(* A sum after one of its values has changed.                              *)
LEMMA SumOneChanged ==
  ASSUME NEW S, IsFiniteSet(S), NEW f, NEW g, NEW b \in S,
         \A x \in S : f[x] \in Int /\ g[x] \in Int,
         \A x \in S : x # b => f[x] = g[x]
  PROVE  SumFunctionOnSet(g, S) = SumFunctionOnSet(f, S) + (g[b] - f[b])
<1> DEFINE R == S \ {b}
<1>1. IsFiniteSet(R)
  BY FS_Subset
<1>2. SumFunctionOnSet(g, R) = SumFunctionOnSet(f, R) /\ SumFunctionOnSet(f, R) \in Int
  BY <1>1, SumEqual, SumInt
<1>3. SumFunctionOnSet(g, S) = g[b] + SumFunctionOnSet(g, R) /\ SumFunctionOnSet(f, S) = f[b] + SumFunctionOnSet(f, R)
  BY SumElement
<1> QED BY <1>2, <1>3

(* What a flip does to the sums along a row and a column: only the term of *)
(* the variable that was flipped changes.                                  *)
LEMMA SumsAfterFlip ==
  ASSUME NEW q \in [UpperPair -> Int], NEW x \in Bits, NEW b \in Var, NEW i \in Var
  PROVE  /\ RowSum(q, Flip(x, b), i) = RowSum(q, x, i) + (IF i < b THEN Signed(x[b], q[<<i, b>>]) ELSE 0)
         /\ ColSum(q, Flip(x, b), i) = ColSum(q, x, i) + (IF b < i THEN Signed(x[b], q[<<b, i>>]) ELSE 0)
<1>1. PICK y : y = Flip(x, b)
  OBVIOUS
<1>2. /\ y \in Bits /\ x[b] \in {0, 1} /\ y[b] = 1 - x[b]
      /\ \A k \in Var : k # b => y[k] = x[k]
  BY <1>1, FlipOne
<1>3. RowSum(q, y, i) = RowSum(q, x, i) + (IF i < b THEN Signed(x[b], q[<<i, b>>]) ELSE 0)
  <2>1. PICK J, r, s : J = i + 1 .. qubo_size - 1 /\ r = InRow(q, x, i) /\ s = InRow(q, y, i)
    OBVIOUS
  <2>2. RowSum(q, x, i) = SumFunctionOnSet(r, J) /\ RowSum(q, y, i) = SumFunctionOnSet(s, J)
    BY <2>1 DEF RowSum, InRow, SumFunction
  <2>3. IsFiniteSet(J)
    BY <2>1, QuboFinite
  <2>4. ASSUME NEW j \in J
        PROVE  /\ j \in Var /\ q[<<i, j>>] \in Int
               /\ r[j] \in Int /\ r[j] = (IF x[j] = 1 THEN q[<<i, j>>] ELSE 0)
               /\ s[j] \in Int /\ s[j] = (IF y[j] = 1 THEN q[<<i, j>>] ELSE 0)
    <3>0. j \in i + 1 .. qubo_size - 1
      BY <2>1
    <3>1. /\ j \in Var /\ q[<<i, j>>] \in Int
          /\ InRow(q, x, i)[j] \in Int /\ InRow(q, x, i)[j] = (IF x[j] = 1 THEN q[<<i, j>>] ELSE 0)
      BY <3>0, RowEntry
    <3>2. InRow(q, y, i)[j] \in Int /\ InRow(q, y, i)[j] = (IF y[j] = 1 THEN q[<<i, j>>] ELSE 0)
      BY <3>0, RowEntry
    <3> QED BY <2>1, <3>1, <3>2
  <2>5. \A j \in J : r[j] \in Int /\ s[j] \in Int /\ (j # b => r[j] = s[j])
    BY <1>2, <2>4
  <2>6. b \in J <=> i < b
    BY <2>1, QuboSizeAssumption DEF Var
  <2>7. SumFunctionOnSet(r, J) \in Int
    BY <2>3, <2>5, SumInt
  <2>8. CASE i < b
    <3>1. SumFunctionOnSet(s, J) = SumFunctionOnSet(r, J) + (s[b] - r[b])
      <4>1. b \in J /\ (\A j \in J : r[j] \in Int /\ s[j] \in Int) /\ \A j \in J : j # b => r[j] = s[j]
        BY <2>5, <2>6, <2>8
      <4> QED BY <2>3, <4>1, SumOneChanged
    <3>2. s[b] - r[b] = Signed(x[b], q[<<i, b>>])
      BY <1>2, <2>4, <2>6, <2>8 DEF Signed
    <3> QED BY <2>2, <2>8, <3>1, <3>2
  <2>9. CASE ~(i < b)
    <3>1. SumFunctionOnSet(s, J) = SumFunctionOnSet(r, J)
      <4>1. \A j \in J : s[j] = r[j]
        BY <2>5, <2>6, <2>9
      <4> QED BY <2>3, <4>1, SumEqual
    <3> QED BY <2>2, <2>7, <2>9, <3>1
  <2> QED BY <2>8, <2>9
<1>4. ColSum(q, y, i) = ColSum(q, x, i) + (IF b < i THEN Signed(x[b], q[<<b, i>>]) ELSE 0)
  <2>1. PICK J, r, s : J = 0 .. i - 1 /\ r = InCol(q, x, i) /\ s = InCol(q, y, i)
    OBVIOUS
  <2>2. ColSum(q, x, i) = SumFunctionOnSet(r, J) /\ ColSum(q, y, i) = SumFunctionOnSet(s, J)
    BY <2>1 DEF ColSum, InCol, SumFunction
  <2>3. IsFiniteSet(J)
    BY <2>1, QuboFinite
  <2>4. ASSUME NEW j \in J
        PROVE  /\ j \in Var /\ q[<<j, i>>] \in Int
               /\ r[j] \in Int /\ r[j] = (IF x[j] = 1 THEN q[<<j, i>>] ELSE 0)
               /\ s[j] \in Int /\ s[j] = (IF y[j] = 1 THEN q[<<j, i>>] ELSE 0)
    <3>0. j \in 0 .. i - 1
      BY <2>1
    <3>1. /\ j \in Var /\ q[<<j, i>>] \in Int
          /\ InCol(q, x, i)[j] \in Int /\ InCol(q, x, i)[j] = (IF x[j] = 1 THEN q[<<j, i>>] ELSE 0)
      BY <3>0, ColEntry
    <3>2. InCol(q, y, i)[j] \in Int /\ InCol(q, y, i)[j] = (IF y[j] = 1 THEN q[<<j, i>>] ELSE 0)
      BY <3>0, ColEntry
    <3> QED BY <2>1, <3>1, <3>2
  <2>5. \A j \in J : r[j] \in Int /\ s[j] \in Int /\ (j # b => r[j] = s[j])
    BY <1>2, <2>4
  <2>6. b \in J <=> b < i
    BY <2>1 DEF Var
  <2>7. SumFunctionOnSet(r, J) \in Int
    BY <2>3, <2>5, SumInt
  <2>8. CASE b < i
    <3>1. SumFunctionOnSet(s, J) = SumFunctionOnSet(r, J) + (s[b] - r[b])
      <4>1. b \in J /\ (\A j \in J : r[j] \in Int /\ s[j] \in Int) /\ \A j \in J : j # b => r[j] = s[j]
        BY <2>5, <2>6, <2>8
      <4> QED BY <2>3, <4>1, SumOneChanged
    <3>2. s[b] - r[b] = Signed(x[b], q[<<b, i>>])
      BY <1>2, <2>4, <2>6, <2>8 DEF Signed
    <3> QED BY <2>2, <2>8, <3>1, <3>2
  <2>9. CASE ~(b < i)
    <3>1. SumFunctionOnSet(s, J) = SumFunctionOnSet(r, J)
      <4>1. \A j \in J : s[j] = r[j]
        BY <2>5, <2>6, <2>9
      <4> QED BY <2>3, <4>1, SumEqual
    <3> QED BY <2>2, <2>7, <2>9, <3>1
  <2> QED BY <2>8, <2>9
<1> QED BY <1>1, <1>3, <1>4

(* evaluate_1bit() brings exact flip costs up to date exactly              *)
(* (solver.cc:72-89).                                                      *)
THEOREM UpdatedExact ==
  ASSUME NEW q \in [UpperPair -> Int], NEW x \in Bits, NEW b \in Var
  PROVE  UpdatedFlipCost(q, x, FlipCost(q, x), b) = FlipCost(q, Flip(x, b))
<1>1. PICK y, c : y = Flip(x, b) /\ c = FlipCost(q, x)
  OBVIOUS
<1>2. /\ y \in Bits /\ x[b] \in {0, 1} /\ y[b] = 1 - x[b]
      /\ \A k \in Var : k # b => y[k] = x[k]
  BY <1>1, FlipOne
<1>3. ASSUME NEW i \in Var PROVE UpdatedFlipCost(q, x, c, b)[i] = FlipCost(q, y)[i]
  <2>1. PICK m \in Int, k \in Int, l \in Int : m = RowSum(q, x, i) /\ k = ColSum(q, x, i) /\ l = q[<<i, i>>]
    BY RowColSums
  <2>2. c[i] = IF x[i] = 1 THEN -(m + k + l) ELSE m + k + l
    BY <1>1, <2>1 DEF FlipCost
  <2>3. /\ RowSum(q, y, i) = m + (IF i < b THEN Signed(x[b], q[<<i, b>>]) ELSE 0)
        /\ ColSum(q, y, i) = k + (IF b < i THEN Signed(x[b], q[<<b, i>>]) ELSE 0)
    BY <1>1, <2>1, SumsAfterFlip
  <2>4. FlipCost(q, y)[i] = LET t == RowSum(q, y, i) + ColSum(q, y, i) + l
                            IN  IF y[i] = 1 THEN -t ELSE t
    BY <2>1 DEF FlipCost
  <2>5. CASE i = b
    <3>1. UpdatedFlipCost(q, x, c, b)[i] = -c[i]
      BY <2>5 DEF UpdatedFlipCost
    <3>2. ~(i < b) /\ ~(b < i)
      BY <2>5 DEF Var
    <3>3. RowSum(q, y, i) = m /\ ColSum(q, y, i) = k
      BY <2>3, <3>2
    <3> QED BY <1>2, <2>2, <2>4, <2>5, <3>1, <3>3
  <2>6. CASE i < b
    <3>1. i # b /\ ~(b < i) /\ <<i, b>> \in UpperPair
      BY <2>6 DEF Var, UpperPair
    <3>2. PICK w \in Int : w = q[<<i, b>>]
      BY <3>1
    <3>3. RowSum(q, y, i) = m + Signed(x[b], w) /\ ColSum(q, y, i) = k
      BY <2>3, <2>6, <3>1, <3>2
    <3>4. UpdatedFlipCost(q, x, c, b)[i] =
            LET delta == w * (IF x[i] = 1 THEN 1 ELSE -1)
            IN  IF y[b] = 0 THEN c[i] + delta ELSE c[i] - delta
      BY <1>1, <2>6, <3>1, <3>2 DEF UpdatedFlipCost, Coupler
    <3>5. x[i] \in {0, 1} /\ y[i] = x[i]
      BY <1>2, <3>1 DEF Bits
    <3> QED BY <1>2, <2>2, <2>4, <3>3, <3>4, <3>5 DEF Signed
  <2>7. CASE b < i
    <3>1. i # b /\ ~(i < b) /\ <<b, i>> \in UpperPair
      BY <2>7 DEF Var, UpperPair
    <3>2. PICK w \in Int : w = q[<<b, i>>]
      BY <3>1
    <3>3. RowSum(q, y, i) = m /\ ColSum(q, y, i) = k + Signed(x[b], w)
      BY <2>3, <2>7, <3>1, <3>2
    <3>4. UpdatedFlipCost(q, x, c, b)[i] =
            LET delta == w * (IF x[i] = 1 THEN 1 ELSE -1)
            IN  IF y[b] = 0 THEN c[i] + delta ELSE c[i] - delta
      BY <1>1, <2>7, <3>1, <3>2 DEF UpdatedFlipCost, Coupler
    <3>5. x[i] \in {0, 1} /\ y[i] = x[i]
      BY <1>2, <3>1 DEF Bits
    <3> QED BY <1>2, <2>2, <2>4, <3>3, <3>4, <3>5 DEF Signed
  <2> QED BY <2>5, <2>6, <2>7 DEF Var
<1>4. /\ UpdatedFlipCost(q, x, c, b) = [i \in Var |-> UpdatedFlipCost(q, x, c, b)[i]]
      /\ FlipCost(q, y) = [i \in Var |-> FlipCost(q, y)[i]]
  BY DEF UpdatedFlipCost, FlipCost
<1> QED BY <1>1, <1>3, <1>4

------------------------------------------------------------------------------
(* A finite set of integers in order: every element has its place, and     *)
(* they ascend.                                                            *)
LEMMA InOrderFacts ==
  ASSUME NEW S, IsFiniteSet(S), S \subseteq Int
  PROVE  /\ Cardinality(S) \in Nat
         /\ InOrder(S) \in [0 .. Cardinality(S) - 1 -> S]
         /\ \A a, b \in 0 .. Cardinality(S) - 1 : a < b => InOrder(S)[a] < InOrder(S)[b]
         /\ \A i \in S : \E k \in 0 .. Cardinality(S) - 1 : InOrder(S)[k] = i
<1>1. PICK m \in Nat : m = Cardinality(S)
  BY FS_CardinalityType
<1>2. PICK r : r = [i \in S |-> Cardinality({j \in S : j < i})]
  OBVIOUS
<1>3. ASSUME NEW i \in S
      PROVE  /\ r[i] = Cardinality({j \in S : j < i}) /\ IsFiniteSet({j \in S : j < i})
             /\ r[i] \in 0 .. m - 1
  <2> DEFINE below == {j \in S : j < i}
  <2>1. IsFiniteSet(S \ {i}) /\ Cardinality(S \ {i}) = m - 1
    BY <1>1, FS_RemoveElement
  <2>2. below \in SUBSET (S \ {i})
    OBVIOUS
  <2>3. IsFiniteSet(below) /\ Cardinality(below) <= Cardinality(S \ {i})
    <3> HIDE DEF below
    <3> QED BY <2>1, <2>2, FS_Subset
  <2>4. Cardinality(below) \in Nat
    BY <2>3, FS_CardinalityType
  <2>5. r[i] = Cardinality(below)
    BY <1>2
  <2> HIDE DEF below
  <2>6. Cardinality(below) \in 0 .. m - 1
    BY <1>1, <2>1, <2>3, <2>4
  <2> QED BY <2>3, <2>5, <2>6 DEF below
<1>4. ASSUME NEW i \in S, NEW k \in S, i < k PROVE r[i] < r[k]
  <2> DEFINE low == {j \in S : j < i}
             high == {j \in S : j < k}
  <2>1. IsFiniteSet(high) /\ r[i] = Cardinality(low) /\ r[k] = Cardinality(high)
        /\ r[i] \in Int /\ r[k] \in Int
    BY <1>3
  <2>2. low \in SUBSET high /\ i \in high /\ i \notin low
    <3>1. \A j \in S : j \in Int
      OBVIOUS
    <3>2. \A j \in S : j < i => j < k
      BY <1>4, <3>1
    <3>3. low \in SUBSET high
      BY <3>2
    <3>4. i \in high /\ ~(i < i)
      BY <1>4, <3>1
    <3> QED BY <3>3, <3>4
  <2> HIDE DEF low, high
  <2>3. Cardinality(low) <= Cardinality(high) /\ Cardinality(high) # Cardinality(low)
    BY <2>1, <2>2, FS_Subset
  <2> QED BY <2>1, <2>3
<1>5. PICK T : T = 0 .. m - 1
  OBVIOUS
<1>6. IsFiniteSet(T) /\ Cardinality(T) = m
  <2>1. IsFiniteSet(0 .. m - 1) /\ Cardinality(0 .. m - 1) = IF 0 > m - 1 THEN 0 ELSE m - 1 - 0 + 1
    <3>1. 0 \in Int /\ m - 1 \in Int
      BY <1>1
    <3> QED BY <3>1, FS_Interval
  <2> QED BY <1>1, <1>5, <2>1
<1>7. r \in Injection(S, T)
  <2>1. r \in [S -> T]
    BY <1>2, <1>3, <1>5
  <2>2. \A i, k \in S : r[i] = r[k] => i = k
    <3>1. ASSUME NEW i \in S PROVE r[i] \in Int
      <4>1. r[i] \in 0 .. m - 1
        BY <1>3
      <4> QED BY <1>1, <4>1
    <3>2. \A i, k \in S : i \in Int /\ k \in Int
      OBVIOUS
    <3> QED BY <1>4, <3>1, <3>2
  <2> QED BY <2>1, <2>2 DEF Injection, IsInjective
<1>8. \A k \in T : \E i \in S : r[i] = k
  <2>1. r \in Surjection(S, T)
    BY <1>1, <1>6, <1>7, FS_Injection
  <2> QED BY <2>1 DEF Surjection
<1>9. PICK v : v = InOrder(S)
  OBVIOUS
<1>10. ASSUME NEW k \in T PROVE v[k] \in S /\ r[v[k]] = k
  <2>1. \E i \in S : Cardinality({j \in S : j < i}) = k
    BY <1>3, <1>8
  <2>2. v[k] = CHOOSE i \in S : Cardinality({j \in S : j < i}) = k
    BY <1>1, <1>5, <1>9 DEF InOrder
  <2>3. v[k] \in S /\ Cardinality({j \in S : j < v[k]}) = k
    BY <2>1, <2>2
  <2> QED BY <1>3, <2>3
<1>11. v \in [T -> S]
  <2>1. InOrder(S) = [k \in 0 .. Cardinality(S) - 1 |-> InOrder(S)[k]]
    BY DEF InOrder
  <2>2. v = [k \in T |-> v[k]]
    BY <1>1, <1>5, <1>9, <2>1
  <2> QED BY <1>10, <2>2
<1>12. ASSUME NEW a \in T, NEW b \in T, a < b PROVE v[a] < v[b]
  <2>1. v[a] \in S /\ v[b] \in S /\ r[v[a]] = a /\ r[v[b]] = b
    BY <1>10
  <2>2. v[a] \in Int /\ v[b] \in Int /\ a \in Int /\ b \in Int
    <3>1. a \in 0 .. m - 1 /\ b \in 0 .. m - 1
      BY <1>5
    <3>2. \A j \in S : j \in Int
      OBVIOUS
    <3>3. v[a] \in Int /\ v[b] \in Int
      BY <2>1, <3>2
    <3> QED BY <3>1, <3>3
  <2>3. v[a] # v[b]
    BY <1>12, <2>1, <2>2
  <2>4. ~(v[b] < v[a])
    BY <1>4, <1>12, <2>1, <2>2
  <2> QED BY <2>2, <2>3, <2>4
<1>13. ASSUME NEW i \in S PROVE \E k \in T : v[k] = i
  <2>1. r[i] \in T /\ v[r[i]] \in S /\ r[v[r[i]]] = r[i]
    BY <1>3, <1>5, <1>10
  <2> QED BY <1>7, <2>1 DEF Injection, IsInjective
<1> QED BY <1>1, <1>5, <1>9, <1>11, <1>12, <1>13

(* A sum of bits is between none and all; it is zero only when every bit   *)
(* is, and the number of bits only when all are set.                       *)
LEMMA SumBits ==
  ASSUME NEW S, IsFiniteSet(S), NEW f, \A i \in S : f[i] \in {0, 1}
  PROVE  /\ SumFunctionOnSet(f, S) \in 0 .. Cardinality(S)
         /\ SumFunctionOnSet(f, S) = 0 <=> \A i \in S : f[i] = 0
         /\ SumFunctionOnSet(f, S) = Cardinality(S) <=> \A i \in S : f[i] = 1
<1> DEFINE Within(A) == /\ SumFunctionOnSet(f, A) \in 0 .. Cardinality(A)
                        /\ (\A i \in A : f[i] = 1) => SumFunctionOnSet(f, A) = Cardinality(A)
           T == {A \in SUBSET S : ~Within(A)}
<1>1. \A A \in SUBSET S : IsFiniteSet(A)
  BY FS_Subset
<1>2. \A A \in SUBSET S : Within(A)
  <2> SUFFICES ASSUME T # {} PROVE FALSE
    OBVIOUS
  <2>1. \A A \in T : IsFiniteSet(A)
    BY <1>1
  <2>2. PICK A \in T : \A B \in T : B \subseteq A => B = A
    <3> HIDE DEF T
    <3> QED BY <2>1, SmallestSet
  <2>3. A # {}
    <3>1. SumFunctionOnSet(f, {}) = 0 /\ Cardinality({}) = 0
      BY SumEmpty, FS_EmptySet
    <3>2. Within({})
      BY <3>1
    <3> QED BY <3>2
  <2>4. PICK i \in A : TRUE
    BY <2>3
  <2>5. PICK R : R = A \ {i}
    OBVIOUS
  <2>6. Within(R)
    BY <2>2, <2>4, <2>5
  <2>7. /\ IsFiniteSet(A) /\ (\A j \in A : f[j] \in Int) /\ i \in A /\ f[i] \in {0, 1}
        /\ A \subseteq S
    BY <1>1, <2>4
  <2>8. SumFunctionOnSet(f, A) = f[i] + SumFunctionOnSet(f, R)
    BY <2>5, <2>7, SumElement
  <2>9. Cardinality(R) = Cardinality(A) - 1 /\ Cardinality(A) \in Nat
    BY <2>5, <2>7, FS_RemoveElement, FS_CardinalityType
  <2>10. Within(A)
    <3>1. PICK k \in Int, n \in Nat : k = SumFunctionOnSet(f, R) /\ n = Cardinality(A)
      BY <2>6, <2>9
    <3>2. f[i] + k \in 0 .. n
      BY <2>6, <2>7, <2>9, <3>1
    <3>3. (\A j \in A : f[j] = 1) => f[i] + k = n
      <4>1. (\A j \in A : f[j] = 1) => k = n - 1
        BY <2>5, <2>6, <2>9, <3>1
      <4> QED BY <3>1, <4>1
    <3> QED BY <2>8, <3>1, <3>2, <3>3
  <2> QED BY <2>2, <2>10
<1>3. PICK c \in Nat, s \in Int : c = Cardinality(S) /\ s = SumFunctionOnSet(f, S) /\ 0 <= s /\ s <= c
  BY <1>2, FS_CardinalityType
<1> HIDE DEF Within
<1>4. ASSUME NEW i \in S
      PROVE  \E k \in Int : s = f[i] + k /\ 0 <= k /\ k <= c - 1
  <2>1. PICK R : R = S \ {i}
    OBVIOUS
  <2>2. IsFiniteSet(S) /\ (\A j \in S : f[j] \in Int) /\ i \in S
    OBVIOUS
  <2>3. SumFunctionOnSet(f, S) = f[i] + SumFunctionOnSet(f, R)
    BY <2>1, <2>2, SumElement
  <2>4. Cardinality(R) = c - 1
    BY <1>3, <2>1, FS_RemoveElement
  <2>5. SumFunctionOnSet(f, R) \in 0 .. c - 1
    BY <1>2, <2>1, <2>4 DEF Within
  <2> QED BY <1>3, <2>3, <2>5
<1>5. s = 0 => \A i \in S : f[i] = 0
  BY <1>4
<1>6. s = c => \A i \in S : f[i] = 1
  BY <1>3, <1>4
<1>7. (\A i \in S : f[i] = 0) => s = 0
  BY <1>3, SumZero
<1>8. (\A i \in S : f[i] = 1) => s = c
  BY <1>2, <1>3 DEF Within
<1> QED BY <1>3, <1>5, <1>6, <1>7, <1>8

(* As many different values as arguments, of a function that is one to one.*)
LEMMA RenamedSize ==
  ASSUME NEW S, IsFiniteSet(S), NEW f, \A a, b \in S : f[a] = f[b] => a = b,
         NEW T, T = {f[a] : a \in S}
  PROVE  IsFiniteSet(T) /\ Cardinality(T) = Cardinality(S)
<1>1. PICK g : g = [a \in S |-> f[a]]
  OBVIOUS
<1>2. g \in Bijection(S, T)
  BY <1>1 DEF Bijection, Injection, Surjection, IsInjective
<1>3. ExistsBijection(S, T)
  BY <1>2 DEF ExistsBijection
<1> QED BY <1>3, FS_Bijection

(* A finite set of integers has a greatest and a smallest element.         *)
LEMMA Extremes ==
  ASSUME NEW S, IsFiniteSet(S), \A i \in S : i \in Int, S # {}
  PROVE  /\ \E m \in S : \A i \in S : i <= m
         /\ \E m \in S : \A i \in S : m <= i
<1>1. /\ S \subseteq Int /\ Cardinality(S) \in Nat
      /\ InOrder(S) \in [0 .. Cardinality(S) - 1 -> S]
      /\ \A a, b \in 0 .. Cardinality(S) - 1 : a < b => InOrder(S)[a] < InOrder(S)[b]
      /\ \A i \in S : \E k \in 0 .. Cardinality(S) - 1 : InOrder(S)[k] = i
  BY InOrderFacts
<1>2. PICK n \in Nat : n = Cardinality(S)
  BY <1>1
<1>3. PICK f \in [0 .. n - 1 -> S] :
        /\ \A a, b \in 0 .. n - 1 : a < b => f[a] < f[b]
        /\ \A i \in S : \E k \in 0 .. n - 1 : f[k] = i
  BY <1>1, <1>2
<1>4. n > 0
  BY <1>2, FS_EmptySet
<1>5. 0 \in 0 .. n - 1 /\ n - 1 \in 0 .. n - 1
  BY <1>4
<1>6. ASSUME NEW i \in S PROVE f[0] <= i /\ i <= f[n - 1]
  <2>1. PICK k \in 0 .. n - 1 : f[k] = i
    BY <1>3
  <2>2. k = 0 \/ 0 < k
    OBVIOUS
  <2>3. k = n - 1 \/ k < n - 1
    OBVIOUS
  <2>4. i \in Int /\ f[0] \in Int /\ f[n - 1] \in Int
    BY <1>5
  <2> QED BY <1>3, <1>5, <2>1, <2>2, <2>3, <2>4
<1> QED BY <1>5, <1>6
===============================================================================
