------------------------- MODULE SubmatrixSearchProofs -------------------------
(***************************************************************************)
(* Proofs about SubmatrixSearch and the modules it is made of, for every   *)
(* size of problem and of sub-problem, every matrix and every list of      *)
(* solutions.  The sort comes first: the stretches on its stack, then the  *)
(* order of what is in none.  Then a window: the walks of reduce(), the    *)
(* fixed variables they find, and why a gain in the sub-QUBO is the same   *)
(* gain in the QUBO.  The invariant of the pass puts them together.        *)
(***************************************************************************)
EXTENDS SubmatrixSearch, QuboProofs, SequenceTheorems

USE QuboSizeAssumption

(* A sub-QUBO is a QUBO: what is proved of the one holds for the other.    *)
Small == INSTANCE QuboProofs WITH qubo_size <- subMatrix
------------------------------------------------------------------------------
(* The stretches on a stack lie in ascending order without touching.  The  *)
(* k-th begins at three times k - 1 or later, because the one below it has *)
(* two values or more and a pivot lies between them.                       *)
Stacked(s) ==
  /\ s \in Seq(Int \X Int)
  /\ \A k \in 1 .. Len(s) : 3 * (k - 1) <= s[k][1] /\ s[k][1] <= s[k][2] /\ s[k][2] <= qubo_size - 1
  /\ \A k, m \in 1 .. Len(s) : k < m => s[k][2] < s[m][1]

Below(s, a) == \A k \in 1 .. Len(s) : s[k][2] < a

(* Two ranks of one stretch.                                               *)
Inside(s, a, b) == \E k \in 1 .. Len(s) : s[k][1] <= a /\ b <= s[k][2]

StackInv ==
  /\ Stacked(stack)
  /\ lo \in Int /\ hi \in Int /\ si \in Int /\ sj \in Int
  /\ sort_pc \in {"pop", "partition", "done"}
  /\ sort_pc = "partition" => /\ Below(stack, lo) /\ 3 * Len(stack) <= lo /\ lo <= hi /\ hi <= qubo_size - 1
                              /\ lo - 1 <= si /\ si < sj /\ sj <= hi
------------------------------------------------------------------------------
(* What a push onto such a stack gives.                                    *)
LEMMA Appended ==
  ASSUME NEW s, Stacked(s), NEW a \in Int, NEW b \in Int,
         Below(s, a), 3 * Len(s) <= a, a <= b, b <= qubo_size - 1
  PROVE  LET t == Append(s, <<a, b>>) IN
           /\ Stacked(t) /\ Len(t) = Len(s) + 1
           /\ \A c \in Int : b < c => Below(t, c)
           /\ \A x, y \in Int : Inside(t, x, y) <=> Inside(s, x, y) \/ (a <= x /\ y <= b)
<1> DEFINE t == Append(s, <<a, b>>)
<1>1. s \in Seq(Int \X Int) /\ Len(s) \in Nat
  BY DEF Stacked
<1>2. t \in Seq(Int \X Int) /\ Len(t) = Len(s) + 1
  BY <1>1
<1>3. \A k \in 1 .. Len(s) : t[k] = s[k] /\ k \in 1 .. Len(t)
  BY <1>1, <1>2
<1>4. t[Len(s) + 1] = <<a, b>> /\ Len(s) + 1 \in 1 .. Len(t)
  BY <1>1, <1>2
<1>5. \A k \in 1 .. Len(t) : k \in 1 .. Len(s) \/ k = Len(s) + 1
  BY <1>1, <1>2
<1>6. \A k \in 1 .. Len(s) : s[k][1] \in Int /\ s[k][2] \in Int /\ k \in Int
  BY <1>1
<1> HIDE DEF t
<1>7. \A k \in 1 .. Len(t) : 3 * (k - 1) <= t[k][1] /\ t[k][1] <= t[k][2] /\ t[k][2] <= qubo_size - 1
  <2> SUFFICES ASSUME NEW k \in 1 .. Len(t)
               PROVE  3 * (k - 1) <= t[k][1] /\ t[k][1] <= t[k][2] /\ t[k][2] <= qubo_size - 1
    OBVIOUS
  <2>1. CASE k \in 1 .. Len(s)
    BY <1>3, <2>1 DEF Stacked
  <2>2. CASE k = Len(s) + 1
    BY <1>1, <1>4, <2>2
  <2> QED BY <1>5, <2>1, <2>2
<1>8. \A k, m \in 1 .. Len(t) : k < m => t[k][2] < t[m][1]
  <2> SUFFICES ASSUME NEW k \in 1 .. Len(t), NEW m \in 1 .. Len(t), k < m
               PROVE  t[k][2] < t[m][1]
    OBVIOUS
  <2>1. k \in 1 .. Len(s)
    BY <1>1, <1>2
  <2>2. CASE m \in 1 .. Len(s)
    BY <1>3, <2>1, <2>2 DEF Stacked
  <2>3. CASE m = Len(s) + 1
    BY <1>3, <1>4, <2>1, <2>3 DEF Below
  <2> QED BY <1>5, <2>2, <2>3
<1>9. ASSUME NEW c \in Int, b < c PROVE Below(t, c)
  <2> SUFFICES ASSUME NEW k \in 1 .. Len(t) PROVE t[k][2] < c
    BY DEF Below
  <2>1. CASE k \in 1 .. Len(s)
    BY <1>3, <1>6, <1>9, <2>1 DEF Below
  <2>2. CASE k = Len(s) + 1
    BY <1>4, <1>9, <2>2
  <2> QED BY <1>5, <2>1, <2>2
<1>10. ASSUME NEW x \in Int, NEW y \in Int
       PROVE  Inside(t, x, y) <=> Inside(s, x, y) \/ (a <= x /\ y <= b)
  <2>1. ASSUME Inside(t, x, y) PROVE Inside(s, x, y) \/ (a <= x /\ y <= b)
    <3>1. PICK k \in 1 .. Len(t) : t[k][1] <= x /\ y <= t[k][2]
      BY <2>1 DEF Inside
    <3>2. CASE k \in 1 .. Len(s)
      BY <1>3, <3>1, <3>2 DEF Inside
    <3>3. CASE k = Len(s) + 1
      BY <1>4, <3>1, <3>3
    <3> QED BY <1>5, <3>2, <3>3
  <2>2. ASSUME Inside(s, x, y) PROVE Inside(t, x, y)
    BY <1>3, <2>2 DEF Inside
  <2>3. ASSUME a <= x, y <= b PROVE Inside(t, x, y)
    BY <1>4, <2>3 DEF Inside
  <2> QED BY <2>1, <2>2, <2>3
<1> QED BY <1>2, <1>7, <1>8, <1>9, <1>10 DEF t, Stacked

(* The same of Push, which leaves stretches of one value out.              *)
LEMMA Pushed ==
  ASSUME NEW s, Stacked(s), NEW a \in Int, NEW b \in Int,
         Below(s, a), 3 * Len(s) <= a, b <= qubo_size - 1
  PROVE  /\ Stacked(Sort!Push(s, a, b))
         /\ a < b => 3 * Len(Sort!Push(s, a, b)) <= b + 2
         /\ \A c \in Int : a <= c /\ b < c => Below(Sort!Push(s, a, b), c)
         /\ \A x, y \in Int :
              Inside(Sort!Push(s, a, b), x, y) <=> Inside(s, x, y) \/ (a < b /\ a <= x /\ y <= b)
<1>1. CASE a < b
  <2>1. Sort!Push(s, a, b) = Append(s, <<a, b>>) /\ a <= b
    BY <1>1 DEF Sort!Push
  <2>2. Len(s) \in Nat
    BY DEF Stacked
  <2> QED BY <1>1, <2>1, <2>2, Appended
<1>2. CASE ~(a < b)
  <2>1. Sort!Push(s, a, b) = s
    BY <1>2 DEF Sort!Push
  <2>2. \A k \in 1 .. Len(s) : s[k][2] \in Int
    BY DEF Stacked
  <2> QED BY <1>2, <2>1, <2>2 DEF Below
<1> QED BY <1>1, <1>2

(* What taking the top off such a stack gives.                             *)
LEMMA Popped ==
  ASSUME NEW s, Stacked(s), s # <<>>
  PROVE  LET t == SubSeq(s, 1, Len(s) - 1)
             top == s[Len(s)]
         IN  /\ Stacked(t) /\ Below(t, top[1]) /\ 3 * Len(t) <= top[1]
             /\ top[1] \in Int /\ top[2] \in Int
             /\ top[1] <= top[2] /\ top[2] <= qubo_size - 1
             /\ \A x, y \in Int :
                  Inside(s, x, y) <=> Inside(t, x, y) \/ (top[1] <= x /\ y <= top[2])
<1> DEFINE t == SubSeq(s, 1, Len(s) - 1)
           top == s[Len(s)]
<1>1. s \in Seq(Int \X Int) /\ Len(s) \in Nat \ {0} /\ Len(s) \in 1 .. Len(s)
  BY DEF Stacked
<1>2. t \in Seq(Int \X Int) /\ Len(t) = Len(s) - 1
  <2> DEFINE m == Len(s) - 1
  <2>1. /\ m \in Int /\ 0 <= m
        /\ \A k \in 1 .. m : s[k] \in Int \X Int
    BY <1>1
  <2> HIDE DEF m
  <2>2. SubSeq(s, 1, m) \in Seq(Int \X Int) /\ Len(SubSeq(s, 1, m)) = IF 1 <= m THEN m - 1 + 1 ELSE 0
    BY <2>1, SubSeqProperties
  <2>3. SubSeq(s, 1, m) \in Seq(Int \X Int) /\ Len(SubSeq(s, 1, m)) = m
    BY <2>1, <2>2
  <2> QED BY <2>3 DEF m
<1>3. \A k \in 1 .. Len(t) : t[k] = s[k] /\ k \in 1 .. Len(s) /\ k < Len(s)
  BY <1>1, <1>2
<1>4. \A k \in 1 .. Len(s) : k \in 1 .. Len(t) \/ k = Len(s)
  BY <1>1, <1>2
<1>5. top \in Int \X Int
  <2> DEFINE last == Len(s)
  <2> HIDE DEF last
  <2>1. s[last] \in Int \X Int
    BY <1>1 DEF last
  <2> QED BY <2>1 DEF last
<1> HIDE DEF t
<1>6. Stacked(t)
  BY <1>1, <1>2, <1>3 DEF Stacked
<1>7. Below(t, top[1])
  BY <1>1, <1>3 DEF Stacked, Below
<1>8. 3 * (Len(s) - 1) <= top[1] /\ top[1] <= top[2] /\ top[2] <= qubo_size - 1
  BY <1>1 DEF Stacked
<1>9. ASSUME NEW x \in Int, NEW y \in Int
      PROVE  Inside(s, x, y) <=> Inside(t, x, y) \/ (top[1] <= x /\ y <= top[2])
  BY <1>1, <1>3, <1>4 DEF Inside
<1> QED BY <1>2, <1>5, <1>6, <1>7, <1>8, <1>9 DEF t

(* A stack of such stretches fits into n + 1 integers, two for each.       *)
LEMMA StackBounded == ASSUME StackInv PROVE Sort!StackFits
<1>1. CASE stack = <<>>
  BY <1>1 DEF Sort!StackFits
<1>2. CASE stack # <<>>
  <2> DEFINE top == stack[Len(stack)]
  <2>1. Stacked(stack) /\ Len(stack) \in Nat \ {0} /\ Len(stack) \in 1 .. Len(stack)
    BY <1>2 DEF StackInv, Stacked
  <2>2. 3 * (Len(stack) - 1) <= top[1] /\ top[1] <= top[2] /\ top[2] <= qubo_size - 1
    BY <2>1 DEF Stacked
  <2>3. top[1] \in Int /\ top[2] \in Int
    BY <1>2, <2>1, Popped
  <2> HIDE DEF top
  <2>4. 3 * (Len(stack) - 1) <= qubo_size - 1
    BY <2>1, <2>2, <2>3
  <2> QED BY <2>1, <2>4 DEF Sort!StackFits
<1> QED BY <1>1, <1>2

(* The stack begins with one stretch, of all ranks.                        *)
LEMMA StackInit == ASSUME Sort!Init PROVE StackInv
<1>1. stack = <<<<0, qubo_size - 1>>>> /\ sort_pc = "pop" /\ lo = 0 /\ hi = 0 /\ si = -1 /\ sj = 0
  BY DEF Sort!Init
<1> QED BY <1>1 DEF StackInv, Stacked, Below

(* Around the pivot at p = i + 1 both sides are pushed, if they hold two   *)
(* values or more.                                                         *)
LEMMA PlaceStacks ==
  ASSUME StackInv, Sort!Place
  PROVE  /\ Stacked(stack')
         /\ \A x, y \in Int : Inside(stack', x, y) <=>
              \/ Inside(stack, x, y)
              \/ lo < si /\ lo <= x /\ y <= si
              \/ si + 2 < hi /\ si + 2 <= x /\ y <= hi
<1> DEFINE grown == Sort!Push(stack, lo, si)
<1>1. /\ Stacked(stack) /\ Below(stack, lo) /\ 3 * Len(stack) <= lo /\ hi <= qubo_size - 1
      /\ lo - 1 <= si /\ si < hi /\ lo <= hi
      /\ lo \in Int /\ hi \in Int /\ si \in Int /\ si + 2 \in Int /\ Len(stack) \in Nat
  BY DEF StackInv, Sort!Place, Stacked
<1>2. /\ Stacked(grown) /\ Below(grown, si + 2)
      /\ \A x, y \in Int : Inside(grown, x, y) <=> Inside(stack, x, y) \/ (lo < si /\ lo <= x /\ y <= si)
  <2>1. si <= qubo_size - 1 /\ lo <= si + 2 /\ si < si + 2
    BY <1>1
  <2> HIDE DEF grown
  <2> QED BY <1>1, <2>1, Pushed DEF grown
<1>3. 3 * Len(grown) <= si + 2
  <2>1. CASE lo < si
    BY <1>1, <2>1, Pushed
  <2>2. CASE ~(lo < si)
    <3>1. grown = stack
      BY <2>2 DEF Sort!Push
    <3> QED BY <1>1, <3>1
  <2> QED BY <2>1, <2>2
<1>4. stack' = Sort!Push(grown, si + 2, hi)
  BY DEF Sort!Place
<1> HIDE DEF grown
<1>5. /\ Stacked(stack')
      /\ \A x, y \in Int : Inside(stack', x, y) <=> Inside(grown, x, y) \/ (si + 2 < hi /\ si + 2 <= x /\ y <= hi)
  BY <1>1, <1>2, <1>3, <1>4, Pushed
<1> QED BY <1>2, <1>5

(* Every step of the sort keeps the stack so.                              *)
LEMMA StackStep == ASSUME StackInv, [Sort!Next]_Sort!vars PROVE StackInv'
<1>1. CASE Sort!Pop
  <2>1. Stacked(stack) /\ stack # <<>>
    BY <1>1 DEF Sort!Pop, StackInv
  <2>2. /\ Stacked(stack') /\ Below(stack', Sort!Top[1]) /\ 3 * Len(stack') <= Sort!Top[1]
        /\ Sort!Top[1] \in Int /\ Sort!Top[2] \in Int
        /\ Sort!Top[1] <= Sort!Top[2] /\ Sort!Top[2] <= qubo_size - 1
    BY <1>1, <2>1, Popped DEF Sort!Pop, Sort!Rest, Sort!Top
  <2>3. lo' = Sort!Top[1] /\ hi' = Sort!Top[2] /\ si' = Sort!Top[1] - 1 /\ sj' = Sort!Top[1] /\ sort_pc' = "partition"
    BY <1>1 DEF Sort!Pop
  <2>4. lo' - 1 <= si' /\ si' < sj' /\ sj' <= hi' /\ si' \in Int
    BY <2>2, <2>3
  <2> QED BY <2>2, <2>3, <2>4 DEF StackInv
<1>2. CASE Sort!Scan
  <2>1. UNCHANGED <<stack, lo, hi, sort_pc>> /\ sort_pc = "partition" /\ sj < hi /\ sj' = sj + 1
    BY <1>2 DEF Sort!Scan
  <2>2. si' = si + 1 \/ si' = si
    BY <1>2 DEF Sort!Scan
  <2> QED BY <2>1, <2>2 DEF StackInv, Stacked, Below
<1>3. CASE Sort!Place
  <2>1. sort_pc' = "pop" /\ UNCHANGED <<lo, hi, si, sj>>
    BY <1>3 DEF Sort!Place
  <2> QED BY <1>3, <2>1, PlaceStacks DEF StackInv
<1>4. CASE Sort!Return
  BY <1>4 DEF Sort!Return, StackInv, Stacked, Below
<1>5. CASE UNCHANGED Sort!vars
  BY <1>5 DEF Sort!vars, StackInv, Stacked, Below
<1> QED BY <1>1, <1>2, <1>3, <1>4, <1>5 DEF Sort!Next

(* The stack never needs more than the n + 1 integers allocated for it     *)
(* (util.cc:396), however many values there are and whatever their order.  *)
THEOREM StackAlwaysFits == Sort!Spec => []Sort!StackFits
<1>1. Sort!Init => StackInv
  BY StackInit
<1>2. StackInv /\ [Sort!Next]_Sort!vars => StackInv'
  BY StackStep
<1>3. StackInv => Sort!StackFits
  BY StackBounded
<1> QED BY <1>1, <1>2, <1>3, PTL DEF Sort!Spec
------------------------------------------------------------------------------
(* Two ranks that may still have to change places: those of one stretch.   *)
Open(a, b) == Inside(stack, a, b) \/ (sort_pc = "partition" /\ lo <= a /\ b <= hi)

(* All others are in order, and in the stretch being partitioned the       *)
(* values up to i belong on the left of the pivot, those up to j on its    *)
(* right.                                                                  *)
SortInv ==
  /\ StackInv
  /\ flip_cost \in [Sort!Position -> Int] /\ index \in Sort!Orders
  /\ \A a, b \in Sort!Position : a < b => Open(a, b) \/ flip_cost[index[a]] >= flip_cost[index[b]]
  /\ sort_pc = "partition" => /\ \A r \in lo .. si : flip_cost[index[r]] >= flip_cost[index[hi]]
                              /\ \A r \in si + 1 .. sj - 1 : flip_cost[index[r]] < flip_cost[index[hi]]
  /\ sort_pc = "done" => stack = <<>>

(* An exchange leaves an order of all positions.                           *)
LEMMA SwappedOrder ==
  ASSUME NEW f \in Sort!Orders, NEW a \in Sort!Position, NEW b \in Sort!Position
  PROVE  /\ Sort!Swapped(f, a, b) \in Sort!Orders
         /\ Sort!Swapped(f, a, b)[a] = f[b] /\ Sort!Swapped(f, a, b)[b] = f[a]
         /\ \A r \in Sort!Position : r # a /\ r # b => Sort!Swapped(f, a, b)[r] = f[r]
<1> DEFINE g == Sort!Swapped(f, a, b)
<1>1. f \in [Sort!Position -> Sort!Position]
  BY DEF Sort!Orders, Sort!Bijection, Sort!Injection
<1>2. /\ \A x, y \in Sort!Position : f[x] = f[y] => x = y
      /\ \A t \in Sort!Position : \E x \in Sort!Position : f[x] = t
  BY <1>1 DEF Sort!Orders, Sort!Bijection, Sort!Injection, Sort!Surjection, Sort!IsInjective
<1>3. /\ g \in [Sort!Position -> Sort!Position]
      /\ g[a] = f[b] /\ g[b] = f[a]
      /\ \A r \in Sort!Position : r # a /\ r # b => g[r] = f[r]
  BY <1>1 DEF Sort!Swapped
<1> HIDE DEF g
<1>4. \A x, y \in Sort!Position : g[x] = g[y] => x = y
  BY <1>1, <1>2, <1>3
<1>5. \A t \in Sort!Position : \E x \in Sort!Position : g[x] = t
  BY <1>1, <1>2, <1>3
<1>6. g \in Sort!Orders
  BY <1>3, <1>4, <1>5 DEF Sort!Orders, Sort!Bijection, Sort!Injection, Sort!Surjection, Sort!IsInjective
<1> QED BY <1>3, <1>6 DEF g

(* Every value left of the stretch being partitioned is in order with every*)
(* value in it, and so is every value right of it.                         *)
LEMMA Apart ==
  ASSUME SortInv, sort_pc = "partition", NEW a \in Sort!Position, NEW c \in lo .. hi
  PROVE  /\ c \in Sort!Position
         /\ a < lo => flip_cost[index[a]] >= flip_cost[index[c]]
         /\ a > hi => flip_cost[index[c]] >= flip_cost[index[a]]
<1>1. /\ lo \in Int /\ hi \in Int /\ 0 <= lo /\ hi <= qubo_size - 1 /\ Below(stack, lo)
      /\ \A k \in 1 .. Len(stack) : stack[k][1] \in Int /\ stack[k][2] \in Int
  BY DEF SortInv, StackInv, Stacked
<1>2. c \in Sort!Position
  BY <1>1 DEF Sort!Position
<1>3. a \in Int
  BY DEF Sort!Position
<1>4. \A x \in Int : ~Inside(stack, x, c) /\ (a > hi => ~Inside(stack, x, a))
  BY <1>1, <1>3 DEF Inside, Below
<1>5. a < lo => a < c /\ ~Open(a, c)
  BY <1>1, <1>3, <1>4 DEF Open
<1>6. a > hi => c < a /\ ~Open(c, a)
  BY <1>1, <1>3, <1>4 DEF Open
<1> QED BY <1>2, <1>5, <1>6 DEF SortInv

(* An exchange inside the stretch being partitioned leaves the others in   *)
(* order.                                                                  *)
LEMMA SwapInside ==
  ASSUME SortInv, sort_pc = "partition",
         NEW x \in lo .. hi, NEW y \in lo .. hi, index' = Sort!Swapped(index, x, y), flip_cost' = flip_cost
  PROVE  /\ index' \in Sort!Orders
         /\ \A a, b \in Sort!Position :
              a < b /\ ~(lo <= a /\ b <= hi) /\ ~Inside(stack, a, b) => flip_cost[index'[a]] >= flip_cost[index'[b]]
<1>1. /\ lo \in Int /\ hi \in Int /\ 0 <= lo /\ hi <= qubo_size - 1 /\ index \in Sort!Orders
      /\ flip_cost \in [Sort!Position -> Int]
  BY DEF SortInv, StackInv, Stacked
<1>2. x \in Sort!Position /\ y \in Sort!Position
  BY <1>1 DEF Sort!Position
<1>3. /\ index' \in Sort!Orders
      /\ index'[x] = index[y] /\ index'[y] = index[x]
      /\ \A r \in Sort!Position : r # x /\ r # y => index'[r] = index[r]
  <2>1. PICK f \in Sort!Orders : f = index
    BY <1>1
  <2>2. /\ Sort!Swapped(f, x, y) \in Sort!Orders
        /\ Sort!Swapped(f, x, y)[x] = f[y] /\ Sort!Swapped(f, x, y)[y] = f[x]
        /\ \A r \in Sort!Position : r # x /\ r # y => Sort!Swapped(f, x, y)[r] = f[r]
    BY <1>2, SwappedOrder
  <2> QED BY <2>1, <2>2
<1>4. \A r \in Sort!Position : r \in lo .. hi => \E c \in lo .. hi : index'[r] = index[c]
  BY <1>2, <1>3
<1>5. \A r \in Sort!Position : r \notin lo .. hi => index'[r] = index[r]
  BY <1>3
<1>6. ASSUME NEW a \in Sort!Position, NEW b \in Sort!Position, a < b, ~(lo <= a /\ b <= hi), ~Inside(stack, a, b)
      PROVE  flip_cost[index'[a]] >= flip_cost[index'[b]]
  <2>1. a \in Int /\ b \in Int
    BY DEF Sort!Position
  <2>2. CASE a \in lo .. hi
    <3>1. b > hi /\ index'[b] = index[b]
      BY <1>1, <1>5, <1>6, <2>1, <2>2
    <3>2. PICK c \in lo .. hi : index'[a] = index[c]
      BY <1>4, <2>2
    <3> QED BY <3>1, <3>2, Apart
  <2>3. CASE b \in lo .. hi
    <3>1. a < lo /\ index'[a] = index[a]
      BY <1>1, <1>5, <1>6, <2>1, <2>3
    <3>2. PICK c \in lo .. hi : index'[b] = index[c]
      BY <1>4, <2>3
    <3> QED BY <3>1, <3>2, Apart
  <2>4. CASE a \notin lo .. hi /\ b \notin lo .. hi
    <3>1. index'[a] = index[a] /\ index'[b] = index[b]
      BY <1>5, <2>4
    <3>2. ~Open(a, b)
      BY <1>6 DEF Open
    <3> QED BY <1>6, <3>1, <3>2 DEF SortInv
  <2> QED BY <2>2, <2>3, <2>4
<1> QED BY <1>3, <1>6

(* Nothing need be in order while the one stretch is everything.           *)
LEMMA SortInit == ASSUME Sort!Init PROVE SortInv
<1>1. StackInv
  BY StackInit
<1>2. stack = <<<<0, qubo_size - 1>>>> /\ sort_pc = "pop" /\ flip_cost \in [Sort!Position -> Int] /\ index \in Sort!Orders
  BY DEF Sort!Init
<1>3. ASSUME NEW a \in Sort!Position, NEW b \in Sort!Position PROVE Inside(stack, a, b)
  BY <1>2 DEF Inside, Sort!Position
<1> QED BY <1>1, <1>2, <1>3 DEF SortInv, Open

(* A turn of the loop in partition() keeps what is in order.               *)
LEMMA ScanSorts == ASSUME SortInv, Sort!Scan PROVE SortInv'
<1>1. StackInv'
  BY StackStep DEF SortInv, Sort!Next
<1>2. /\ sort_pc = "partition" /\ sort_pc' = "partition" /\ sj < hi /\ sj' = sj + 1
      /\ stack' = stack /\ lo' = lo /\ hi' = hi /\ flip_cost' = flip_cost
  BY DEF Sort!Scan
<1>3. /\ lo \in Int /\ hi \in Int /\ si \in Int /\ sj \in Int
      /\ lo - 1 <= si /\ si < sj /\ lo <= hi /\ 0 <= lo /\ hi <= qubo_size - 1
      /\ flip_cost \in [Sort!Position -> Int] /\ index \in Sort!Orders
      /\ \A r \in lo .. si : flip_cost[index[r]] >= flip_cost[index[hi]]
      /\ \A r \in si + 1 .. sj - 1 : flip_cost[index[r]] < flip_cost[index[hi]]
  BY <1>2 DEF SortInv, StackInv, Stacked
<1>4. \A r \in lo .. hi : r \in Sort!Position
  BY <1>3 DEF Sort!Position
<1>5. index \in [Sort!Position -> Sort!Position]
  BY <1>3 DEF Sort!Orders, Sort!Bijection, Sort!Injection
<1>6. \A a, b \in Sort!Position : Open(a, b)' <=> Inside(stack, a, b) \/ (lo <= a /\ b <= hi)
  BY <1>2 DEF Open, Inside
<1>7. CASE Sort!BelongsLeft(index[sj], index[hi])
  <2>1. si' = si + 1 /\ index' = Sort!Swapped(index, si + 1, sj) /\ flip_cost[index[sj]] >= flip_cost[index[hi]]
    BY <1>7 DEF Sort!Scan, Sort!BelongsLeft
  <2>2. si + 1 \in lo .. hi /\ sj \in lo .. hi /\ hi \in lo .. hi
    BY <1>2, <1>3
  <2>3. /\ index' \in Sort!Orders
        /\ \A a, b \in Sort!Position :
             a < b /\ ~(lo <= a /\ b <= hi) /\ ~Inside(stack, a, b) => flip_cost[index'[a]] >= flip_cost[index'[b]]
    BY <1>2, <2>1, <2>2, SwapInside
  <2>4. /\ index'[si + 1] = index[sj] /\ index'[sj] = index[si + 1]
        /\ \A r \in Sort!Position : r # si + 1 /\ r # sj => index'[r] = index[r]
    <3>1. si + 1 \in Sort!Position /\ sj \in Sort!Position /\ index \in Sort!Orders
      BY <1>3, <1>4, <2>2
    <3>2. index' = Sort!Swapped(index, si + 1, sj)
      BY <2>1
    <3> QED BY <3>1, <3>2, SwappedOrder
  <2>5. index'[hi] = index[hi]
    BY <1>2, <1>3, <1>4, <2>2, <2>4
  <2>6. ASSUME NEW r \in lo' .. si' PROVE flip_cost'[index'[r]] >= flip_cost'[index'[hi']]
    <3>1. CASE r = si + 1
      BY <1>2, <2>1, <2>4, <2>5, <3>1
    <3>2. CASE r # si + 1
      <4>1. r \in lo .. si /\ r \in Sort!Position /\ r # sj
        BY <1>2, <1>3, <1>4, <2>1, <2>2, <3>2
      <4> QED BY <1>2, <1>3, <2>4, <2>5, <3>2, <4>1
    <3> QED BY <3>1, <3>2
  <2>7. ASSUME NEW r \in si' + 1 .. sj' - 1 PROVE flip_cost'[index'[r]] < flip_cost'[index'[hi']]
    <3>1. r \in lo .. hi /\ r \in Sort!Position /\ r # si + 1
      BY <1>2, <1>3, <1>4, <2>1
    <3>2. CASE r = sj
      <4>1. si + 1 \in si + 1 .. sj - 1
        BY <1>2, <1>3, <2>1, <3>1, <3>2
      <4> QED BY <1>2, <1>3, <2>4, <2>5, <3>2, <4>1
    <3>3. CASE r # sj
      <4>1. r \in si + 1 .. sj - 1
        BY <1>2, <1>3, <2>1, <3>3
      <4> QED BY <1>2, <1>3, <2>4, <2>5, <3>1, <3>3, <4>1
    <3> QED BY <3>2, <3>3
  <2> QED BY <1>1, <1>2, <1>3, <1>6, <2>3, <2>6, <2>7 DEF SortInv
<1>8. CASE ~Sort!BelongsLeft(index[sj], index[hi])
  <2>1. si' = si /\ index' = index /\ ~(flip_cost[index[sj]] >= flip_cost[index[hi]])
    BY <1>8 DEF Sort!Scan, Sort!BelongsLeft
  <2>2. flip_cost[index[sj]] < flip_cost[index[hi]]
    <3>1. sj \in Sort!Position /\ hi \in Sort!Position
      BY <1>2, <1>3, <1>4
    <3>2. index[sj] \in Sort!Position /\ index[hi] \in Sort!Position
      BY <1>5, <3>1
    <3>3. flip_cost[index[sj]] \in Int /\ flip_cost[index[hi]] \in Int
      BY <1>3, <3>2
    <3> QED BY <2>1, <3>3
  <2>3. \A r \in si' + 1 .. sj' - 1 : flip_cost[index[r]] < flip_cost[index[hi]]
    BY <1>2, <1>3, <2>1, <2>2
  <2> QED BY <1>1, <1>2, <1>3, <1>6, <2>1, <2>3 DEF SortInv, Open
<1> QED BY <1>7, <1>8

(* The pivot comes to stand between its two sides.                         *)
LEMMA PlaceSorts == ASSUME SortInv, Sort!Place PROVE SortInv'
<1>1. StackInv'
  BY StackStep DEF SortInv, Sort!Next
<1>2. /\ sort_pc = "partition" /\ sort_pc' = "pop" /\ sj >= hi /\ flip_cost' = flip_cost
      /\ index' = Sort!Swapped(index, si + 1, hi)
  BY DEF Sort!Place
<1>3. /\ lo \in Int /\ hi \in Int /\ si \in Int /\ sj = hi
      /\ lo - 1 <= si /\ si < hi /\ lo <= hi /\ 0 <= lo /\ hi <= qubo_size - 1
      /\ flip_cost \in [Sort!Position -> Int] /\ index \in Sort!Orders
      /\ \A r \in lo .. si : flip_cost[index[r]] >= flip_cost[index[hi]]
      /\ \A r \in si + 1 .. hi - 1 : flip_cost[index[r]] < flip_cost[index[hi]]
  BY <1>2 DEF SortInv, StackInv, Stacked
<1>4. \A r \in lo .. hi : r \in Sort!Position
  BY <1>3 DEF Sort!Position
<1>5. si + 1 \in lo .. hi /\ hi \in lo .. hi
  BY <1>3
<1>6. /\ index' \in Sort!Orders
      /\ \A a, b \in Sort!Position :
           a < b /\ ~(lo <= a /\ b <= hi) /\ ~Inside(stack, a, b) => flip_cost[index'[a]] >= flip_cost[index'[b]]
  BY <1>2, <1>5, SwapInside
<1>7. /\ index'[si + 1] = index[hi] /\ index'[hi] = index[si + 1]
      /\ \A r \in Sort!Position : r # si + 1 /\ r # hi => index'[r] = index[r]
  <2>1. si + 1 \in Sort!Position /\ hi \in Sort!Position /\ index \in Sort!Orders
    BY <1>3, <1>4, <1>5
  <2>2. index' = Sort!Swapped(index, si + 1, hi)
    BY <1>2
  <2> QED BY <2>1, <2>2, SwappedOrder
<1>8. \A r \in lo .. si + 1 : flip_cost[index'[r]] >= flip_cost[index[hi]]
  <2> SUFFICES ASSUME NEW r \in lo .. si + 1 PROVE flip_cost[index'[r]] >= flip_cost[index[hi]]
    OBVIOUS
  <2>1. flip_cost[index[hi]] \in Int
    BY <1>3, <1>4, <1>5 DEF Sort!Orders, Sort!Bijection, Sort!Injection
  <2>2. CASE r = si + 1
    BY <1>7, <2>1, <2>2
  <2>3. CASE r # si + 1
    <3>1. r \in lo .. si /\ r \in Sort!Position /\ r # hi
      BY <1>3, <1>4, <2>3
    <3> QED BY <1>3, <1>7, <2>3, <3>1
  <2> QED BY <2>2, <2>3
<1>9. \A r \in si + 2 .. hi : flip_cost[index'[r]] < flip_cost[index[hi]]
  <2> SUFFICES ASSUME NEW r \in si + 2 .. hi PROVE flip_cost[index'[r]] < flip_cost[index[hi]]
    OBVIOUS
  <2>1. CASE r = hi
    <3>1. si + 1 \in si + 1 .. hi - 1
      BY <1>3, <2>1
    <3> QED BY <1>3, <1>7, <2>1, <3>1
  <2>2. CASE r # hi
    <3>1. r \in si + 1 .. hi - 1 /\ r \in Sort!Position /\ r # si + 1
      BY <1>3, <1>4, <2>2
    <3> QED BY <1>3, <1>7, <2>2, <3>1
  <2> QED BY <2>1, <2>2
<1>10. \A a, b \in Sort!Position :
         Open(a, b)' <=> (\/ Inside(stack, a, b)
                          \/ lo < si /\ lo <= a /\ b <= si
                          \/ si + 2 < hi /\ si + 2 <= a /\ b <= hi)
  <2>1. \A a, b \in Sort!Position : a \in Int /\ b \in Int
    BY DEF Sort!Position
  <2>2. \A a, b \in Sort!Position : Open(a, b)' <=> Inside(stack', a, b)
    BY <1>2 DEF Open, Inside
  <2> QED BY <2>1, <2>2, PlaceStacks DEF SortInv
<1>11. ASSUME NEW a \in Sort!Position, NEW b \in Sort!Position, a < b, ~Open(a, b)'
       PROVE  flip_cost[index'[a]] >= flip_cost[index'[b]]
  <2>1. a \in Int /\ b \in Int /\ ~Inside(stack, a, b)
    BY <1>10, <1>11 DEF Sort!Position
  <2>2. CASE ~(lo <= a /\ b <= hi)
    BY <1>6, <1>11, <2>1, <2>2
  <2>3. CASE lo <= a /\ b <= hi
    <3>1. /\ \A r \in Sort!Position : index'[r] \in Sort!Position
          /\ index[hi] \in Sort!Position
      BY <1>3, <1>4, <1>5, <1>6 DEF Sort!Orders, Sort!Bijection, Sort!Injection
    <3>2. flip_cost[index'[a]] \in Int /\ flip_cost[index'[b]] \in Int /\ flip_cost[index[hi]] \in Int
      BY <1>3, <3>1
    <3>3. CASE a <= si + 1 /\ b >= si + 2
      <4>1. a \in lo .. si + 1 /\ b \in si + 2 .. hi
        BY <1>3, <2>1, <2>3, <3>3
      <4> QED BY <1>8, <1>9, <3>2, <4>1
    <3>4. CASE b = si + 1
      <4>1. a \in lo .. si + 1 /\ index'[b] = index[hi]
        BY <1>3, <1>7, <1>11, <2>1, <2>3, <3>4
      <4> QED BY <1>8, <4>1
    <3>5. CASE b <= si \/ a >= si + 2
      BY <1>3, <1>10, <1>11, <2>1, <2>3, <3>5
    <3> QED BY <1>3, <1>11, <2>1, <3>3, <3>4, <3>5
  <2> QED BY <2>2, <2>3
<1> QED BY <1>1, <1>2, <1>3, <1>6, <1>11 DEF SortInv

(* Every step of the sort keeps its invariant.                             *)
LEMMA SortStepKeeps == ASSUME SortInv, [Sort!Next]_Sort!vars PROVE SortInv'
<1>1. StackInv'
  BY StackStep DEF SortInv
<1>2. CASE Sort!Pop
  <2>1. /\ sort_pc = "pop" /\ sort_pc' = "partition" /\ flip_cost' = flip_cost /\ index' = index
        /\ lo' = Sort!Top[1] /\ hi' = Sort!Top[2] /\ si' = Sort!Top[1] - 1 /\ sj' = Sort!Top[1]
        /\ stack # <<>> /\ stack' = Sort!Rest
    BY <1>2 DEF Sort!Pop
  <2>2. /\ Sort!Top[1] \in Int
        /\ \A x, y \in Int :
             Inside(stack, x, y) <=> Inside(stack', x, y) \/ (Sort!Top[1] <= x /\ y <= Sort!Top[2])
    BY <2>1, Popped DEF SortInv, StackInv, Sort!Top, Sort!Rest
  <2>3. \A a, b \in Sort!Position : Open(a, b)' <=> Open(a, b)
    <3>1. \A a, b \in Sort!Position : Open(a, b)' <=> Inside(stack', a, b) \/ (Sort!Top[1] <= a /\ b <= Sort!Top[2])
      BY <2>1 DEF Open, Inside
    <3>2. \A a, b \in Sort!Position : Open(a, b) <=> Inside(stack, a, b)
      BY <2>1 DEF Open
    <3> QED BY <2>2, <3>1, <3>2 DEF Sort!Position
  <2>4. lo' .. si' = {} /\ si' + 1 .. sj' - 1 = {}
    BY <2>1, <2>2
  <2> QED BY <1>1, <2>1, <2>3, <2>4 DEF SortInv
<1>3. CASE Sort!Scan
  BY <1>3, ScanSorts
<1>4. CASE Sort!Place
  BY <1>4, PlaceSorts
<1>5. CASE Sort!Return
  BY <1>1, <1>5 DEF Sort!Return, SortInv, Open, Inside
<1>6. CASE UNCHANGED Sort!vars
  BY <1>1, <1>6 DEF Sort!vars, SortInv, Open, Inside
<1> QED BY <1>2, <1>3, <1>4, <1>5, <1>6 DEF Sort!Next

(* With no stretch left every two ranks are in order.                      *)
LEMMA SortInvSorts == ASSUME SortInv PROVE Sort!SortsDown
<1>1. SUFFICES ASSUME sort_pc = "done" PROVE index \in Sort!Orders /\ Sort!is_index_sorted(flip_cost, index)
  BY DEF Sort!SortsDown
<1>2. \A a, b \in Sort!Position : ~Open(a, b)
  BY <1>1 DEF SortInv, Open, Inside
<1>3. \A a \in Sort!Position : a < a + 1
  BY DEF Sort!Position
<1> QED BY <1>2, <1>3 DEF SortInv, Sort!is_index_sorted

(* The sort returns all positions, from the largest value to the smallest  *)
(* (util.cc:320), for every number of values, all values and every order   *)
(* it begins with.                                                         *)
THEOREM SortCorrect == Sort!Spec => []Sort!SortsDown
<1>1. Sort!Init => SortInv
  BY SortInit
<1>2. SortInv /\ [Sort!Next]_Sort!vars => SortInv'
  BY SortStepKeeps
<1>3. SortInv => Sort!SortsDown
  BY SortInvSorts
<1> QED BY <1>1, <1>2, <1>3, PTL DEF Sort!Spec
------------------------------------------------------------------------------
(* The invariant of a pass, in parts: types; the backbone; what stands     *)
(* before the pass and how far it goes; the window under way and its       *)
(* sub-problem; what the windows taken have changed.                       *)
TypeInv ==
  /\ algo \in {"o", "d", "b"} /\ listed \in Seq(Bits)
  /\ qubo \in [UpperPair -> Int]
  /\ solution \in Bits /\ batch \in Bits /\ before \in Bits /\ entered \in Bits
  /\ Icompress \in [Position -> Var] /\ sub_solution \in Reduce!Sub!Bits
  /\ change \in Nat /\ l \in Nat
  /\ window_pc \in {"reduce", "sample", "project", "done"}

Diff == mul_index_solution_diff(listed, 0)

BackboneInv ==
  /\ BackboneHoldsWindow
  /\ pc = "sort" => algo = "o"
  /\ pc \in {"prime", "search", "backbone"} => algo = "d"
  /\ pc = "search" => solution = solution_population(listed, Bias)
  /\ algo = "d" /\ pc \in {"pass", "done"} => Pcompress = Diff.index /\ len_index = Diff.len

NoSubQubo == [p \in Reduce!Sub!UpperPair |-> 0]

PassInv ==
  /\ pc \notin {"pass", "done"} =>
       l = 0 /\ change = 0 /\ window_pc = "done" /\ sub_qubo = NoSubQubo
  /\ l_max = Pass!PassLength(len_index)
  /\ pc = "done" => window_pc = "done" /\ solution = batch
  /\ len_index \in Nat /\ (l = 0 \/ l >= subMatrix)

WindowInv ==
  /\ window_pc # "done" => before = batch /\ Icompress \in Reduce!Ascending
  /\ window_pc \in {"sample", "project"} => sub_qubo = Reduce!Reduced(qubo, batch, Icompress)
  /\ Reduce!ProjectionExact

Held(I) == {I[k] : k \in Position}
Moved(x) == {i \in Var : x[i] # entered[i]}
IndexUpTo(r) == {index[k] : k \in 0 .. r - 1}

ChangeInv ==
  /\ change >= Cardinality(Moved(batch))
  /\ algo = "o" =>
       /\ change = Cardinality(Moved(batch))
       /\ l <= qubo_size
       /\ window_pc = "done" => Moved(batch) \subseteq IndexUpTo(l)
       /\ window_pc # "done" => /\ l >= subMatrix
                                /\ Moved(batch) \subseteq IndexUpTo(l - subMatrix)
                                /\ Held(Icompress) = {index[l - subMatrix + k] : k \in Position}

PassIInv == SortInv /\ TypeInv /\ BackboneInv /\ PassInv /\ WindowInv /\ ChangeInv

(* What is left of it when the backbone is shorter than a window: nothing  *)
(* is known of the windows, the batch and the solution any more.           *)
ShortInv ==
  /\ SortInv
  /\ algo = "d" /\ pc \in {"pass", "done"} /\ listed \in Seq(Bits)
  /\ Pcompress = Diff.index /\ len_index = Diff.len
  /\ ~BackboneHoldsWindow
------------------------------------------------------------------------------
(* A sub-problem is not larger than the problem.                           *)
LEMMA SmallSize == subMatrix \in Nat \ {0} /\ subMatrix <= qubo_size
BY SubmatrixSearchAssumption

(* The names of ReduceProject for the variables and bits.                  *)
LEMMA SubNames ==
  /\ Reduce!Sub!UpperPair = Small!UpperPair /\ Reduce!Sub!Var = Position /\ Small!Var = Position
  /\ Reduce!SubVar = Position /\ Reduce!Sub!Bits = Small!Bits
  /\ Reduce!Var = Var /\ Reduce!Bits = Bits
BY DEF Reduce!Sub!UpperPair, Small!UpperPair, Reduce!Sub!Var, Small!Var, Reduce!SubVar, Reduce!Sub!Bits, Small!Bits,
   Position, Reduce!Var, Var, Reduce!Bits, Bits

(* Ascending variables are distinct.                                       *)
LEMMA AscendingFacts ==
  ASSUME NEW I \in Reduce!Ascending
  PROVE  /\ I \in [Position -> Var]
         /\ \A a, b \in Position : a < b => I[a] < I[b]
         /\ \A a, b \in Position : I[a] = I[b] => a = b
         /\ \A a, b \in Position : I[a] < I[b] => a < b
<1>1. I \in [Position -> Var] /\ \A a, b \in Position : a < b => I[a] < I[b]
  BY SubNames DEF Reduce!Ascending
<1>2. \A a, b \in Position : a \in Int /\ b \in Int /\ I[a] \in Int /\ I[b] \in Int /\ (a < b \/ b < a \/ a = b)
  BY <1>1, SmallSize DEF Position, Var
<1> QED BY <1>1, <1>2

(* The pointer of a walk down stands at the highest extracted variable that*)
(* is not above the walk.                                                  *)
LEMMA SkipDownSkips ==
  ASSUME NEW I \in Reduce!Ascending, NEW a \in Position, NEW j \in I[a] .. qubo_size - 1
  PROVE  LET k == Reduce!SkipDown(I, I[a])[j] IN k \in Position /\ (I[k] = j <=> j \in Held(I))
<1> DEFINE D == I[a] .. qubo_size - 1
           Highest(i, k) == k \in Position /\ I[k] <= i /\ \A b \in Position : k < b => i < I[b]
           Onward(f, i) == IF i = qubo_size - 1 THEN Reduce!Last
                         ELSE f[i + 1] - IF I[f[i + 1]] = i + 1 THEN 1 ELSE 0
<1>1. /\ I \in [Position -> Var]
      /\ \A c, b \in Position : c < b => I[c] < I[b]
      /\ \A c, b \in Position : I[c] = I[b] => c = b
      /\ \A c, b \in Position : I[c] < I[b] => c < b
  BY AscendingFacts
<1>2. \A k \in Position : k \in Int /\ I[k] \in Int /\ I[k] <= qubo_size - 1
  BY <1>1, SmallSize DEF Position, Var
<1>3. \A i \in D : i \in Int /\ I[a] <= i
  BY <1>2
<1>4. ASSUME NEW i \in D PROVE \E k : Highest(i, k)
  <2> DEFINE S == {k \in Position : I[k] <= i}
  <2>1. IsFiniteSet(S) /\ a \in S /\ \A k \in S : k \in Int
    <3>1. IsFiniteSet(Position)
      BY SmallSize, FS_Interval DEF Position
    <3>2. a \in Position /\ I[a] <= i /\ \A k \in Position : k \in Int
      BY <1>2, <1>3
    <3> QED BY <3>1, <3>2, FS_Subset
  <2>2. PICK m \in S : \A k \in S : k <= m
    BY <2>1, Extremes
  <2> QED BY <1>2, <1>3, <2>1, <2>2
<1>5. \A i \in D : \A k, m : Highest(i, k) /\ Highest(i, m) => k = m
  <2> SUFFICES ASSUME NEW i \in D, NEW k, NEW m, Highest(i, k), Highest(i, m) PROVE k = m
    OBVIOUS
  <2>1. ~(k < m) /\ ~(m < k)
    BY <1>2, <1>3
  <2> QED BY <1>2, <2>1
<1>6. PICK w : w = [i \in D |-> CHOOSE k : Highest(i, k)]
  OBVIOUS
<1>7. \A i \in D : Highest(i, w[i])
  BY <1>4, <1>6
<1>8. ASSUME NEW i \in D, NEW f, i # qubo_size - 1 => Highest(i + 1, f[i + 1])
      PROVE  Highest(i, Onward(f, i))
  <2>1. CASE i = qubo_size - 1
    <3>1. Reduce!Last = subMatrix - 1 /\ Reduce!Last \in Position
      BY SmallSize DEF Reduce!Last, Position
    <3>2. \A b \in Position : ~(Reduce!Last < b)
      BY <3>1, SmallSize DEF Position
    <3> QED BY <1>2, <2>1, <3>1, <3>2
  <2>2. CASE i # qubo_size - 1
    <3>1. PICK k \in Position : k = f[i + 1] /\ Highest(i + 1, k)
      BY <1>8, <2>2
    <3>2. i \in Int /\ k \in Int /\ I[k] \in Int /\ I[k] <= i + 1
      BY <1>2, <1>3, <3>1
    <3>3. CASE I[k] = i + 1
      <4>1. Onward(f, i) = k - 1
        BY <2>2, <3>1, <3>3
      <4>2. a < k
        BY <1>1, <1>2, <1>3, <3>1, <3>2, <3>3
      <4>3. k - 1 \in Position /\ k - 1 < k
        BY <1>2, <3>2, <4>2, SmallSize DEF Position
      <4>4. I[k - 1] < I[k] /\ I[k - 1] \in Int
        BY <1>1, <1>2, <4>3
      <4>5. I[k - 1] <= i
        BY <3>2, <3>3, <4>4
      <4>6. ASSUME NEW b \in Position, k - 1 < b PROVE i < I[b]
        <5>1. b \in Int /\ I[b] \in Int
          BY <1>2
        <5>2. k = b \/ k < b
          BY <3>2, <4>6, <5>1
        <5>3. k < b => i + 1 < I[b]
          BY <3>1
        <5> QED BY <3>2, <3>3, <5>1, <5>2, <5>3
      <4> QED BY <4>1, <4>3, <4>5, <4>6
    <3>4. CASE I[k] # i + 1
      <4>1. Onward(f, i) = k
        BY <2>2, <3>1, <3>2, <3>4
      <4>2. I[k] <= i
        BY <3>2, <3>4
      <4>3. ASSUME NEW b \in Position, k < b PROVE i < I[b]
        <5>1. i + 1 < I[b] /\ I[b] \in Int
          BY <1>2, <3>1, <4>3
        <5> QED BY <3>2, <5>1
      <4> QED BY <4>1, <4>2, <4>3
    <3> QED BY <3>3, <3>4
  <2> QED BY <2>1, <2>2
<1> HIDE DEF Highest
<1>9. \A i \in D : i # qubo_size - 1 => i + 1 \in D
  BY <1>2, <1>3
<1>10. \A i \in D : Highest(i, Onward(w, i))
  BY <1>7, <1>8, <1>9
<1>11. \A i \in D : w[i] = Onward(w, i)
  BY <1>5, <1>7, <1>10
<1>12. w = [i \in D |-> Onward(w, i)]
  BY <1>6, <1>11
<1>13. PICK ji : ji = Reduce!SkipDown(I, I[a])
  OBVIOUS
<1>14. ji = [i \in D |-> Onward(ji, i)]
  <2> HIDE <1>6
  <2> QED BY <1>12, <1>13 DEF Reduce!SkipDown
<1>15. ASSUME NEW i \in D PROVE Highest(i, ji[i])
  <2> DEFINE Bad == {k \in D : ~Highest(k, ji[k])}
  <2> SUFFICES ASSUME Bad # {} PROVE FALSE
    OBVIOUS
  <2>1. IsFiniteSet(Bad) /\ \A k \in Bad : k \in Int
    <3>1. PICK n \in Int : n = I[a]
      BY <1>2
    <3>2. D = n .. qubo_size - 1
      BY <3>1
    <3>3. IsFiniteSet(D)
      BY <3>2, QuboSizeAssumption, FS_Interval
    <3> QED BY <1>3, <3>3, FS_Subset
  <2>2. PICK m \in Bad : \A k \in Bad : k <= m
    BY <2>1, Extremes
  <2>3. m \in Int /\ m \in D /\ m + 1 \notin Bad
    BY <2>1, <2>2
  <2>4. m # qubo_size - 1 => Highest(m + 1, ji[m + 1])
    BY <1>9, <2>3
  <2>5. ji[m] = Onward(ji, m)
    BY <1>14, <2>3
  <2> QED BY <1>8, <2>2, <2>3, <2>4, <2>5
<1>16. PICK k : k = ji[j] /\ Highest(j, k)
  BY <1>15
<1>17. k \in Position /\ I[k] <= j /\ \A b \in Position : k < b => j < I[b]
  BY <1>16 DEF Highest
<1>18. ASSUME NEW b \in Position, I[b] = j PROVE I[k] = j
  <2>2. b <= k
    BY <1>2, <1>17, <1>18
  <2>3. I[k] < I[b] => k < b
    BY <1>1, <1>17
  <2> QED BY <1>2, <1>3, <1>17, <1>18, <2>2, <2>3
<1> QED BY <1>13, <1>16, <1>17, <1>18 DEF Held

(* The pointer of the walk up stands at the lowest extracted variable that *)
(* is not below the walk.                                                  *)
LEMMA SkipUpSkips ==
  ASSUME NEW I \in Reduce!Ascending, NEW a \in Position, NEW j \in 0 .. I[a]
  PROVE  LET k == Reduce!SkipUp(I, I[a])[j] IN k \in Position /\ (I[k] = j <=> j \in Held(I))
<1> DEFINE D == 0 .. I[a]
           Lowest(i, k) == k \in Position /\ i <= I[k] /\ \A b \in Position : b < k => I[b] < i
           Onward(f, i) == IF i = 0 THEN 0 ELSE f[i - 1] + IF I[f[i - 1]] = i - 1 THEN 1 ELSE 0
<1>1. /\ I \in [Position -> Var]
      /\ \A c, b \in Position : c < b => I[c] < I[b]
      /\ \A c, b \in Position : I[c] = I[b] => c = b
      /\ \A c, b \in Position : I[c] < I[b] => c < b
  BY AscendingFacts
<1>2. \A k \in Position : k \in Int /\ I[k] \in Int /\ 0 <= I[k]
  BY <1>1, SmallSize DEF Position, Var
<1>3. \A i \in D : i \in Int /\ 0 <= i /\ i <= I[a]
  BY <1>2
<1>4. ASSUME NEW i \in D PROVE \E k : Lowest(i, k)
  <2> DEFINE S == {k \in Position : i <= I[k]}
  <2>1. IsFiniteSet(S) /\ a \in S /\ \A k \in S : k \in Int
    <3>1. IsFiniteSet(Position)
      BY SmallSize, FS_Interval DEF Position
    <3>2. a \in Position /\ i <= I[a] /\ \A k \in Position : k \in Int
      BY <1>2, <1>3
    <3> QED BY <3>1, <3>2, FS_Subset
  <2>2. PICK m \in S : \A k \in S : m <= k
    BY <2>1, Extremes
  <2> QED BY <1>2, <1>3, <2>1, <2>2
<1>5. \A i \in D : \A k, m : Lowest(i, k) /\ Lowest(i, m) => k = m
  <2> SUFFICES ASSUME NEW i \in D, NEW k, NEW m, Lowest(i, k), Lowest(i, m) PROVE k = m
    OBVIOUS
  <2>1. ~(k < m) /\ ~(m < k)
    BY <1>2, <1>3
  <2> QED BY <1>2, <2>1
<1>6. PICK w : w = [i \in D |-> CHOOSE k : Lowest(i, k)]
  OBVIOUS
<1>7. \A i \in D : Lowest(i, w[i])
  BY <1>4, <1>6
<1>8. ASSUME NEW i \in D, NEW f, i # 0 => Lowest(i - 1, f[i - 1])
      PROVE  Lowest(i, Onward(f, i))
  <2>1. CASE i = 0
    <3>1. 0 \in Position
      BY SmallSize DEF Position
    <3>2. \A b \in Position : ~(b < 0)
      BY DEF Position
    <3> QED BY <1>2, <2>1, <3>1, <3>2
  <2>2. CASE i # 0
    <3>1. PICK k \in Position : k = f[i - 1] /\ Lowest(i - 1, k)
      BY <1>8, <2>2
    <3>2. i \in Int /\ k \in Int /\ I[k] \in Int /\ i - 1 <= I[k]
      BY <1>2, <1>3, <3>1
    <3>3. CASE I[k] = i - 1
      <4>1. Onward(f, i) = k + 1
        BY <2>2, <3>1, <3>3
      <4>2. k < a
        BY <1>1, <1>2, <1>3, <3>1, <3>2, <3>3
      <4>3. k + 1 \in Position /\ k < k + 1
        BY <1>2, <3>2, <4>2, SmallSize DEF Position
      <4>4. I[k] < I[k + 1] /\ I[k + 1] \in Int
        BY <1>1, <1>2, <4>3
      <4>5. i <= I[k + 1]
        BY <3>2, <3>3, <4>4
      <4>6. ASSUME NEW b \in Position, b < k + 1 PROVE I[b] < i
        <5>1. b \in Int /\ I[b] \in Int
          BY <1>2
        <5>2. k = b \/ b < k
          BY <3>2, <4>6, <5>1
        <5>3. b < k => I[b] < i - 1
          BY <3>1
        <5> QED BY <3>2, <3>3, <5>1, <5>2, <5>3
      <4> QED BY <4>1, <4>3, <4>5, <4>6
    <3>4. CASE I[k] # i - 1
      <4>1. Onward(f, i) = k
        BY <2>2, <3>1, <3>2, <3>4
      <4>2. i <= I[k]
        BY <3>2, <3>4
      <4>3. ASSUME NEW b \in Position, b < k PROVE I[b] < i
        <5>1. I[b] < i - 1 /\ I[b] \in Int
          BY <1>2, <3>1, <4>3
        <5> QED BY <3>2, <5>1
      <4> QED BY <4>1, <4>2, <4>3
    <3> QED BY <3>3, <3>4
  <2> QED BY <2>1, <2>2
<1> HIDE DEF Lowest
<1>9. \A i \in D : i # 0 => i - 1 \in D
  BY <1>2, <1>3
<1>10. \A i \in D : Lowest(i, Onward(w, i))
  BY <1>7, <1>8, <1>9
<1>11. \A i \in D : w[i] = Onward(w, i)
  BY <1>5, <1>7, <1>10
<1>12. w = [i \in D |-> Onward(w, i)]
  BY <1>6, <1>11
<1>13. PICK ji : ji = Reduce!SkipUp(I, I[a])
  OBVIOUS
<1>14. ji = [i \in D |-> Onward(ji, i)]
  <2> HIDE <1>6
  <2> QED BY <1>12, <1>13 DEF Reduce!SkipUp
<1>15. ASSUME NEW i \in D PROVE Lowest(i, ji[i])
  <2> DEFINE Bad == {k \in D : ~Lowest(k, ji[k])}
  <2> SUFFICES ASSUME Bad # {} PROVE FALSE
    OBVIOUS
  <2>1. IsFiniteSet(Bad) /\ \A k \in Bad : k \in Int
    <3>1. PICK n \in Int : n = I[a]
      BY <1>2
    <3>2. D = 0 .. n
      BY <3>1
    <3>3. IsFiniteSet(D)
      BY <3>2, FS_Interval
    <3> QED BY <1>3, <3>3, FS_Subset
  <2>2. PICK m \in Bad : \A k \in Bad : m <= k
    BY <2>1, Extremes
  <2>3. m \in Int /\ m \in D /\ m - 1 \notin Bad
    BY <2>1, <2>2
  <2>4. m # 0 => Lowest(m - 1, ji[m - 1])
    BY <1>9, <2>3
  <2>5. ji[m] = Onward(ji, m)
    BY <1>14, <2>3
  <2> QED BY <1>8, <2>2, <2>3, <2>4, <2>5
<1>16. PICK k : k = ji[j] /\ Lowest(j, k)
  BY <1>15
<1>17. k \in Position /\ j <= I[k] /\ \A b \in Position : b < k => I[b] < j
  BY <1>16 DEF Lowest
<1>18. ASSUME NEW b \in Position, I[b] = j PROVE I[k] = j
  <2>2. k <= b
    BY <1>2, <1>17, <1>18
  <2>3. I[b] < I[k] => b < k
    BY <1>1, <1>17
  <2> QED BY <1>2, <1>3, <1>17, <1>18, <2>2, <2>3
<1> QED BY <1>13, <1>16, <1>17, <1>18 DEF Held

(* The sums of a module and of its instances are the same.                 *)
LEMMA SumNames ==
  /\ \A f : Reduce!SumFunction(f) = SumFunctionOnSet(f, DOMAIN f)
  /\ \A f, S : Small!SumFunctionOnSet(f, S) = SumFunctionOnSet(f, S)
<1>1. \A f : Reduce!SumFunction(f) = SumFunctionOnSet(f, DOMAIN f)
  BY DEF SumFunctionOnSet, FoldFunctionOnSet, MapThenFoldSet,
         Reduce!SumFunction, Reduce!SumFunctionOnSet, Reduce!FoldFunctionOnSet, Reduce!MapThenFoldSet
<1>2. \A f, S : Small!SumFunctionOnSet(f, S) = SumFunctionOnSet(f, S)
  BY DEF SumFunctionOnSet, FoldFunctionOnSet, MapThenFoldSet,
         Small!SumFunctionOnSet, Small!FoldFunctionOnSet, Small!MapThenFoldSet
<1> QED BY <1>1, <1>2

(* The objectives of a module and of its instances are the same.           *)
LEMMA ObjectiveNames ==
  ASSUME NEW q, NEW x
  PROVE  Reduce!Objective(q, x) = Objective(q, x) /\ Reduce!Sub!Objective(q, x) = Small!Objective(q, x)
<1>1. Reduce!Objective(q, x) = Objective(q, x)
  <2>1. Reduce!Terms(q, x) = Terms(q, x)
    BY DEF Reduce!Terms, Terms, Reduce!UpperPair, UpperPair, Reduce!Var, Var
  <2> QED BY <2>1, SumNames DEF Reduce!Objective, Objective, SumFunction
<1>2. Reduce!Sub!Objective(q, x) = Small!Objective(q, x)
  BY DEF Reduce!Sub!Objective, Small!Objective, Reduce!Sub!Terms, Small!Terms,
         Reduce!Sub!UpperPair, Small!UpperPair, Reduce!Sub!Var, Small!Var,
         Reduce!Sub!SumFunction, Reduce!Sub!SumFunctionOnSet, Reduce!Sub!FoldFunctionOnSet, Reduce!Sub!MapThenFoldSet,
         Small!SumFunction, Small!SumFunctionOnSet, Small!FoldFunctionOnSet, Small!MapThenFoldSet
<1> QED BY <1>1, <1>2

(* The fixed variables to the right of the diagonal of a row, and above it *)
(* in a column.                                                            *)
RowFixed(q, x, I, v) == [j \in v + 1 .. qubo_size - 1 |-> IF j \in Held(I) THEN 0 ELSE q[<<v, j>>] * x[j]]
ColFixed(q, x, I, v) == [j \in 0 .. v - 1 |-> IF j \in Held(I) THEN 0 ELSE q[<<j, v>>] * x[j]]

(* Their entries are integers.                                             *)
LEMMA FixedEntries ==
  ASSUME NEW q \in [UpperPair -> Int], NEW x \in Bits, NEW I \in Reduce!Ascending, NEW v \in Var
  PROVE  /\ \A j \in v + 1 .. qubo_size - 1 :
              /\ RowFixed(q, x, I, v)[j] = (IF j \in Held(I) THEN 0 ELSE q[<<v, j>>] * x[j])
              /\ RowFixed(q, x, I, v)[j] \in Int
         /\ \A j \in 0 .. v - 1 :
              /\ ColFixed(q, x, I, v)[j] = (IF j \in Held(I) THEN 0 ELSE q[<<j, v>>] * x[j])
              /\ ColFixed(q, x, I, v)[j] \in Int
<1>1. \A j \in Var : x[j] \in {0, 1}
  BY DEF Bits
<1>2. ASSUME NEW j \in v + 1 .. qubo_size - 1
      PROVE  /\ RowFixed(q, x, I, v)[j] = (IF j \in Held(I) THEN 0 ELSE q[<<v, j>>] * x[j])
             /\ RowFixed(q, x, I, v)[j] \in Int
  <2>1. PICK m \in Int : m = q[<<v, j>>]
    BY RowEntry
  <2>2. x[j] \in {0, 1}
    BY <1>1, RowEntry
  <2> QED BY <2>1, <2>2 DEF RowFixed
<1>3. ASSUME NEW j \in 0 .. v - 1
      PROVE  /\ ColFixed(q, x, I, v)[j] = (IF j \in Held(I) THEN 0 ELSE q[<<j, v>>] * x[j])
             /\ ColFixed(q, x, I, v)[j] \in Int
  <2>1. PICK m \in Int : m = q[<<j, v>>]
    BY ColEntry
  <2>2. x[j] \in {0, 1}
    BY <1>1, ColEntry
  <2> QED BY <2>1, <2>2 DEF ColFixed
<1> QED BY <1>2, <1>3

(* The two walks of reduce() find exactly the fixed variables that are     *)
(* coupled to the extracted one (solver.cc:445-468).                       *)
THEOREM ClampExact ==
  ASSUME NEW q \in [UpperPair -> Int], NEW x \in Bits, NEW I \in Reduce!Ascending, NEW a \in Position
  PROVE  /\ Reduce!ClampFromTop(q, x, I, I[a]) =
              SumFunctionOnSet(RowFixed(q, x, I, I[a]), I[a] + 1 .. qubo_size - 1)
         /\ Reduce!ClampFromBottom(q, x, I, I[a]) =
              SumFunctionOnSet(ColFixed(q, x, I, I[a]), 0 .. I[a] - 1)
         /\ Reduce!ClampFromTop(q, x, I, I[a]) \in Int /\ Reduce!ClampFromBottom(q, x, I, I[a]) \in Int
<1>1. PICK v \in Var : v = I[a]
  BY AscendingFacts
<1>2. v \in Int /\ v \in Held(I)
  BY <1>1 DEF Var, Held
<1> DEFINE right == v + 1 .. qubo_size - 1
           up    == 0 .. v - 1
<1>3. IsFiniteSet(right) /\ IsFiniteSet(up) /\ IsFiniteSet(0 .. v)
  BY <1>2, FS_Interval
<1>4. Reduce!ClampFromTop(q, x, I, v) = SumFunctionOnSet(RowFixed(q, x, I, v), right)
  <2>1. PICK down : down = Reduce!SkipDown(I, v)
    OBVIOUS
  <2>2. \A j \in right : I[down[j]] = j <=> j \in Held(I)
    <3>1. \A j \in right : j \in I[a] .. qubo_size - 1
      BY <1>1, <1>2
    <3> QED BY <1>1, <2>1, <3>1, SkipDownSkips
  <2>3. PICK f : f = [j \in right |-> IF I[down[j]] = j THEN 0 ELSE q[<<v, j>>] * x[j]]
    OBVIOUS
  <2>4. Reduce!ClampFromTop(q, x, I, v) = SumFunctionOnSet(f, right)
    <3>1. Reduce!ClampFromTop(q, x, I, v) = Reduce!SumFunction(f)
      BY <2>1, <2>3 DEF Reduce!ClampFromTop
    <3> QED BY <2>3, <3>1, SumNames
  <2>5. \A j \in right : f[j] = RowFixed(q, x, I, v)[j]
    BY <2>2, <2>3, FixedEntries
  <2> QED BY <1>3, <2>4, <2>5, SumEqual
<1>5. Reduce!ClampFromBottom(q, x, I, v) = SumFunctionOnSet(ColFixed(q, x, I, v), up)
  <2>1. PICK ji : ji = Reduce!SkipUp(I, v)
    OBVIOUS
  <2>2. \A j \in 0 .. v : I[ji[j]] = j <=> j \in Held(I)
    BY <1>1, <2>1, SkipUpSkips
  <2>3. PICK f : f = [j \in 0 .. v |-> IF I[ji[j]] = j THEN 0 ELSE q[<<j, v>>] * x[j]]
    OBVIOUS
  <2>4. Reduce!ClampFromBottom(q, x, I, v) = SumFunctionOnSet(f, 0 .. v)
    <3>1. Reduce!ClampFromBottom(q, x, I, v) = Reduce!SumFunction(f)
      BY <2>1, <2>3 DEF Reduce!ClampFromBottom
    <3> QED BY <2>3, <3>1, SumNames
  <2>5. \A j \in up : j \in 0 .. v /\ f[j] = ColFixed(q, x, I, v)[j] /\ f[j] \in Int
    <3>1. \A j \in up : j \in 0 .. v
      BY <1>2
    <3> QED BY <2>2, <2>3, <3>1, FixedEntries
  <2>6. f[v] = 0 /\ \A j \in 0 .. v : j \in up \/ j = v
    <3>1. v \in 0 .. v
      BY DEF Var
    <3> QED BY <1>2, <2>2, <2>3, <3>1
  <2>7. SumFunctionOnSet(f, 0 .. v) = SumFunctionOnSet(f, up)
    <3>1. /\ up \in SUBSET (0 .. v)
          /\ \A j \in 0 .. v : f[j] \in Int
          /\ \A j \in (0 .. v) \ up : f[j] = 0
      BY <2>5, <2>6
    <3> QED BY <1>3, <3>1, SumSupport
  <2>8. SumFunctionOnSet(f, up) = SumFunctionOnSet(ColFixed(q, x, I, v), up)
    BY <1>3, <2>5, SumEqual
  <2> QED BY <2>4, <2>7, <2>8
<1>6. SumFunctionOnSet(RowFixed(q, x, I, v), right) \in Int /\ SumFunctionOnSet(ColFixed(q, x, I, v), up) \in Int
  <2>1. \A j \in right : RowFixed(q, x, I, v)[j] \in Int
    BY FixedEntries
  <2>2. \A j \in up : ColFixed(q, x, I, v)[j] \in Int
    BY FixedEntries
  <2> QED BY <1>3, <2>1, <2>2, SumInt
<1> QED BY <1>1, <1>4, <1>5, <1>6

(* The sub-QUBO: the couplers of the extracted variables, and on the       *)
(* diagonal what the fixed ones add.                                       *)
LEMMA ReducedEntries ==
  ASSUME NEW q \in [UpperPair -> Int], NEW x \in Bits, NEW I \in Reduce!Ascending, NEW sq, sq = Reduce!Reduced(q, x, I)
  PROVE  /\ sq \in [Small!UpperPair -> Int]
         /\ \A a, b \in Position : a < b => sq[<<a, b>>] = q[<<I[a], I[b]>>]
         /\ \A a \in Position :
              /\ sq[<<a, a>>] = q[<<I[a], I[a]>>] + Reduce!ClampFromTop(q, x, I, I[a])
                                                  + Reduce!ClampFromBottom(q, x, I, I[a])
              /\ q[<<I[a], I[a]>>] \in Int
<1>1. /\ I \in [Position -> Var]
      /\ \A a, b \in Position : a < b => I[a] < I[b]
  BY AscendingFacts
<1>2. sq = [p \in Small!UpperPair |->
              q[<<I[p[1]], I[p[2]]>>] + IF p[1] = p[2] THEN Reduce!Clamp(q, x, I, I[p[1]]) ELSE 0]
  <2>1. sq = [p \in Small!UpperPair |->
                Reduce!Entry(q, I[p[1]], I[p[2]]) + IF p[1] = p[2] THEN Reduce!Clamp(q, x, I, I[p[1]]) ELSE 0]
    BY SubNames DEF Reduce!Reduced
  <2>2. ASSUME NEW p \in Small!UpperPair PROVE Reduce!Entry(q, I[p[1]], I[p[2]]) = q[<<I[p[1]], I[p[2]]>>]
    <3>1. p[1] \in Position /\ p[2] \in Position /\ (p[1] < p[2] \/ p[1] = p[2])
      BY SubNames DEF Small!UpperPair, Position
    <3>2. I[p[1]] \in Int /\ I[p[2]] \in Int /\ I[p[1]] <= I[p[2]]
      BY <1>1, <3>1 DEF Var
    <3> QED BY <3>2 DEF Reduce!Entry
  <2> QED BY <2>1, <2>2
<1>3. ASSUME NEW a \in Position, NEW b \in Position, a < b
      PROVE  <<a, b>> \in Small!UpperPair /\ q[<<I[a], I[b]>>] \in Int /\ sq[<<a, b>>] = q[<<I[a], I[b]>>]
  <2>1. <<a, b>> \in Small!UpperPair /\ a # b
    BY <1>3, SubNames DEF Small!UpperPair, Position
  <2>2. <<I[a], I[b]>> \in UpperPair
    BY <1>1, <1>3 DEF UpperPair, Var
  <2>3. PICK m \in Int : m = q[<<I[a], I[b]>>]
    BY <2>2
  <2> QED BY <1>2, <2>1, <2>3
<1>4. ASSUME NEW a \in Position
      PROVE  /\ <<a, a>> \in Small!UpperPair /\ q[<<I[a], I[a]>>] \in Int
             /\ sq[<<a, a>>] = q[<<I[a], I[a]>>] + Reduce!ClampFromTop(q, x, I, I[a])
                                                 + Reduce!ClampFromBottom(q, x, I, I[a])
             /\ sq[<<a, a>>] \in Int
  <2>1. <<a, a>> \in Small!UpperPair
    BY SubNames DEF Small!UpperPair, Position
  <2>2. <<I[a], I[a]>> \in UpperPair
    BY <1>1 DEF UpperPair, Var
  <2>3. PICK m \in Int : m = q[<<I[a], I[a]>>]
    BY <2>2
  <2>4. PICK t \in Int, u \in Int :
          t = Reduce!ClampFromTop(q, x, I, I[a]) /\ u = Reduce!ClampFromBottom(q, x, I, I[a])
    BY ClampExact
  <2>5. Reduce!Clamp(q, x, I, I[a]) = t + u
    BY <2>4 DEF Reduce!Clamp
  <2>6. sq[<<a, a>>] = m + (t + u)
    BY <1>2, <2>1, <2>3, <2>5
  <2> QED BY <2>1, <2>3, <2>4, <2>6
<1>5. ASSUME NEW p \in Small!UpperPair PROVE sq[p] \in Int
  <2>1. p = <<p[1], p[2]>> /\ p[1] \in Position /\ p[2] \in Position /\ (p[1] < p[2] \/ p[1] = p[2])
    BY SubNames DEF Small!UpperPair, Position
  <2>2. PICK a \in Position, b \in Position : p = <<a, b>> /\ (a < b \/ a = b)
    BY <2>1
  <2>3. CASE a < b
    <3>1. q[<<I[a], I[b]>>] \in Int /\ sq[<<a, b>>] = q[<<I[a], I[b]>>]
      BY <1>3, <2>3
    <3> QED BY <2>2, <3>1
  <2>4. CASE a = b
    <3>1. sq[<<a, a>>] \in Int
      BY <1>4
    <3> QED BY <2>2, <2>4, <3>1
  <2> QED BY <2>2, <2>3, <2>4
<1>6. sq \in [Small!UpperPair -> Int]
  BY <1>2, <1>5
<1> QED BY <1>3, <1>4, <1>6

(* What a bit is after some of the window is written back.                 *)
LEMMA WrittenNever ==
  ASSUME NEW x, NEW I, NEW s, NEW n, NEW i \in Var, \A j \in Position : ~(j < n /\ I[j] = i)
  PROVE  Reduce!Written(x, I, s, n)[i] = x[i]
<1>1. {j \in Reduce!SubVar : j < n /\ I[j] = i} = {}
  BY SubNames
<1> QED BY <1>1, SubNames DEF Reduce!Written

LEMMA WrittenOnce ==
  ASSUME NEW x, NEW I, NEW s, NEW n, NEW i \in Var, NEW k \in Position, k < n, I[k] = i,
         \A j \in Position : I[j] = i => j = k
  PROVE  Reduce!Written(x, I, s, n)[i] = s[k]
<1>1. {j \in Reduce!SubVar : j < n /\ I[j] = i} = {k}
  BY SubNames
<1>2. k <= k
  BY DEF Position
<1>3. (CHOOSE j \in {k} : \A h \in {k} : h <= j) = k
  BY <1>2
<1> QED BY <1>1, <1>3, SubNames DEF Reduce!Written

(* A projection writes the window and nothing else.                        *)
LEMMA ProjectedFacts ==
  ASSUME NEW x \in Bits, NEW I \in Reduce!Ascending, NEW s \in Small!Bits
  PROVE  /\ Reduce!Projected(x, I, s) \in Bits
         /\ \A k \in Position : Reduce!Projected(x, I, s)[I[k]] = s[k] /\ s[k] \in {0, 1}
         /\ \A j \in Var : j \notin Held(I) => Reduce!Projected(x, I, s)[j] = x[j]
<1>1. /\ I \in [Position -> Var]
      /\ \A a, b \in Position : I[a] = I[b] => a = b
  BY AscendingFacts
<1>2. PICK y : y = Reduce!Projected(x, I, s)
  OBVIOUS
<1>3. y = Reduce!Written(x, I, s, subMatrix) /\ y = [i \in Var |-> y[i]]
  BY <1>2, SubNames DEF Reduce!Projected, Reduce!Written
<1>4. \A k \in Position : s[k] \in {0, 1}
  BY SubNames DEF Small!Bits
<1>5. ASSUME NEW k \in Position PROVE y[I[k]] = s[k]
  <2>1. I[k] \in Var /\ k < subMatrix /\ k <= k /\ \A j \in Position : I[j] = I[k] => j = k
    BY <1>1, SmallSize DEF Position
  <2> QED BY <1>3, <2>1, WrittenOnce
<1>6. ASSUME NEW j \in Var, j \notin Held(I) PROVE y[j] = x[j]
  <2>1. \A k \in Position : ~(k < subMatrix /\ I[k] = j)
    BY <1>6 DEF Held
  <2> QED BY <1>3, <2>1, WrittenNever
<1>7. \A j \in Var : y[j] \in {0, 1}
  BY <1>1, <1>4, <1>5, <1>6 DEF Held, Bits
<1>8. y \in Bits
  BY <1>3, <1>7 DEF Bits
<1> QED BY <1>2, <1>4, <1>5, <1>6, <1>8

(* Writing back one by one counts each bit that differs.                   *)
LEMMA ChangesFacts ==
  ASSUME batch \in Bits, NEW I \in Reduce!Ascending, NEW s \in Small!Bits
  PROVE  Reduce!Changes(I, s) = Cardinality({k \in Position : batch[I[k]] # s[k]})
<1>1. /\ I \in [Position -> Var]
      /\ \A a, b \in Position : I[a] = I[b] => a = b
  BY AscendingFacts
<1>2. ASSUME NEW k \in Position PROVE Reduce!Written(batch, I, s, k)[I[k]] = batch[I[k]]
  <2>1. I[k] \in Var /\ \A j \in Position : ~(j < k /\ I[j] = I[k])
    BY <1>1 DEF Position
  <2> QED BY <2>1, WrittenNever
<1>3. {j \in Reduce!SubVar : Reduce!Written(batch, I, s, j)[I[j]] # s[j]} = {k \in Position : batch[I[k]] # s[k]}
  BY <1>2, SubNames
<1> QED BY <1>3 DEF Reduce!Changes, Reduce!Cardinality, Cardinality

(* The row of an extracted variable in the whole QUBO is its row in the    *)
(* sub-QUBO and what the fixed variables add.                              *)
LEMMA RowSplit ==
  ASSUME NEW q \in [UpperPair -> Int], NEW x \in Bits, NEW I \in Reduce!Ascending, NEW s \in Small!Bits,
         NEW a \in Position, NEW y, y = Reduce!Projected(x, I, s), NEW sq, sq = Reduce!Reduced(q, x, I)
  PROVE  RowSum(q, y, I[a]) = Small!RowSum(sq, s, a) + Reduce!ClampFromTop(q, x, I, I[a])
<1>1. /\ I \in [Position -> Var]
      /\ \A c, b \in Position : c < b => I[c] < I[b]
      /\ \A c, b \in Position : I[c] = I[b] => c = b
      /\ \A c, b \in Position : I[c] < I[b] => c < b
  BY AscendingFacts
<1>2. /\ y \in Bits
      /\ \A k \in Position : y[I[k]] = s[k] /\ s[k] \in {0, 1}
      /\ \A j \in Var : j \notin Held(I) => y[j] = x[j]
  BY ProjectedFacts
<1>3. /\ sq \in [Small!UpperPair -> Int]
      /\ \A c, b \in Position : c < b => sq[<<c, b>>] = q[<<I[c], I[b]>>]
  BY ReducedEntries
<1>4. PICK v \in Var : v = I[a]
  BY <1>1
<1>5. PICK right : right = v + 1 .. qubo_size - 1
  OBVIOUS
<1>6. PICK rest : rest = a + 1 .. subMatrix - 1
  OBVIOUS
<1>7. v \in Int /\ a \in Int /\ IsFiniteSet(right) /\ IsFiniteSet(rest) /\ (\A k \in rest : k \in Position /\ a < k)
  <2>1. v \in Int /\ a \in Int /\ (\A k \in rest : k \in Position /\ a < k)
    BY <1>6, SmallSize DEF Var, Position
  <2> QED BY <1>5, <1>6, <2>1, FS_Interval, SmallSize
<1>8. PICK f : f = InRow(q, y, v)
  OBVIOUS
<1>9. PICK fx : fx = RowFixed(q, x, I, v)
  OBVIOUS
<1>10. \A j \in right : /\ j \in Var /\ q[<<v, j>>] \in Int
                        /\ f[j] = (IF y[j] = 1 THEN q[<<v, j>>] ELSE 0) /\ f[j] \in Int
                        /\ fx[j] = (IF j \in Held(I) THEN 0 ELSE q[<<v, j>>] * x[j]) /\ fx[j] \in Int
  <2>1. \A j \in right : /\ j \in Var /\ q[<<v, j>>] \in Int
                         /\ f[j] = (IF y[j] = 1 THEN q[<<v, j>>] ELSE 0) /\ f[j] \in Int
    BY <1>5, <1>8, RowEntry
  <2> QED BY <1>5, <1>9, <2>1, FixedEntries
<1>11. PICK g : g = [j \in right |-> IF j \in Held(I) THEN f[j] ELSE 0]
  OBVIOUS
<1>12. \A j \in right : fx[j] \in Int /\ g[j] \in Int /\ f[j] = fx[j] + g[j]
  <2> SUFFICES ASSUME NEW j \in right PROVE fx[j] \in Int /\ g[j] \in Int /\ f[j] = fx[j] + g[j]
    OBVIOUS
  <2>1. CASE j \in Held(I)
    <3>1. PICK m \in Int : m = f[j]
      BY <1>10
    <3>2. fx[j] = 0 /\ g[j] = m
      BY <1>10, <1>11, <2>1, <3>1
    <3> QED BY <3>1, <3>2
  <2>2. CASE j \notin Held(I)
    <3>1. PICK m \in Int : m = q[<<v, j>>]
      BY <1>10
    <3>2. y[j] = x[j] /\ x[j] \in {0, 1} /\ g[j] = 0
      BY <1>2, <1>10, <1>11, <2>2 DEF Bits
    <3>3. f[j] = (IF x[j] = 1 THEN m ELSE 0) /\ fx[j] = m * x[j]
      BY <1>10, <2>2, <3>1, <3>2
    <3>4. f[j] = m * x[j] /\ m * x[j] \in Int
      BY <3>2, <3>3
    <3> QED BY <3>2, <3>3, <3>4
  <2> QED BY <2>1, <2>2
<1>13. SumFunctionOnSet(f, right) = SumFunctionOnSet(fx, right) + SumFunctionOnSet(g, right)
  BY <1>7, <1>12, SumAdd
<1>14. PICK L : L = {j \in right : j \in Held(I)}
  OBVIOUS
<1>15. SumFunctionOnSet(g, right) = SumFunctionOnSet(g, L)
  <2>1. L \in SUBSET right /\ (\A j \in right : g[j] \in Int) /\ \A j \in right \ L : g[j] = 0
    BY <1>11, <1>12, <1>14
  <2> QED BY <1>7, <2>1, SumSupport
<1>16. PICK r : r = Small!InRow(sq, s, a)
  OBVIOUS
<1>17. \A k \in rest : r[k] = (IF s[k] = 1 THEN sq[<<a, k>>] ELSE 0) /\ r[k] \in Int
  <2>1. a \in Small!Var
    BY SubNames
  <2> QED BY <1>3, <1>6, <1>16, <2>1, SmallSize, Small!RowEntry
<1>18. \A k \in rest : I[k] \in L /\ g[I[k]] = r[k]
  <2> SUFFICES ASSUME NEW k \in rest PROVE I[k] \in L /\ g[I[k]] = r[k]
    OBVIOUS
  <2>1. k \in Position /\ I[a] < I[k] /\ I[k] \in Held(I)
    BY <1>1, <1>7 DEF Held
  <2>2. I[k] \in right
    BY <1>1, <1>4, <1>5, <1>7, <2>1 DEF Var
  <2>3. g[I[k]] = (IF y[I[k]] = 1 THEN q[<<v, I[k]>>] ELSE 0)
    BY <1>10, <1>11, <2>1, <2>2
  <2>4. sq[<<a, k>>] = q[<<v, I[k]>>] /\ y[I[k]] = s[k]
    BY <1>2, <1>3, <1>4, <1>7, <2>1
  <2> QED BY <1>14, <1>17, <2>1, <2>2, <2>3, <2>4
<1>19. \A u \in L : \E k \in rest : u = I[k]
  <2> SUFFICES ASSUME NEW u \in L PROVE \E k \in rest : u = I[k]
    OBVIOUS
  <2>1. PICK k \in Position : u = I[k]
    BY <1>14 DEF Held
  <2>2. I[a] < I[k]
    BY <1>4, <1>5, <1>7, <1>14, <2>1
  <2>3. a < k
    BY <1>1, <2>2
  <2> QED BY <1>6, <1>7, <2>1, <2>3, SmallSize DEF Position
<1>20. SumFunctionOnSet(g, L) = SumFunctionOnSet(r, rest)
  <2>1. /\ \A k \in rest : r[k] \in Int
        /\ \A c, b \in rest : I[c] = I[b] => c = b
    BY <1>1, <1>7, <1>17
  <2> QED BY <1>7, <1>18, <1>19, <2>1, SumRename
<1>21. RowSum(q, y, v) = SumFunctionOnSet(f, right)
  BY <1>5, <1>8 DEF RowSum, InRow, SumFunction
<1>22. Small!RowSum(sq, s, a) = SumFunctionOnSet(r, rest)
  <2>1. Small!RowSum(sq, s, a) = Small!SumFunctionOnSet(r, rest)
    BY <1>6, <1>16 DEF Small!RowSum, Small!InRow, Small!SumFunction
  <2> QED BY <2>1, SumNames
<1>23. Reduce!ClampFromTop(q, x, I, v) = SumFunctionOnSet(fx, right)
  BY <1>4, <1>5, <1>9, ClampExact
<1>24. SumFunctionOnSet(fx, right) \in Int /\ SumFunctionOnSet(r, rest) \in Int
  BY <1>7, <1>12, <1>17, SumInt
<1> QED BY <1>4, <1>13, <1>15, <1>20, <1>21, <1>22, <1>23, <1>24

(* The same of the column of an extracted variable.                        *)
LEMMA ColSplit ==
  ASSUME NEW q \in [UpperPair -> Int], NEW x \in Bits, NEW I \in Reduce!Ascending, NEW s \in Small!Bits,
         NEW a \in Position, NEW y, y = Reduce!Projected(x, I, s), NEW sq, sq = Reduce!Reduced(q, x, I)
  PROVE  ColSum(q, y, I[a]) = Small!ColSum(sq, s, a) + Reduce!ClampFromBottom(q, x, I, I[a])
<1>1. /\ I \in [Position -> Var]
      /\ \A c, b \in Position : c < b => I[c] < I[b]
      /\ \A c, b \in Position : I[c] = I[b] => c = b
      /\ \A c, b \in Position : I[c] < I[b] => c < b
  BY AscendingFacts
<1>2. /\ y \in Bits
      /\ \A k \in Position : y[I[k]] = s[k] /\ s[k] \in {0, 1}
      /\ \A j \in Var : j \notin Held(I) => y[j] = x[j]
  BY ProjectedFacts
<1>3. /\ sq \in [Small!UpperPair -> Int]
      /\ \A c, b \in Position : c < b => sq[<<c, b>>] = q[<<I[c], I[b]>>]
  BY ReducedEntries
<1>4. PICK v \in Var : v = I[a]
  BY <1>1
<1>5. PICK up : up = 0 .. v - 1
  OBVIOUS
<1>6. PICK rest : rest = 0 .. a - 1
  OBVIOUS
<1>7. v \in Int /\ a \in Int /\ IsFiniteSet(up) /\ IsFiniteSet(rest) /\ (\A k \in rest : k \in Position /\ k < a)
  <2>1. v \in Int /\ a \in Int /\ (\A k \in rest : k \in Position /\ k < a)
    BY <1>6, SmallSize DEF Var, Position
  <2> QED BY <1>5, <1>6, <2>1, FS_Interval, SmallSize
<1>8. PICK f : f = InCol(q, y, v)
  OBVIOUS
<1>9. PICK fx : fx = ColFixed(q, x, I, v)
  OBVIOUS
<1>10. \A j \in up : /\ j \in Var /\ q[<<j, v>>] \in Int
                        /\ f[j] = (IF y[j] = 1 THEN q[<<j, v>>] ELSE 0) /\ f[j] \in Int
                        /\ fx[j] = (IF j \in Held(I) THEN 0 ELSE q[<<j, v>>] * x[j]) /\ fx[j] \in Int
  <2>1. \A j \in up : /\ j \in Var /\ q[<<j, v>>] \in Int
                         /\ f[j] = (IF y[j] = 1 THEN q[<<j, v>>] ELSE 0) /\ f[j] \in Int
    BY <1>5, <1>8, ColEntry
  <2> QED BY <1>5, <1>9, <2>1, FixedEntries
<1>11. PICK g : g = [j \in up |-> IF j \in Held(I) THEN f[j] ELSE 0]
  OBVIOUS
<1>12. \A j \in up : fx[j] \in Int /\ g[j] \in Int /\ f[j] = fx[j] + g[j]
  <2> SUFFICES ASSUME NEW j \in up PROVE fx[j] \in Int /\ g[j] \in Int /\ f[j] = fx[j] + g[j]
    OBVIOUS
  <2>1. CASE j \in Held(I)
    <3>1. PICK m \in Int : m = f[j]
      BY <1>10
    <3>2. fx[j] = 0 /\ g[j] = m
      BY <1>10, <1>11, <2>1, <3>1
    <3> QED BY <3>1, <3>2
  <2>2. CASE j \notin Held(I)
    <3>1. PICK m \in Int : m = q[<<j, v>>]
      BY <1>10
    <3>2. y[j] = x[j] /\ x[j] \in {0, 1} /\ g[j] = 0
      BY <1>2, <1>10, <1>11, <2>2 DEF Bits
    <3>3. f[j] = (IF x[j] = 1 THEN m ELSE 0) /\ fx[j] = m * x[j]
      BY <1>10, <2>2, <3>1, <3>2
    <3>4. f[j] = m * x[j] /\ m * x[j] \in Int
      BY <3>2, <3>3
    <3> QED BY <3>2, <3>3, <3>4
  <2> QED BY <2>1, <2>2
<1>13. SumFunctionOnSet(f, up) = SumFunctionOnSet(fx, up) + SumFunctionOnSet(g, up)
  BY <1>7, <1>12, SumAdd
<1>14. PICK L : L = {j \in up : j \in Held(I)}
  OBVIOUS
<1>15. SumFunctionOnSet(g, up) = SumFunctionOnSet(g, L)
  <2>1. L \in SUBSET up /\ (\A j \in up : g[j] \in Int) /\ \A j \in up \ L : g[j] = 0
    BY <1>11, <1>12, <1>14
  <2> QED BY <1>7, <2>1, SumSupport
<1>16. PICK r : r = Small!InCol(sq, s, a)
  OBVIOUS
<1>17. \A k \in rest : r[k] = (IF s[k] = 1 THEN sq[<<k, a>>] ELSE 0) /\ r[k] \in Int
  <2>1. a \in Small!Var
    BY SubNames
  <2> QED BY <1>3, <1>6, <1>16, <2>1, SmallSize, Small!ColEntry
<1>18. \A k \in rest : I[k] \in L /\ g[I[k]] = r[k]
  <2> SUFFICES ASSUME NEW k \in rest PROVE I[k] \in L /\ g[I[k]] = r[k]
    OBVIOUS
  <2>1. k \in Position /\ I[k] < I[a] /\ I[k] \in Held(I)
    BY <1>1, <1>7 DEF Held
  <2>2. I[k] \in up
    BY <1>1, <1>4, <1>5, <1>7, <2>1 DEF Var
  <2>3. g[I[k]] = (IF y[I[k]] = 1 THEN q[<<I[k], v>>] ELSE 0)
    BY <1>10, <1>11, <2>1, <2>2
  <2>4. sq[<<k, a>>] = q[<<I[k], v>>] /\ y[I[k]] = s[k]
    BY <1>2, <1>3, <1>4, <1>7, <2>1
  <2> QED BY <1>14, <1>17, <2>1, <2>2, <2>3, <2>4
<1>19. \A u \in L : \E k \in rest : u = I[k]
  <2> SUFFICES ASSUME NEW u \in L PROVE \E k \in rest : u = I[k]
    OBVIOUS
  <2>1. PICK k \in Position : u = I[k]
    BY <1>14 DEF Held
  <2>2. I[k] < I[a]
    BY <1>4, <1>5, <1>7, <1>14, <2>1
  <2>3. k < a
    BY <1>1, <2>2
  <2> QED BY <1>6, <1>7, <2>1, <2>3, SmallSize DEF Position
<1>20. SumFunctionOnSet(g, L) = SumFunctionOnSet(r, rest)
  <2>1. /\ \A k \in rest : r[k] \in Int
        /\ \A c, b \in rest : I[c] = I[b] => c = b
    BY <1>1, <1>7, <1>17
  <2> QED BY <1>7, <1>18, <1>19, <2>1, SumRename
<1>21. ColSum(q, y, v) = SumFunctionOnSet(f, up)
  BY <1>5, <1>8 DEF ColSum, InCol, SumFunction
<1>22. Small!ColSum(sq, s, a) = SumFunctionOnSet(r, rest)
  <2>1. Small!ColSum(sq, s, a) = Small!SumFunctionOnSet(r, rest)
    BY <1>6, <1>16 DEF Small!ColSum, Small!InCol, Small!SumFunction
  <2> QED BY <2>1, SumNames
<1>23. Reduce!ClampFromBottom(q, x, I, v) = SumFunctionOnSet(fx, up)
  BY <1>4, <1>5, <1>9, ClampExact
<1>24. SumFunctionOnSet(fx, up) \in Int /\ SumFunctionOnSet(r, rest) \in Int
  BY <1>7, <1>12, <1>17, SumInt
<1> QED BY <1>4, <1>13, <1>15, <1>20, <1>21, <1>22, <1>23, <1>24

(* A flip in a window gains as much as it gains in the whole.              *)
LEMMA WindowFlipCost ==
  ASSUME NEW q \in [UpperPair -> Int], NEW x \in Bits, NEW I \in Reduce!Ascending, NEW s \in Small!Bits, NEW a \in Position
  PROVE  Small!FlipCost(Reduce!Reduced(q, x, I), s)[a] = FlipCost(q, Reduce!Projected(x, I, s))[I[a]]
<1>1. PICK y : y = Reduce!Projected(x, I, s)
  OBVIOUS
<1>2. PICK sq : sq = Reduce!Reduced(q, x, I)
  OBVIOUS
<1>3. PICK v \in Var : v = I[a]
  BY AscendingFacts
<1>4. y \in Bits /\ y[v] = s[a]
  BY <1>1, <1>3, ProjectedFacts
<1>5. /\ RowSum(q, y, v) = Small!RowSum(sq, s, a) + Reduce!ClampFromTop(q, x, I, v)
      /\ ColSum(q, y, v) = Small!ColSum(sq, s, a) + Reduce!ClampFromBottom(q, x, I, v)
  BY <1>1, <1>2, <1>3, RowSplit, ColSplit
<1>6. /\ sq \in [Small!UpperPair -> Int]
      /\ sq[<<a, a>>] = q[<<v, v>>] + Reduce!ClampFromTop(q, x, I, v) + Reduce!ClampFromBottom(q, x, I, v)
      /\ q[<<v, v>>] \in Int
  BY <1>2, <1>3, ReducedEntries
<1>7. Reduce!ClampFromTop(q, x, I, v) \in Int /\ Reduce!ClampFromBottom(q, x, I, v) \in Int
  BY <1>3, ClampExact
<1>8. a \in Small!Var
  BY SubNames
<1>9. Small!RowSum(sq, s, a) \in Int /\ Small!ColSum(sq, s, a) \in Int
  BY <1>6, <1>8, SmallSize, Small!RowColSums
<1>10. RowSum(q, y, v) + ColSum(q, y, v) + q[<<v, v>>] =
         Small!RowSum(sq, s, a) + Small!ColSum(sq, s, a) + sq[<<a, a>>]
  BY <1>5, <1>6, <1>7, <1>9
<1>11. FlipCost(q, y)[v] = LET contrib == RowSum(q, y, v) + ColSum(q, y, v) + q[<<v, v>>]
                           IN  IF y[v] = 1 THEN -contrib ELSE contrib
  BY DEF FlipCost
<1>12. Small!FlipCost(sq, s)[a] = LET contrib == Small!RowSum(sq, s, a) + Small!ColSum(sq, s, a) + sq[<<a, a>>]
                                  IN  IF s[a] = 1 THEN -contrib ELSE contrib
  BY <1>8 DEF Small!FlipCost
<1> QED BY <1>1, <1>2, <1>3, <1>4, <1>10, <1>11, <1>12

(* What the whole has over the window.                                     *)
Gap(q, x, I, s) == Objective(q, Reduce!Projected(x, I, s)) - Small!Objective(Reduce!Reduced(q, x, I), s)

(* Both objectives are integers.                                           *)
LEMMA GapInt ==
  ASSUME NEW q \in [UpperPair -> Int], NEW x \in Bits, NEW I \in Reduce!Ascending, NEW s \in Small!Bits
  PROVE  /\ Objective(q, Reduce!Projected(x, I, s)) \in Int
         /\ Small!Objective(Reduce!Reduced(q, x, I), s) \in Int
<1>1. Reduce!Projected(x, I, s) \in Bits
  BY ProjectedFacts
<1>2. Objective(q, Reduce!Projected(x, I, s)) \in Int
  BY <1>1, TermsInt
<1>3. PICK sq \in [Small!UpperPair -> Int] : sq = Reduce!Reduced(q, x, I)
  BY ReducedEntries
<1>4. Small!Objective(sq, s) \in Int
  BY SmallSize, Small!TermsInt
<1> QED BY <1>2, <1>3, <1>4

(* No flip in the window changes that.                                     *)
LEMMA GapFlip ==
  ASSUME NEW q \in [UpperPair -> Int], NEW x \in Bits, NEW I \in Reduce!Ascending, NEW s \in Small!Bits, NEW a \in Position
  PROVE  Small!Flip(s, a) \in Small!Bits /\ Gap(q, x, I, Small!Flip(s, a)) = Gap(q, x, I, s)
<1>1. PICK y : y = Reduce!Projected(x, I, s)
  OBVIOUS
<1>2. PICK sq \in [Small!UpperPair -> Int] : sq = Reduce!Reduced(q, x, I)
  BY ReducedEntries
<1>3. PICK v \in Var : v = I[a]
  BY AscendingFacts
<1>4. a \in Small!Var
  BY SubNames
<1>5. PICK t : t = Small!Flip(s, a)
  OBVIOUS
<1>6. /\ t \in Small!Bits
      /\ \A k \in Position : t[k] = IF k = a THEN 1 - s[a] ELSE s[k]
  BY <1>4, <1>5, SubNames, SmallSize, Small!FlipOne
<1>7. y \in Bits
  BY <1>1, ProjectedFacts
<1>8. Reduce!Projected(x, I, t) = Flip(y, v)
  <2>1. PICK z : z = Reduce!Projected(x, I, t)
    OBVIOUS
  <2>2. /\ z \in Bits
        /\ \A k \in Position : z[I[k]] = t[k]
        /\ \A j \in Var : j \notin Held(I) => z[j] = x[j]
    BY <1>6, <2>1, ProjectedFacts
  <2>3. /\ \A k \in Position : y[I[k]] = s[k]
        /\ \A j \in Var : j \notin Held(I) => y[j] = x[j]
    BY <1>1, ProjectedFacts
  <2>4. Flip(y, v) \in Bits /\ \A i \in Var : Flip(y, v)[i] = IF i = v THEN 1 - y[v] ELSE y[i]
    BY <1>7, FlipOne
  <2>5. \A b, c \in Position : I[b] = I[c] => b = c
    BY AscendingFacts
  <2>6. ASSUME NEW i \in Var PROVE z[i] = Flip(y, v)[i]
    <3>1. CASE i \in Held(I)
      <4>1. PICK k \in Position : i = I[k]
        BY <3>1 DEF Held
      <4>2. i = v <=> k = a
        BY <1>3, <2>5, <4>1
      <4> QED BY <1>3, <1>6, <2>2, <2>3, <2>4, <4>1, <4>2
    <3>2. CASE i \notin Held(I)
      <4>1. i # v
        BY <1>3, <3>2 DEF Held
      <4> QED BY <2>2, <2>3, <2>4, <3>2, <4>1
    <3> QED BY <3>1, <3>2
  <2>7. z = [i \in Var |-> z[i]] /\ Flip(y, v) = [i \in Var |-> Flip(y, v)[i]]
    BY <2>2, <2>4 DEF Bits
  <2> QED BY <2>1, <2>6, <2>7
<1>9. FlipCost(q, y)[v] = Objective(q, Flip(y, v)) - Objective(q, y) /\ Objective(q, y) \in Int
  BY <1>7, FlipCostExact, TermsInt
<1>10. Small!FlipCost(sq, s)[a] = Small!Objective(sq, t) - Small!Objective(sq, s)
  BY <1>4, <1>5, SmallSize, Small!FlipCostExact
<1>11. Small!FlipCost(sq, s)[a] = FlipCost(q, y)[v]
  BY <1>1, <1>2, <1>3, WindowFlipCost
<1>12. /\ Objective(q, Reduce!Projected(x, I, t)) \in Int /\ Small!Objective(sq, t) \in Int
       /\ Objective(q, y) \in Int /\ Small!Objective(sq, s) \in Int
  BY <1>1, <1>2, <1>6, GapInt
<1> QED BY <1>1, <1>2, <1>5, <1>6, <1>8, <1>9, <1>10, <1>11, <1>12 DEF Gap

(* So no two fillings of the window differ in it: else flip a bit of the   *)
(* pair with the fewest bits between them.                                 *)
LEMMA GapFixed ==
  ASSUME NEW q \in [UpperPair -> Int], NEW x \in Bits, NEW I \in Reduce!Ascending,
         NEW s \in Small!Bits, NEW t \in Small!Bits
  PROVE  Gap(q, x, I, s) = Gap(q, x, I, t)
<1> DEFINE Between(u) == {k \in Position : u[k] # t[k]}
           T == {A \in SUBSET Position : \E u \in Small!Bits : Between(u) = A /\ Gap(q, x, I, u) # Gap(q, x, I, t)}
<1> SUFFICES ASSUME T # {} PROVE FALSE
  OBVIOUS
<1>1. \A A \in T : IsFiniteSet(A)
  <2>1. IsFiniteSet(Position)
    BY FS_Interval, SmallSize DEF Position
  <2> QED BY <2>1, FS_Subset
<1>2. PICK A \in T : \A B \in T : B \subseteq A => B = A
  <2> HIDE DEF T
  <2> QED BY <1>1, SmallestSet
<1>3. PICK u \in Small!Bits : Between(u) = A /\ Gap(q, x, I, u) # Gap(q, x, I, t)
  BY <1>2
<1>4. A # {}
  <2> SUFFICES ASSUME A = {} PROVE u = t
    BY <1>3
  <2>1. \A k \in Position : u[k] = t[k]
    BY <1>3
  <2>2. u \in [Position -> {0, 1}] /\ t \in [Position -> {0, 1}]
    BY SubNames DEF Small!Bits
  <2> QED BY <2>1, <2>2
<1>5. PICK a \in A : TRUE
  BY <1>4
<1>6. a \in Position /\ u[a] # t[a]
  BY <1>3
<1>7. PICK w : w = Small!Flip(u, a)
  OBVIOUS
<1>8. w \in Small!Bits /\ Gap(q, x, I, w) = Gap(q, x, I, u)
  BY <1>6, <1>7, GapFlip
<1>9. \A k \in Position : w[k] = (IF k = a THEN 1 - u[a] ELSE u[k]) /\ u[k] \in {0, 1} /\ t[k] \in {0, 1}
  <2>1. a \in Small!Var
    BY <1>6, SubNames
  <2>2. u \in [Position -> {0, 1}] /\ t \in [Position -> {0, 1}]
    BY SubNames DEF Small!Bits
  <2>3. \A k \in Position : w[k] = (IF k = a THEN 1 - u[a] ELSE u[k])
    BY <1>7, <2>1, SubNames, SmallSize, Small!FlipOne
  <2> QED BY <2>2, <2>3
<1>10. Between(w) \subseteq A /\ a \notin Between(w)
  BY <1>3, <1>6, <1>9
<1>11. Between(w) \in T
  BY <1>3, <1>8
<1> QED BY <1>2, <1>5, <1>10, <1>11

(* What projecting gains in the whole, the sub-sampler has gained in the   *)
(* window.                                                                 *)
THEOREM WindowExact ==
  ASSUME NEW q \in [UpperPair -> Int], NEW x \in Bits, NEW I \in Reduce!Ascending, NEW s \in Small!Bits,
         NEW t, t = [k \in Position |-> x[I[k]]]
  PROVE  Objective(q, Reduce!Projected(x, I, s)) - Objective(q, x) =
           Small!Objective(Reduce!Reduced(q, x, I), s) - Small!Objective(Reduce!Reduced(q, x, I), t)
<1>1. I \in [Position -> Var]
  BY AscendingFacts
<1>2. t \in Small!Bits
  BY <1>1, SubNames DEF Small!Bits, Bits
<1>3. Reduce!Projected(x, I, t) = x
  <2>1. PICK z : z = Reduce!Projected(x, I, t)
    OBVIOUS
  <2>2. /\ z \in Bits
        /\ \A k \in Position : z[I[k]] = t[k]
        /\ \A j \in Var : j \notin Held(I) => z[j] = x[j]
    BY <1>2, <2>1, ProjectedFacts
  <2>3. ASSUME NEW j \in Var PROVE z[j] = x[j]
    <3>1. CASE j \in Held(I)
      <4>1. PICK k \in Position : j = I[k]
        BY <3>1 DEF Held
      <4> QED BY <2>2, <4>1
    <3>2. CASE j \notin Held(I)
      BY <2>2, <3>2
    <3> QED BY <3>1, <3>2
  <2>4. z \in [Var -> {0, 1}] /\ x \in [Var -> {0, 1}]
    BY <2>2 DEF Bits
  <2> QED BY <2>1, <2>3, <2>4
<1>4. Gap(q, x, I, s) = Gap(q, x, I, t)
  BY <1>2, GapFixed
<1>5. /\ Objective(q, Reduce!Projected(x, I, s)) \in Int /\ Small!Objective(Reduce!Reduced(q, x, I), s) \in Int
      /\ Objective(q, Reduce!Projected(x, I, t)) \in Int /\ Small!Objective(Reduce!Reduced(q, x, I), t) \in Int
  BY <1>2, GapInt
<1> QED BY <1>3, <1>4, <1>5 DEF Gap

(* At one bit: how many of the solutions have it set.                      *)
LEMMA BitCount ==
  ASSUME NEW rows \in Seq(Bits), NEW i \in Var
  PROVE  /\ SumOver(rows, i) \in 0 .. Len(rows) /\ Len(rows) \in Nat
         /\ SumOver(rows, i) = 0 <=> \A r \in 1 .. Len(rows) : rows[r][i] = 0
         /\ SumOver(rows, i) = Len(rows) <=> \A r \in 1 .. Len(rows) : rows[r][i] = 1
         /\ \A r \in 1 .. Len(rows) : rows[r][i] \in {0, 1}
<1>1. PICK n \in Nat : n = Len(rows) /\ DOMAIN rows = 1 .. n
  OBVIOUS
<1>2. PICK f : f = [r \in 1 .. n |-> rows[r][i]]
  OBVIOUS
<1>3. \A r \in 1 .. n : f[r] = rows[r][i] /\ f[r] \in {0, 1}
  BY <1>1, <1>2 DEF Bits
<1>4. SumOver(rows, i) = SumFunctionOnSet(f, 1 .. n)
  BY <1>1, <1>2 DEF SumOver, SumFunction
<1>5. IsFiniteSet(1 .. n) /\ Cardinality(1 .. n) = n
  BY FS_Interval
<1>6. /\ SumFunctionOnSet(f, 1 .. n) \in 0 .. n
      /\ SumFunctionOnSet(f, 1 .. n) = 0 <=> \A r \in 1 .. n : f[r] = 0
      /\ SumFunctionOnSet(f, 1 .. n) = n <=> \A r \in 1 .. n : f[r] = 1
  <2>1. \A r \in 1 .. n : f[r] \in {0, 1}
    BY <1>3
  <2> QED BY <1>5, <2>1, SumBits
<1> QED BY <1>1, <1>3, <1>4, <1>6

(* Mirrored counts none exactly where all agree.                           *)
LEMMA MirroredNone ==
  ASSUME NEW n \in Nat, NEW sum \in 0 .. n
  PROVE  /\ Mirrored(sum, n) \in Nat
         /\ Mirrored(sum, n) > 0 <=> sum > 0 /\ sum < n
<1>1. PICK h \in Int : h = (n + 1) \div 2 /\ 2 * h <= n + 1 /\ n < 2 * h + 1
  OBVIOUS
<1> QED BY <1>1 DEF Mirrored

(* There are no more differing variables than variables.                   *)
LEMMA DifferingFinite ==
  /\ Differing \subseteq Var /\ IsFiniteSet(Differing) /\ (\A i \in Differing : i \in Int)
  /\ Cardinality(Differing) \in Nat /\ Cardinality(Differing) <= qubo_size
<1>1. Differing \subseteq Var
  BY DEF Differing
<1>2. IsFiniteSet(Var) /\ Cardinality(Var) = qubo_size
  BY FS_Interval DEF Var
<1>3. IsFiniteSet(Differing) /\ Cardinality(Differing) <= qubo_size
  BY <1>1, <1>2, FS_Subset
<1> QED BY <1>1, <1>3, FS_CardinalityType DEF Var

(* What mul_index_solution_diff makes of the list.                         *)
LEMMA BackboneFacts ==
  ASSUME listed \in Seq(Bits)
  PROVE  /\ Diff.len = Cardinality(Differing)
         /\ \A k \in 0 .. Diff.len - 1 : Diff.index[k] = InOrder(Differing)[k]
<1>1. ASSUME NEW i \in Var
      PROVE  Mirrored(SumOver(listed, i), Len(listed)) > 0 <=>
               \E r, s \in 1 .. Len(listed) : listed[r][i] # listed[s][i]
  <2>1. PICK n \in Nat, sum \in Nat :
          /\ n = Len(listed) /\ sum = SumOver(listed, i) /\ sum \in 0 .. n
          /\ sum = 0 <=> \A r \in 1 .. n : listed[r][i] = 0
          /\ sum = n <=> \A r \in 1 .. n : listed[r][i] = 1
          /\ \A r \in 1 .. n : listed[r][i] \in {0, 1}
    BY BitCount
  <2>2. Mirrored(sum, n) > 0 <=> sum # 0 /\ sum # n
    BY <2>1, MirroredNone
  <2>3. ASSUME sum # 0, sum # n PROVE \E r, s \in 1 .. n : listed[r][i] # listed[s][i]
    <3>1. PICK r \in 1 .. n : listed[r][i] # 0
      BY <2>1, <2>3
    <3>2. PICK s \in 1 .. n : listed[s][i] # 1
      BY <2>1, <2>3
    <3> QED BY <2>1, <3>1, <3>2
  <2>4. ASSUME NEW r \in 1 .. n, NEW s \in 1 .. n, listed[r][i] # listed[s][i] PROVE sum # 0 /\ sum # n
    BY <2>1, <2>4
  <2> QED BY <2>1, <2>2, <2>3, <2>4
<1>2. {i \in Var : Mirrored(SumOver(listed, i), Len(listed)) > 0} = Differing
  BY <1>1 DEF Differing
<1>3. Diff = [len |-> Cardinality(Differing), index |-> IndexVector(Differing)]
  BY <1>2 DEF Diff, mul_index_solution_diff
<1>4. \A k \in 0 .. Cardinality(Differing) - 1 : k \in Var /\ k < Cardinality(Differing)
  BY DifferingFinite DEF Var
<1> QED BY <1>3, <1>4 DEF IndexVector

(* The backbone is the differing variables in ascending order.             *)
LEMMA BackboneInOrder ==
  ASSUME listed \in Seq(Bits)
  PROVE  /\ Diff.len \in Nat /\ Diff.len <= qubo_size
         /\ \A k \in 0 .. Diff.len - 1 : Diff.index[k] \in Differing
         /\ \A a, b \in 0 .. Diff.len - 1 : a < b => Diff.index[a] < Diff.index[b]
         /\ {Diff.index[k] : k \in 0 .. Diff.len - 1} = Differing
<1>1. PICK n \in Nat : n = Diff.len /\ n = Cardinality(Differing) /\ n <= qubo_size
  BY BackboneFacts, DifferingFinite
<1>2. PICK f : f = InOrder(Differing)
  OBVIOUS
<1>3. /\ f \in [0 .. n - 1 -> Differing]
      /\ \A a, b \in 0 .. n - 1 : a < b => f[a] < f[b]
      /\ \A i \in Differing : \E k \in 0 .. n - 1 : f[k] = i
  <2>1. IsFiniteSet(Differing) /\ Differing \subseteq Int
    BY DifferingFinite
  <2> QED BY <1>1, <1>2, <2>1, InOrderFacts
<1>4. \A k \in 0 .. n - 1 : Diff.index[k] = f[k]
  BY <1>1, <1>2, BackboneFacts
<1>5. {Diff.index[k] : k \in 0 .. n - 1} = Differing
  BY <1>3, <1>4
<1> QED BY <1>1, <1>3, <1>4, <1>5

(* The solution the search starts from, and what all solutions agree on.   *)
LEMMA PopularKept ==
  ASSUME listed \in Seq(Bits)
  PROVE  /\ solution_population(listed, Bias) \in Bits
         /\ Len(listed) > 1 =>
              \A i \in Var \ Differing : solution_population(listed, Bias)[i] = listed[1][i]
<1>1. Bias \in Nat
  BY SubmatrixSearchAssumption
<1>2. PICK y : y = solution_population(listed, Bias)
  OBVIOUS
<1>3. \A i \in Var :
        y[i] = LET sum     == SumOver(listed, i)
                   popular == IF sum >= Len(listed) \div 2 THEN 1 ELSE 0
               IN  IF Mirrored(sum, Len(listed)) > Bias THEN 1 - popular ELSE popular
  BY <1>2 DEF solution_population
<1>4. \A i \in Var : y[i] \in {0, 1}
  BY <1>3
<1>5. y \in Bits
  BY <1>2, <1>4 DEF solution_population, Bits
<1>6. ASSUME Len(listed) > 1, NEW i \in Var \ Differing PROVE y[i] = listed[1][i]
  <2>1. PICK n \in Nat, sum \in Nat :
          /\ n = Len(listed) /\ sum = SumOver(listed, i) /\ sum \in 0 .. n
          /\ sum = 0 <=> \A r \in 1 .. n : listed[r][i] = 0
          /\ sum = n <=> \A r \in 1 .. n : listed[r][i] = 1
          /\ \A r \in 1 .. n : listed[r][i] \in {0, 1}
    BY BitCount
  <2>2. n > 1 /\ 1 \in 1 .. n
    BY <1>6, <2>1
  <2>3. \A r \in 1 .. n : listed[r][i] = listed[1][i]
    BY <2>1, <2>2 DEF Differing
  <2>4. PICK h \in Int : h = n \div 2 /\ 1 <= h /\ h <= n
    BY <2>2
  <2>5. PICK m \in Nat : m = Mirrored(sum, n) /\ (m > 0 <=> sum > 0 /\ sum < n)
    BY <2>1, MirroredNone
  <2>6. y[i] = IF m > Bias THEN 1 - (IF sum >= h THEN 1 ELSE 0) ELSE IF sum >= h THEN 1 ELSE 0
    BY <1>3, <2>1, <2>4, <2>5
  <2>7. CASE listed[1][i] = 0
    <3>1. sum = 0
      BY <2>1, <2>3, <2>7
    <3> QED BY <1>1, <2>4, <2>5, <2>6, <2>7, <3>1
  <2>8. CASE listed[1][i] = 1
    <3>1. sum = n
      BY <2>1, <2>3, <2>8
    <3> QED BY <1>1, <2>4, <2>5, <2>6, <2>8, <3>1
  <2> QED BY <2>1, <2>2, <2>7, <2>8
<1> QED BY <1>2, <1>5, <1>6

(* How far a pass goes.                                                    *)
LEMMA PassLengthFacts ==
  ASSUME NEW length \in Nat
  PROVE  /\ Pass!PassLength(length) \in Nat
         /\ algo = "d" => Pass!PassLength(length) = length
         /\ algo # "d" => Pass!PassLength(length) = 1 \/ Pass!PassLength(length) <= qubo_size - subMatrix
<1>1. PICK d \in Int : d = (214 * qubo_size) \div 1000
  OBVIOUS
<1>2. PICK e \in Int : e = Pass!MaxNodes_sub
  BY <1>1, SmallSize DEF Pass!MaxNodes_sub, Pass!MAX
<1>3. Pass!PassLength(length) = IF algo = "d" THEN length ELSE Pass!MAX(Pass!MIN(qubo_size - subMatrix, e), 1)
  BY <1>2 DEF Pass!PassLength
<1> QED BY <1>2, <1>3, SmallSize DEF Pass!MAX, Pass!MIN

(* The index holds every variable once.                                    *)
LEMMA OrderFacts ==
  ASSUME SortInv
  PROVE  /\ index \in [Var -> Var]
         /\ \A a, b \in Var : index[a] = index[b] => a = b
<1>1. Sort!Position = Var
  BY DEF Sort!Position, Var
<1> QED BY <1>1 DEF SortInv, Sort!Orders, Sort!Bijection, Sort!Injection, Sort!IsInjective

(* A stretch of the index, sorted.                                         *)
LEMMA StretchSorted ==
  ASSUME SortInv, NEW start \in Nat, start + subMatrix <= qubo_size,
         NEW I, I = index_sort([k \in Position |-> index[start + k]])
  PROVE  /\ I \in Reduce!Ascending
         /\ Held(I) = {index[start + k] : k \in Position}
<1>1. PICK f : f = [k \in Position |-> index[start + k]]
  OBVIOUS
<1>2. \A k \in Position : k \in Int /\ start + k \in Var
  BY SmallSize DEF Position, Var
<1>3. f \in [Position -> Var] /\ \A a, b \in Position : f[a] = f[b] => a = b
  <2>1. \A k \in Position : f[k] = index[start + k] /\ f[k] \in Var
    BY <1>1, <1>2, OrderFacts
  <2>2. ASSUME NEW a \in Position, NEW b \in Position, f[a] = f[b] PROVE a = b
    <3>1. start + a = start + b
      BY <1>2, <2>1, <2>2, OrderFacts
    <3> QED BY <1>2, <3>1
  <2> QED BY <1>1, <2>1, <2>2
<1>4. PICK S : S = {f[k] : k \in Position}
  OBVIOUS
<1>5. IsFiniteSet(Position) /\ Cardinality(Position) = subMatrix
  BY FS_Interval, SmallSize DEF Position
<1>6. IsFiniteSet(S) /\ Cardinality(S) = subMatrix
  <2>1. \A a, b \in Position : f[a] = f[b] => a = b
    BY <1>3
  <2> QED BY <1>4, <1>5, <2>1, RenamedSize
<1>7. \A i \in S : i \in Int /\ i \in Var
  BY <1>3, <1>4, SmallSize DEF Var
<1>8. I = InOrder(S)
  BY <1>1, <1>4 DEF index_sort
<1>9. /\ I \in [Position -> S]
      /\ \A a, b \in Position : a < b => I[a] < I[b]
      /\ \A i \in S : \E k \in Position : I[k] = i
  <2>1. S \subseteq Int
    BY <1>7
  <2> QED BY <1>6, <1>8, <2>1, InOrderFacts DEF Position
<1>10. I \in Reduce!Ascending
  <2>1. I \in [Position -> Var]
    BY <1>7, <1>9
  <2> QED BY <1>9, <2>1, SubNames DEF Reduce!Ascending
<1>11. Held(I) = S
  BY <1>9 DEF Held
<1>12. S = {index[start + k] : k \in Position}
  BY <1>1, <1>4
<1> QED BY <1>10, <1>11, <1>12

(* A stretch of the backbone is in order already.                          *)
LEMMA StretchOfBackbone ==
  ASSUME listed \in Seq(Bits), NEW start \in Nat, start + subMatrix <= Diff.len,
         NEW I, I = [k \in Position |-> Diff.index[start + k]]
  PROVE  I \in Reduce!Ascending
<1>1. PICK n \in Nat : n = Diff.len
  BY BackboneInOrder
<1>2. PICK f : f = Diff.index
  OBVIOUS
<1>3. /\ \A k \in 0 .. n - 1 : f[k] \in Var
      /\ \A a, b \in 0 .. n - 1 : a < b => f[a] < f[b]
  BY <1>1, <1>2, BackboneInOrder, DifferingFinite
<1>4. \A k \in Position : k \in Int /\ start + k \in 0 .. n - 1
  BY <1>1, SmallSize DEF Position
<1>5. I \in [Position -> Var]
  BY <1>2, <1>3, <1>4
<1>6. ASSUME NEW a \in Position, NEW b \in Position, a < b PROVE I[a] < I[b]
  <2>1. start + a < start + b
    BY <1>4, <1>6
  <2> QED BY <1>2, <1>3, <1>4, <2>1
<1> QED BY <1>5, <1>6, SubNames DEF Reduce!Ascending

(* What a window of the pass is.                                           *)
LEMMA WindowFacts ==
  ASSUME PassIInv, pc = "pass", l < l_max, NEW I \in Windows(Pass!WindowStart)
  PROVE  /\ I \in Reduce!Ascending
         /\ algo = "o" => /\ l + subMatrix <= qubo_size
                          /\ Held(I) = {index[l + k] : k \in Position}
<1>1. /\ l \in Nat /\ algo \in {"o", "d", "b"} /\ listed \in Seq(Bits)
      /\ SortInv /\ len_index \in Nat /\ l_max = Pass!PassLength(len_index)
      /\ (l = 0 \/ l >= subMatrix)
  BY DEF PassIInv, TypeInv, PassInv
<1>2. l_max \in Nat
  BY <1>1, PassLengthFacts
<1>3. CASE algo = "o"
  <2>1. Pass!WindowStart = l
    BY <1>3 DEF Pass!WindowStart
  <2>2. l + subMatrix <= qubo_size
    <3>1. l_max = 1 \/ l_max <= qubo_size - subMatrix
      BY <1>1, <1>3, PassLengthFacts
    <3> QED BY <1>1, <1>2, <3>1, SmallSize
  <2>3. I = index_sort([k \in Position |-> index[l + k]])
    BY <1>3, <2>1 DEF Windows
  <2> QED BY <1>1, <2>2, <2>3, StretchSorted
<1>4. CASE algo = "d"
  <2>2. l_max = len_index
    BY <1>1, <1>4, PassLengthFacts
  <2>1. Pcompress = Diff.index /\ len_index = Diff.len /\ len_index >= subMatrix
    <3>1. len_index # 0
      BY <1>1, <2>2
    <3> QED BY <1>4, <3>1 DEF PassIInv, BackboneInv, Diff, BackboneHoldsWindow
  <2>3. PICK start : start = Pass!WindowStart
    OBVIOUS
  <2>4. start \in Nat /\ start + subMatrix <= len_index
    <3>1. start = IF l + subMatrix > len_index THEN len_index - subMatrix - 1 ELSE l
      BY <1>4, <2>3 DEF Pass!WindowStart
    <3>2. l \in Nat /\ len_index \in Nat /\ l < len_index /\ subMatrix \in Nat \ {0} /\ len_index >= subMatrix /\ (l = 0 \/ l >= subMatrix)
      BY <1>1, <2>1, <2>2, SmallSize
    <3> QED BY <3>1, <3>2
  <2>5. I = [k \in Position |-> Diff.index[start + k]]
    <3>1. \A k \in Position : ~(start + k < 0)
      BY <2>4 DEF Position
    <3>2. I \in BackboneWindows(start)
      BY <1>4, <2>3 DEF Windows
    <3>3. I = [k \in Position |-> I[k]] /\ \A k \in Position : I[k] = Pcompress[start + k]
      BY <3>1, <3>2 DEF BackboneWindows
    <3> QED BY <2>1, <3>3
  <2> QED BY <1>1, <1>4, <2>1, <2>4, <2>5, StretchOfBackbone
<1>5. CASE algo = "b"
  BY <1>5 DEF Windows
<1> QED BY <1>1, <1>3, <1>4, <1>5

(* Bits as functions.                                                      *)
LEMMA BitsFacts ==
  /\ \A x : x \in Bits <=> x \in [Var -> {0, 1}]
  /\ \A s : s \in Small!Bits <=> s \in [Position -> {0, 1}]
  /\ \A s : s \in Reduce!Sub!Bits <=> s \in Small!Bits
BY SubNames DEF Bits, Small!Bits

(* With no entries nothing is gained.                                      *)
LEMMA NothingGained == ASSUME NEW s \in Small!Bits PROVE Small!Objective(NoSubQubo, s) = 0
<1>1. PICK q : q = NoSubQubo
  OBVIOUS
<1>2. q \in [Small!UpperPair -> Int] /\ \A p \in Small!UpperPair : q[p] = 0
  BY <1>1, SubNames DEF NoSubQubo
<1>3. /\ Small!Objective(q, s) = Small!SumFunctionOnSet(Small!Terms(q, s), Small!UpperPair)
      /\ \A p \in Small!UpperPair :
           p[1] \in Small!Var /\ p[2] \in Small!Var /\ Small!Terms(q, s)[p] = q[p] * s[p[1]] * s[p[2]]
  BY <1>2, SmallSize, Small!TermsInt
<1>4. \A p \in Small!UpperPair : Small!Terms(q, s)[p] = 0
  <2> SUFFICES ASSUME NEW p \in Small!UpperPair PROVE Small!Terms(q, s)[p] = 0
    OBVIOUS
  <2>1. PICK a \in Int, b \in Int : a = s[p[1]] /\ b = s[p[2]]
    <3>1. p[1] \in Position /\ p[2] \in Position /\ s \in [Position -> {0, 1}]
      BY <1>3, SubNames, BitsFacts
    <3> QED BY <3>1
  <2>2. Small!Terms(q, s)[p] = 0 * a * b
    BY <1>2, <1>3, <2>1
  <2> QED BY <2>1, <2>2
<1>5. IsFiniteSet(Small!UpperPair)
  <2>1. IsFiniteSet(Position)
    BY FS_Interval, SmallSize DEF Position
  <2>2. IsFiniteSet(Position \X Position)
    BY <2>1, FS_Product
  <2> QED BY <2>2, SubNames, FS_Subset DEF Small!UpperPair
<1>6. SumFunctionOnSet(Small!Terms(q, s), Small!UpperPair) = 0
  BY <1>4, <1>5, SumZero
<1> QED BY <1>1, <1>3, <1>6, SumNames

(* The bits a projection changes are those the window counts.              *)
LEMMA ChangedBits ==
  ASSUME NEW x \in Bits, NEW I \in Reduce!Ascending, NEW s \in Small!Bits,
         NEW y, y = Reduce!Projected(x, I, s), NEW C, C = {k \in Position : x[I[k]] # s[k]},
         NEW D, D = {i \in Var : y[i] # x[i]}
  PROVE  /\ IsFiniteSet(D) /\ Cardinality(D) = Cardinality(C) /\ Cardinality(C) \in Nat
         /\ D \subseteq Held(I)
<1>1. /\ I \in [Position -> Var]
      /\ \A a, b \in Position : I[a] = I[b] => a = b
  BY AscendingFacts
<1>2. /\ y \in Bits
      /\ \A k \in Position : y[I[k]] = s[k]
      /\ \A j \in Var : j \notin Held(I) => y[j] = x[j]
  BY ProjectedFacts
<1>3. D \subseteq Held(I)
  BY <1>2
<1>4. IsFiniteSet(C)
  <2>1. IsFiniteSet(Position)
    BY FS_Interval, SmallSize DEF Position
  <2> QED BY <2>1, FS_Subset
<1>5. D = {I[k] : k \in C}
  BY <1>1, <1>2, <1>3 DEF Held
<1>6. \A a, b \in C : I[a] = I[b] => a = b
  BY <1>1
<1>7. IsFiniteSet(D) /\ Cardinality(D) = Cardinality(C)
  BY <1>4, <1>5, <1>6, RenamedSize
<1> QED BY <1>3, <1>4, <1>7, FS_CardinalityType

(* Finitely many bits have moved.                                          *)
LEMMA MovedFinite == ASSUME NEW x PROVE IsFiniteSet(Moved(x)) /\ Cardinality(Moved(x)) \in Nat
<1>1. Moved(x) \subseteq Var
  BY DEF Moved
<1>2. IsFiniteSet(Moved(x))
  BY <1>1, QuboFinite, FS_Subset
<1> QED BY <1>2, FS_CardinalityType

(* The sort begins with the flip costs, which are integers.                *)
LEMMA SortInvInit == ASSUME Init PROVE SortInv
<1>1. qubo \in [UpperPair -> Int] /\ solution \in Bits
  BY SubmatrixSearchAssumption DEF Init
<1>2. flip_cost \in [Sort!Position -> Int]
  <2>1. flip_cost = FlipCost(qubo, solution)
    BY DEF Init
  <2>2. \A b \in Var : flip_cost[b] \in Int
    BY <1>1, <2>1, FlipCostExact
  <2>3. flip_cost = [b \in Var |-> flip_cost[b]]
    BY <2>1 DEF FlipCost
  <2> QED BY <2>2, <2>3 DEF Sort!Position, Var
<1>3. index \in Sort!Orders
  <2>1. [i \in Var |-> i] \in Sort!Orders
    BY DEF Sort!Orders, Sort!Bijection, Sort!Injection, Sort!Surjection, Sort!IsInjective, Sort!Position, Var
  <2> QED BY <2>1 DEF Init
<1>4. Sort!Init
  BY <1>2, <1>3 DEF Init, Sort!Init
<1> QED BY <1>4, SortInit

(* The invariant holds in the beginning.                                   *)
LEMMA PassIInvInit == ASSUME Init PROVE PassIInv
<1>1. SortInv
  BY SortInvInit
<1>2. TypeInv
  <2>1. /\ algo \in {"o", "d", "b"} /\ listed \in Seq(Bits) /\ qubo \in [UpperPair -> Int]
        /\ solution \in Bits /\ batch \in Bits /\ before \in Bits /\ entered \in Bits
        /\ change \in Nat /\ l \in Nat /\ window_pc = "done"
    <3>1. Lists \subseteq Seq(Bits) /\ Qubos \subseteq [UpperPair -> Int] /\ <<>> \in Seq(Bits)
      BY SubmatrixSearchAssumption
    <3> QED BY <3>1 DEF Init
  <2>2. Icompress \in [Position -> Var] /\ sub_solution \in [Position -> {0, 1}]
    BY DEF Init, Var
  <2> QED BY <2>1, <2>2, BitsFacts DEF TypeInv
<1>3. BackboneInv
  BY DEF Init, BackboneInv, BackboneHoldsWindow
<1>4. PassInv
  BY DEF Init, PassInv, NoSubQubo, Pass!PassLength, Pass!MaxNodes_sub
<1>5. Reduce!ProjectionExact
  <2>1. /\ before = batch /\ batch \in Bits /\ qubo \in [UpperPair -> Int] /\ sub_qubo = NoSubQubo
        /\ Icompress \in [Position -> Var] /\ sub_solution \in Small!Bits
    BY <1>2, BitsFacts DEF Init, TypeInv, NoSubQubo
  <2>2. PICK t : t = [k \in Position |-> before[Icompress[k]]]
    OBVIOUS
  <2>3. t \in Small!Bits
    BY <2>1, <2>2, BitsFacts
  <2>4. Small!Objective(sub_qubo, t) = 0 /\ Small!Objective(sub_qubo, sub_solution) = 0 /\ Objective(qubo, batch) \in Int
    BY <2>1, <2>3, NothingGained, TermsInt
  <2>5. Reduce!SubBefore = t
    BY <2>2, SubNames DEF Reduce!SubBefore
  <2> QED BY <2>1, <2>4, <2>5, ObjectiveNames DEF Reduce!ProjectionExact
<1>6. WindowInv
  BY <1>5 DEF Init, WindowInv
<1>7. ChangeInv
  <2>1. Moved(batch) = {} /\ change = 0 /\ l = 0 /\ window_pc = "done"
    BY DEF Init, Moved
  <2> QED BY <2>1, FS_EmptySet DEF ChangeInv
<1> QED BY <1>1, <1>2, <1>3, <1>4, <1>6, <1>7 DEF PassIInv

(* What no step changes, and no step but a sorting one.                    *)
LEMMA SortKept == ASSUME SortInv, UNCHANGED sorting PROVE SortInv'
<1>1. UNCHANGED Sort!vars
  BY DEF sorting, Sort!vars
<1> QED BY <1>1, SortStepKeeps

(* A step of the sort keeps the invariant of the pass.                     *)
LEMMA SortStepInv == ASSUME PassIInv, SortStep PROVE PassIInv'
<1> USE DEF SortStep, backbone, passing, window
<1>1. SortInv'
  BY SortStepKeeps DEF PassIInv
<1>2. pc = "sort" /\ pc' \in {"pass", "sort"}
  OBVIOUS
<1>3. TypeInv'
  BY DEF PassIInv, TypeInv
<1>5. BackboneInv'
  BY <1>2 DEF PassIInv, BackboneInv, Diff, BackboneHoldsWindow
<1>6. l = 0 /\ window_pc = "done" /\ PassInv'
  BY <1>2 DEF PassIInv, PassInv, Pass!PassLength, Pass!MaxNodes_sub
<1>7. WindowInv'
  BY DEF PassIInv, WindowInv, Reduce!ProjectionExact, Reduce!SubBefore
<1>8. ChangeInv'
  <2>1. /\ change' = change /\ batch' = batch /\ entered' = entered /\ l' = 0 /\ window_pc' = "done" /\ algo' = algo
        /\ change >= Cardinality(Moved(batch))
        /\ algo = "o" => change = Cardinality(Moved(batch)) /\ Moved(batch) \subseteq IndexUpTo(0) /\ l <= qubo_size
    BY <1>6 DEF PassIInv, ChangeInv
  <2>2. Moved(batch)' = Moved(batch)
    BY <2>1 DEF Moved
  <2>3. IndexUpTo(0) = {} /\ IndexUpTo(0)' = {}
    BY DEF IndexUpTo
  <2> QED BY <2>1, <2>2, <2>3 DEF ChangeInv, IndexUpTo
<1> QED BY <1>1, <1>3, <1>5, <1>6, <1>7, <1>8 DEF PassIInv

(* What keeps the batch, the window and the index keeps the count.         *)
LEMMA ChangeKept ==
  ASSUME ChangeInv, UNCHANGED <<batch, entered, change, l, index, algo, Icompress>>,
         window_pc' = "done" <=> window_pc = "done"
  PROVE  ChangeInv'
<1>1. Moved(batch)' = Moved(batch) /\ IndexUpTo(l)' = IndexUpTo(l) /\ IndexUpTo(l - subMatrix)' = IndexUpTo(l - subMatrix)
  BY DEF Moved, IndexUpTo
<1>2. Held(Icompress)' = Held(Icompress) /\ {index[l - subMatrix + k] : k \in Position}' = {index[l - subMatrix + k] : k \in Position}
  BY DEF Held
<1> QED BY <1>1, <1>2 DEF ChangeInv

(* So does the start from what the list agrees on.                         *)
LEMMA PrimeInv == ASSUME PassIInv, Prime PROVE PassIInv'
<1> USE DEF Prime, backbone, passing, window
<1>1. SortInv'
  BY SortKept DEF PassIInv
<1>2. pc = "prime" /\ pc' = "search"
  OBVIOUS
<1>3. TypeInv'
  BY PopularKept DEF PassIInv, TypeInv
<1>4. BackboneInv'
  BY <1>2 DEF PassIInv, BackboneInv, Diff, BackboneHoldsWindow
<1>5. PassInv'
  BY <1>2 DEF PassIInv, PassInv, Pass!PassLength, Pass!MaxNodes_sub
<1>6. WindowInv'
  BY DEF PassIInv, WindowInv, Reduce!ProjectionExact, Reduce!SubBefore
<1>7. ChangeInv'
  BY ChangeKept DEF PassIInv, sorting
<1> QED BY <1>1, <1>3, <1>4, <1>5, <1>6, <1>7 DEF PassIInv

(* So does the search, whatever it finds and wherever the list puts it.    *)
LEMMA OfferedRows ==
  ASSUME NEW rows \in Seq(Bits), NEW x \in Bits, NEW new \in Offered(rows, x) PROVE new \in Seq(Bits)
<1>1. CASE new = rows
  BY <1>1
<1>2. ASSUME NEW rank \in 0 .. Len(rows),
             new = SubSeq(Inserted(rows, x, rank), 1, Pass!MIN(Len(rows) + 1, QLEN))
      PROVE  new \in Seq(Bits)
  <2>1. \A k \in 1 .. Len(rows) : rows[k] \in Bits
    BY ElementOfSeq
  <2>2. rank \in Int /\ 0 <= rank /\ rank <= Len(rows) /\ Len(rows) \in Nat
    OBVIOUS
  <2>3. SubSeq(rows, 1, rank) \in Seq(Bits) /\ Len(SubSeq(rows, 1, rank)) = rank
    <3>1. \A k \in 1 .. rank : rows[k] \in Bits
      BY <2>1, <2>2
    <3> QED BY <2>2, <3>1, SubSeqProperties
  <2>4. /\ SubSeq(rows, rank + 1, Len(rows)) \in Seq(Bits)
        /\ Len(SubSeq(rows, rank + 1, Len(rows))) = Len(rows) - rank
    <3>1. \A k \in rank + 1 .. Len(rows) : rows[k] \in Bits
      BY <2>1, <2>2
    <3>2. rank + 1 \in Int /\ Len(rows) \in Int
      BY <2>2
    <3> QED BY <2>2, <3>1, <3>2, SubSeqProperties
  <2>5. SubSeq(rows, 1, rank) \o <<x>> \in Seq(Bits) /\ Len(SubSeq(rows, 1, rank) \o <<x>>) = rank + 1
    <3>1. <<x>> \in Seq(Bits) /\ Len(<<x>>) = 1
      OBVIOUS
    <3> QED BY <2>3, <3>1, ConcatProperties
  <2>6. PICK c : c = Inserted(rows, x, rank)
    OBVIOUS
  <2>7. c \in Seq(Bits) /\ Len(c) = Len(rows) + 1
    <3>1. PICK left \in Seq(Bits) : left = SubSeq(rows, 1, rank) \o <<x>> /\ Len(left) = rank + 1
      BY <2>5
    <3>2. PICK right \in Seq(Bits) : right = SubSeq(rows, rank + 1, Len(rows)) /\ Len(right) = Len(rows) - rank
      BY <2>4
    <3>3. c = left \o right
      BY <2>6, <3>1, <3>2 DEF Inserted
    <3>4. c \in Seq(Bits) /\ Len(c) = Len(left) + Len(right)
      BY <3>3, ConcatProperties
    <3> QED BY <2>2, <3>1, <3>2, <3>4
  <2>8. PICK n \in Nat : n = Pass!MIN(Len(rows) + 1, QLEN) /\ n <= Len(c)
    BY <2>2, <2>7, SubmatrixSearchAssumption DEF Pass!MIN
  <2>9. \A k \in 1 .. n : c[k] \in Bits
    BY <2>2, <2>7, <2>8, ElementOfSeq
  <2> QED BY <1>2, <2>6, <2>8, <2>9, SubSeqProperties
<1> QED BY <1>1, <1>2 DEF Offered

LEMMA SearchInv == ASSUME PassIInv, Search PROVE PassIInv'
<1> USE DEF Search, passing, window
<1>1. SortInv'
  BY SortKept DEF PassIInv
<1>2. pc = "search" /\ pc' = "backbone"
  OBVIOUS
<1>3. TypeInv'
  <2>1. listed' \in Seq(Bits)
    BY OfferedRows DEF PassIInv, TypeInv
  <2> QED BY <2>1 DEF PassIInv, TypeInv
<1>4. BackboneInv'
  BY <1>2 DEF PassIInv, BackboneInv, BackboneHoldsWindow
<1>5. PassInv'
  BY <1>2 DEF PassIInv, PassInv, Pass!PassLength, Pass!MaxNodes_sub
<1>6. WindowInv'
  BY DEF PassIInv, WindowInv, Reduce!ProjectionExact, Reduce!SubBefore
<1>7. ChangeInv'
  BY ChangeKept DEF PassIInv, sorting
<1> QED BY <1>1, <1>3, <1>4, <1>5, <1>6, <1>7 DEF PassIInv

(* So does taking a backbone that holds a window.                          *)
LEMMA PickBackboneInv == ASSUME PassIInv, PickBackbone, BackboneHoldsWindow' PROVE PassIInv'
<1>1. SortInv'
  BY SortKept DEF PassIInv, PickBackbone
<1>2. /\ pc = "backbone" /\ pc' = "pass" /\ algo = "d" /\ window_pc = "done" /\ change = 0 /\ sub_qubo = NoSubQubo
      /\ listed \in Seq(Bits)
  BY DEF PickBackbone, PassIInv, BackboneInv, PassInv, TypeInv
<1>3. /\ batch' = solution' /\ entered' = solution' /\ before' = solution'
      /\ Pcompress' = Diff.index /\ len_index' = Diff.len /\ l_max' = Pass!PassLength(Diff.len)
      /\ UNCHANGED <<solution, listed, algo, l, qubo, Icompress, sub_qubo, sub_solution, t_change, window_pc, change>>
  BY DEF PickBackbone, Diff
<1>4. solution' \in Bits
  BY <1>3 DEF PassIInv, TypeInv
<1>5. TypeInv'
  BY <1>3, <1>4 DEF PassIInv, TypeInv
<1>6. BackboneInv'
  BY <1>2, <1>3 DEF PassIInv, BackboneInv, Diff
<1>7. PassInv'
  <2>1. len_index' \in Nat
    BY <1>2, <1>3, BackboneInOrder
  <2>2. (l_max = Pass!PassLength(len_index))'
    BY <1>3 DEF Pass!PassLength, Pass!MaxNodes_sub
  <2> QED BY <1>2, <1>3, <2>1, <2>2 DEF PassIInv, PassInv
<1>8. Reduce!ProjectionExact'
  <2>1. /\ before' = batch' /\ batch' \in Bits /\ qubo' \in [UpperPair -> Int] /\ sub_qubo' = NoSubQubo
        /\ Icompress' \in [Position -> Var] /\ sub_solution' \in Small!Bits
    BY <1>2, <1>3, <1>5, BitsFacts DEF TypeInv
  <2>2. PICK t : t = [k \in Position |-> before'[Icompress'[k]]]
    OBVIOUS
  <2>3. t \in Small!Bits
    BY <2>1, <2>2, BitsFacts
  <2>4. Small!Objective(sub_qubo', t) = 0 /\ Small!Objective(sub_qubo', sub_solution') = 0 /\ Objective(qubo', batch') \in Int
    BY <2>1, <2>3, NothingGained, TermsInt
  <2>5. Reduce!SubBefore' = t
    BY <2>2, SubNames DEF Reduce!SubBefore
  <2> QED BY <2>1, <2>4, <2>5, ObjectiveNames DEF Reduce!ProjectionExact
<1>9. WindowInv'
  BY <1>2, <1>3, <1>8 DEF WindowInv
<1>10. ChangeInv'
  <2>1. Moved(batch)' = {}
    BY <1>3 DEF Moved
  <2> QED BY <1>2, <1>3, <2>1, FS_EmptySet DEF ChangeInv
<1> QED BY <1>1, <1>5, <1>6, <1>7, <1>9, <1>10 DEF PassIInv

(* So does the next window: it is in order, and with -a o it begins where  *)
(* the one before it ended.                                                *)
LEMMA NextWindowInv == ASSUME PassIInv, NextWindow PROVE PassIInv'
<1>1. SortInv'
  BY SortKept DEF PassIInv, NextWindow
<1>2. /\ pc = "pass" /\ pc' = "pass" /\ window_pc = "done" /\ window_pc' = "reduce" /\ l < l_max
      /\ l' = l + subMatrix /\ before' = batch
      /\ Icompress' \in Windows(Pass!WindowStart)
      /\ UNCHANGED <<sorting, backbone, algo, l_max, qubo, batch, sub_qubo, sub_solution, solution, change, entered>>
  BY DEF NextWindow
<1>3. /\ Icompress' \in Reduce!Ascending
      /\ algo = "o" => l + subMatrix <= qubo_size /\ Held(Icompress') = {index[l + k] : k \in Position}
  BY <1>2, WindowFacts
<1>4. Icompress' \in [Position -> Var]
  BY <1>3, AscendingFacts
<1>5. l \in Nat /\ l' \in Nat /\ l' >= subMatrix
  BY <1>2, SmallSize DEF PassIInv, TypeInv
<1>6. TypeInv'
  BY <1>2, <1>4, <1>5 DEF PassIInv, TypeInv, backbone
<1>7. BackboneInv'
  BY <1>2 DEF PassIInv, BackboneInv, backbone, Diff, BackboneHoldsWindow
<1>8. PassInv'
  BY <1>2, <1>5 DEF PassIInv, PassInv, backbone, Pass!PassLength, Pass!MaxNodes_sub
<1>9. WindowInv'
  <2>1. Reduce!ProjectionExact'
    BY <1>2 DEF Reduce!ProjectionExact
  <2> QED BY <1>2, <1>3, <2>1 DEF WindowInv
<1>10. ChangeInv'
  <2>1. Moved(batch)' = Moved(batch)
    BY <1>2 DEF Moved
  <2>2. ASSUME algo = "o"
        PROVE  /\ l' <= qubo_size /\ Moved(batch) \subseteq IndexUpTo(l - subMatrix)'
               /\ Held(Icompress') = {index'[l' - subMatrix + k] : k \in Position}
    <3>1. l' - subMatrix = l /\ index' = index
      BY <1>2, <1>5, SmallSize DEF sorting
    <3>2. Moved(batch) \subseteq IndexUpTo(l)
      BY <1>2, <2>2 DEF PassIInv, ChangeInv
    <3>3. IndexUpTo(l - subMatrix)' = IndexUpTo(l)
      BY <3>1 DEF IndexUpTo
    <3>4. {index'[l' - subMatrix + k] : k \in Position} = {index[l + k] : k \in Position}
      BY <3>1
    <3> QED BY <1>2, <1>3, <1>5, <2>2, <3>2, <3>3, <3>4
  <2>3. /\ change >= Cardinality(Moved(batch))
        /\ algo = "o" => change = Cardinality(Moved(batch))
    BY DEF PassIInv, ChangeInv
  <2>4. Held(Icompress)' = Held(Icompress') /\ algo' = algo /\ change' = change
    BY <1>2 DEF Held
  <2> QED BY <1>2, <1>5, <2>1, <2>2, <2>3, <2>4 DEF ChangeInv
<1> QED BY <1>1, <1>6, <1>7, <1>8, <1>9, <1>10 DEF PassIInv

(* So does cutting out the sub-QUBO.                                       *)
LEMMA ReduceInv == ASSUME PassIInv, SolveWindow, Reduce!reduce PROVE PassIInv'
<1>1. SortInv'
  BY SortKept DEF PassIInv, SolveWindow
<1>2. /\ pc = "pass" /\ pc' = "pass" /\ window_pc = "reduce" /\ window_pc' = "sample"
      /\ sub_qubo' = Reduce!Reduced(qubo, batch, Icompress)
      /\ sub_solution' = [k \in Position |-> batch[Icompress[k]]]
      /\ UNCHANGED <<sorting, backbone, passing, solution, change, entered, qubo, batch, Icompress, before>>
  BY SubNames DEF SolveWindow, Reduce!reduce
<1>3. sub_solution' \in Reduce!Sub!Bits
  <2>1. batch \in [Var -> {0, 1}] /\ Icompress \in [Position -> Var]
    BY BitsFacts DEF PassIInv, TypeInv
  <2>2. sub_solution' \in [Position -> {0, 1}]
    BY <1>2, <2>1
  <2> QED BY <2>2, BitsFacts
<1>4. TypeInv'
  BY <1>2, <1>3 DEF PassIInv, TypeInv, backbone, passing
<1>5. BackboneInv'
  BY <1>2 DEF PassIInv, BackboneInv, backbone, passing, Diff, BackboneHoldsWindow
<1>6. PassInv'
  BY <1>2 DEF PassIInv, PassInv, backbone, passing, Pass!PassLength, Pass!MaxNodes_sub
<1>7. WindowInv'
  <2>1. Reduce!ProjectionExact'
    BY <1>2 DEF Reduce!ProjectionExact
  <2>2. Reduce!Reduced(qubo, batch, Icompress)' = Reduce!Reduced(qubo, batch, Icompress)
    BY <1>2
  <2> QED BY <1>2, <2>1, <2>2 DEF PassIInv, WindowInv
<1>8. ChangeInv'
  BY <1>2, ChangeKept DEF PassIInv, sorting, passing
<1> QED BY <1>1, <1>4, <1>5, <1>6, <1>7, <1>8 DEF PassIInv

(* So does any answer of the sub-sampler.                                  *)
LEMMA SamplerInv == ASSUME PassIInv, SolveWindow, Reduce!sub_sampler PROVE PassIInv'
<1>1. SortInv'
  BY SortKept DEF PassIInv, SolveWindow
<1>2. /\ pc = "pass" /\ pc' = "pass" /\ window_pc = "sample" /\ window_pc' = "project"
      /\ sub_solution' \in Reduce!Sub!Bits
      /\ UNCHANGED <<sorting, backbone, passing, solution, change, entered, qubo, batch, Icompress, sub_qubo, before>>
  BY DEF SolveWindow, Reduce!sub_sampler
<1>3. TypeInv'
  BY <1>2 DEF PassIInv, TypeInv, backbone, passing
<1>4. BackboneInv'
  BY <1>2 DEF PassIInv, BackboneInv, backbone, passing, Diff, BackboneHoldsWindow
<1>5. PassInv'
  BY <1>2 DEF PassIInv, PassInv, backbone, passing, Pass!PassLength, Pass!MaxNodes_sub
<1>6. WindowInv'
  <2>1. Reduce!ProjectionExact'
    BY <1>2 DEF Reduce!ProjectionExact
  <2>2. Reduce!Reduced(qubo, batch, Icompress)' = Reduce!Reduced(qubo, batch, Icompress)
    BY <1>2
  <2> QED BY <1>2, <2>1, <2>2 DEF PassIInv, WindowInv
<1>7. ChangeInv'
  BY <1>2, ChangeKept DEF PassIInv, sorting, passing
<1> QED BY <1>1, <1>3, <1>4, <1>5, <1>6, <1>7 DEF PassIInv

(* What a projected window adds to the bits moved in the pass.             *)
LEMMA MovedByProjection ==
  ASSUME TypeInv, Icompress \in Reduce!Ascending, NEW y, y = Reduce!Projected(batch, Icompress, sub_solution),
         NEW C, C = {k \in Position : batch[Icompress[k]] # sub_solution[k]}
  PROVE  /\ Cardinality(C) \in Nat
         /\ Moved(y) \subseteq Moved(batch) \cup Held(Icompress)
         /\ Cardinality(Moved(y)) <= Cardinality(Moved(batch)) + Cardinality(C)
         /\ Moved(batch) \cap Held(Icompress) = {} =>
              Cardinality(Moved(y)) = Cardinality(Moved(batch)) + Cardinality(C)
<1>1. batch \in Bits /\ sub_solution \in Small!Bits
  BY BitsFacts DEF TypeInv
<1>2. PICK D : D = {i \in Var : y[i] # batch[i]}
  OBVIOUS
<1>3. IsFiniteSet(D) /\ Cardinality(D) = Cardinality(C) /\ Cardinality(C) \in Nat /\ D \subseteq Held(Icompress)
  BY <1>1, <1>2, ChangedBits
<1>4. PICK A : A = Moved(batch)
  OBVIOUS
<1>5. PICK B : B = Moved(y)
  OBVIOUS
<1>6. /\ IsFiniteSet(A) /\ Cardinality(A) \in Nat /\ IsFiniteSet(B) /\ Cardinality(B) \in Nat
  BY <1>4, <1>5, MovedFinite
<1>7. B \subseteq A \cup D
  BY <1>2, <1>4, <1>5 DEF Moved
<1>8. PICK m \in Nat : m = Cardinality(A \cap D)
  BY <1>3, <1>6, FS_Intersection, FS_CardinalityType
<1>9. IsFiniteSet(A \cup D) /\ Cardinality(A \cup D) = Cardinality(A) + Cardinality(D) - m
  BY <1>3, <1>6, <1>8, FS_Union
<1>10. Cardinality(B) <= Cardinality(A \cup D)
  BY <1>7, <1>9, FS_Subset
<1>11. ASSUME A \cap Held(Icompress) = {} PROVE Cardinality(B) = Cardinality(A) + Cardinality(C)
  <2>1. A \cap D = {}
    BY <1>3, <1>11
  <2>2. m = 0
    BY <1>8, <2>1, FS_EmptySet
  <2>3. B = A \cup D
    BY <1>2, <1>4, <1>5, <2>1 DEF Moved
  <2> QED BY <1>3, <1>6, <1>9, <2>2, <2>3
<1> QED BY <1>3, <1>4, <1>5, <1>6, <1>7, <1>8, <1>9, <1>10, <1>11

(* So does the projection: the window has gained what the batch gains, and *)
(* moved what it counts.                                                   *)
LEMMA ProjectWindowInv == ASSUME PassIInv, ProjectWindow PROVE PassIInv'
<1>1. SortInv'
  BY SortKept DEF PassIInv, ProjectWindow
<1>2. PICK C : C = {k \in Position : batch[Icompress[k]] # sub_solution[k]}
  OBVIOUS
<1>3. /\ pc = "pass" /\ pc' = "pass" /\ window_pc = "project" /\ window_pc' = "done"
      /\ batch' = Reduce!Projected(batch, Icompress, sub_solution)
      /\ change' = change + Cardinality(C)
      /\ UNCHANGED <<sorting, backbone, passing, solution, entered, qubo, Icompress, sub_qubo, sub_solution, before>>
  <2>1. Reduce!Changes(Icompress, sub_solution) = Cardinality(C)
    <3>1. batch \in Bits /\ Icompress \in Reduce!Ascending /\ sub_solution \in Small!Bits
      BY BitsFacts DEF PassIInv, TypeInv, WindowInv, ProjectWindow, Reduce!Project
    <3> QED BY <1>2, <3>1, ChangesFacts
  <2>2. /\ pc = "pass" /\ pc' = pc /\ window_pc = "project" /\ window_pc' = "done"
        /\ batch' = Reduce!Projected(batch, Icompress, sub_solution)
        /\ t_change' = Reduce!Changes(Icompress, sub_solution) /\ change' = change + t_change'
        /\ UNCHANGED <<sorting, backbone, passing, solution, entered, qubo, Icompress, sub_qubo, sub_solution, before>>
    BY DEF ProjectWindow, Reduce!Project, Total
  <2> QED BY <2>1, <2>2
<1>4. /\ before = batch /\ Icompress \in Reduce!Ascending
      /\ sub_qubo = Reduce!Reduced(qubo, batch, Icompress)
      /\ batch \in Bits /\ sub_solution \in Small!Bits /\ qubo \in [UpperPair -> Int]
      /\ change \in Nat /\ l \in Nat /\ TypeInv
  BY <1>3, BitsFacts DEF PassIInv, WindowInv, TypeInv
<1>5. /\ Cardinality(C) \in Nat
      /\ Moved(batch') \subseteq Moved(batch) \cup Held(Icompress)
      /\ Cardinality(Moved(batch')) <= Cardinality(Moved(batch)) + Cardinality(C)
      /\ Moved(batch) \cap Held(Icompress) = {} =>
           Cardinality(Moved(batch')) = Cardinality(Moved(batch)) + Cardinality(C)
  BY <1>2, <1>3, <1>4, MovedByProjection
<1>6. batch' \in Bits
  BY <1>3, <1>4, ProjectedFacts
<1>7. TypeInv'
  BY <1>3, <1>4, <1>5, <1>6 DEF PassIInv, TypeInv, backbone, passing
<1>8. BackboneInv'
  BY <1>3 DEF PassIInv, BackboneInv, backbone, passing, Diff, BackboneHoldsWindow
<1>9. PassInv'
  BY <1>3 DEF PassIInv, PassInv, backbone, passing, Pass!PassLength, Pass!MaxNodes_sub
<1>10. Reduce!ProjectionExact'
  <2>1. PICK t : t = [k \in Position |-> batch[Icompress[k]]]
    OBVIOUS
  <2>2. Objective(qubo, batch') - Objective(qubo, batch) =
          Small!Objective(sub_qubo, sub_solution) - Small!Objective(sub_qubo, t)
    BY <1>3, <1>4, <2>1, WindowExact
  <2>3. Reduce!SubBefore' = t
    BY <1>3, <1>4, <2>1, SubNames DEF Reduce!SubBefore
  <2> QED BY <1>3, <1>4, <2>2, <2>3, ObjectiveNames DEF Reduce!ProjectionExact
<1>11. WindowInv'
  BY <1>3, <1>10 DEF WindowInv
<1>12. ChangeInv'
  <2>1. /\ change >= Cardinality(Moved(batch)) /\ Cardinality(Moved(batch)) \in Nat
        /\ Cardinality(Moved(batch')) \in Nat
    BY MovedFinite DEF PassIInv, ChangeInv
  <2>2. /\ Moved(batch)' = Moved(batch') /\ algo' = algo /\ l' = l /\ index' = index
        /\ change' = change + Cardinality(C) /\ window_pc' = "done"
    BY <1>3 DEF Moved, passing, sorting
  <2>3. change' >= Cardinality(Moved(batch'))
    BY <1>4, <1>5, <2>1, <2>2
  <2>4. ASSUME algo = "o"
        PROVE  /\ change' = Cardinality(Moved(batch')) /\ l' <= qubo_size
               /\ Moved(batch') \subseteq IndexUpTo(l)'
    <3>1. /\ change = Cardinality(Moved(batch)) /\ l <= qubo_size /\ l >= subMatrix
          /\ Moved(batch) \subseteq IndexUpTo(l - subMatrix)
          /\ Held(Icompress) = {index[l - subMatrix + k] : k \in Position}
      BY <1>3, <2>4 DEF PassIInv, ChangeInv
    <3>2. PICK r \in Nat : r = l - subMatrix
      BY <1>4, <3>1, SmallSize
    <3>3. /\ \A k \in 0 .. r - 1 : k \in Int /\ k < r /\ k \in Var /\ k \in 0 .. l - 1
          /\ \A k \in Position : k \in Int /\ 0 <= k /\ r + k \in Var /\ r + k \in 0 .. l - 1
      BY <1>4, <3>1, <3>2, SmallSize DEF Position, Var
    <3>4. \A a, b \in Var : index[a] = index[b] => a = b
      BY OrderFacts DEF PassIInv
    <3>5. Moved(batch) \subseteq {index[k] : k \in 0 .. r - 1} /\ Held(Icompress) = {index[r + k] : k \in Position}
      BY <3>1, <3>2 DEF IndexUpTo
    <3>6. Moved(batch) \cap Held(Icompress) = {}
      <4> SUFFICES ASSUME NEW i \in Moved(batch), i \in Held(Icompress) PROVE FALSE
        OBVIOUS
      <4>1. PICK a \in 0 .. r - 1 : i = index[a]
        BY <3>5
      <4>2. PICK b \in Position : i = index[r + b]
        BY <3>5
      <4>3. a = r + b
        BY <3>3, <3>4, <4>1, <4>2
      <4> QED BY <3>2, <3>3, <4>3
    <3>7. Moved(batch') \subseteq {index[k] : k \in 0 .. l - 1}
      BY <1>5, <3>3, <3>5
    <3>8. IndexUpTo(l)' = {index[k] : k \in 0 .. l - 1}
      BY <2>2 DEF IndexUpTo
    <3> QED BY <1>5, <2>2, <3>1, <3>6, <3>7, <3>8
  <2> QED BY <2>2, <2>3, <2>4 DEF ChangeInv
<1> QED BY <1>1, <1>7, <1>8, <1>9, <1>11, <1>12 DEF PassIInv

(* So does the end of the pass.                                            *)
LEMMA TakeBatchInv == ASSUME PassIInv, TakeBatch PROVE PassIInv'
<1> USE DEF TakeBatch, backbone, passing, window
<1>1. SortInv'
  BY SortKept DEF PassIInv
<1>2. TypeInv'
  BY DEF PassIInv, TypeInv
<1>3. BackboneInv'
  BY DEF PassIInv, BackboneInv, Diff, BackboneHoldsWindow
<1>4. PassInv'
  BY DEF PassIInv, PassInv, Pass!PassLength, Pass!MaxNodes_sub
<1>5. WindowInv'
  BY DEF PassIInv, WindowInv, Reduce!ProjectionExact, Reduce!SubBefore
<1>6. ChangeInv'
  BY ChangeKept DEF PassIInv, sorting
<1> QED BY <1>1, <1>2, <1>3, <1>4, <1>5, <1>6 DEF PassIInv

(* So does a step that changes nothing.                                    *)
LEMMA PassUnchanged == ASSUME PassIInv, UNCHANGED vars PROVE PassIInv'
<1> USE DEF vars, backbone, passing, window
<1>1. SortInv'
  BY SortKept DEF PassIInv
<1>2. TypeInv' /\ BackboneInv' /\ PassInv'
  BY DEF PassIInv, TypeInv, BackboneInv, PassInv, Diff, BackboneHoldsWindow, Pass!PassLength, Pass!MaxNodes_sub
<1>3. WindowInv'
  BY DEF PassIInv, WindowInv, Reduce!ProjectionExact, Reduce!SubBefore
<1>4. ChangeInv'
  BY ChangeKept DEF PassIInv, sorting
<1> QED BY <1>1, <1>2, <1>3, <1>4 DEF PassIInv

(* What is left with a short backbone stays: the list, the backbone and    *)
(* the index are never written again.                                      *)
LEMMA ShortInvStep == ASSUME ShortInv, [Next]_vars PROVE ShortInv'
<1>1. pc \in {"pass", "done"}
  BY DEF ShortInv
<1>2. NextWindow \/ SolveWindow \/ ProjectWindow \/ TakeBatch \/ Done \/ UNCHANGED vars
  BY <1>1 DEF Next, SortStep, Prime, Search, PickBackbone
<1>3. /\ UNCHANGED <<flip_cost, index, stack, lo, hi, si, sj, sort_pc>>
      /\ UNCHANGED <<listed, Pcompress, len_index, algo>>
      /\ pc' \in {"pass", "done"}
  <2>1. CASE NextWindow
    BY <2>1 DEF NextWindow, sorting, backbone
  <2>2. CASE SolveWindow
    BY <2>2 DEF SolveWindow, sorting, backbone, passing
  <2>3. CASE ProjectWindow
    BY <2>3 DEF ProjectWindow, sorting, backbone, passing
  <2>4. CASE TakeBatch
    BY <2>4 DEF TakeBatch, sorting, backbone, passing
  <2>5. CASE Done \/ UNCHANGED vars
    BY <1>1, <2>5 DEF Done, vars, sorting, backbone, passing
  <2> QED BY <1>2, <2>1, <2>2, <2>3, <2>4, <2>5
<1>4. SortInv'
  BY <1>3, SortKept DEF ShortInv, sorting
<1> QED BY <1>3, <1>4 DEF ShortInv, Diff, BackboneHoldsWindow

(* A backbone that holds no window leaves that much.                       *)
LEMMA PickShort == ASSUME PassIInv, PickBackbone, ~BackboneHoldsWindow' PROVE ShortInv'
<1>1. SortInv'
  BY SortKept DEF PassIInv, PickBackbone
<1> QED BY <1>1 DEF PassIInv, TypeInv, BackboneInv, PickBackbone, ShortInv, Diff

(* Every step of the pass keeps one or the other.                          *)
LEMMA PassIInvStep == ASSUME PassIInv, [Next]_vars PROVE PassIInv' \/ ShortInv'
<1>1. CASE SortStep
  BY <1>1, SortStepInv
<1>2. CASE Prime
  BY <1>2, PrimeInv
<1>3. CASE Search
  BY <1>3, SearchInv
<1>4. CASE PickBackbone
  BY <1>4, PickBackboneInv, PickShort
<1>5. CASE NextWindow
  BY <1>5, NextWindowInv
<1>6. CASE SolveWindow
  <2>1. ~Reduce!Overrun
    <3>1. window_pc = "reduce" => Icompress \in [Reduce!SubVar -> Reduce!Var]
      BY AscendingFacts, SubNames DEF PassIInv, WindowInv
    <3> QED BY <3>1 DEF Reduce!Overrun
  <2>2. Reduce!reduce \/ Reduce!sub_sampler
    BY <1>6, <2>1 DEF SolveWindow
  <2> QED BY <1>6, <2>2, ReduceInv, SamplerInv
<1>7. CASE ProjectWindow
  BY <1>7, ProjectWindowInv
<1>8. CASE TakeBatch
  BY <1>8, TakeBatchInv
<1>9. CASE Done
  BY <1>9, PassUnchanged DEF Done
<1>10. CASE UNCHANGED vars
  BY <1>10, PassUnchanged
<1> QED BY <1>1, <1>2, <1>3, <1>4, <1>5, <1>6, <1>7, <1>8, <1>9, <1>10 DEF Next

(* One of the two holds throughout the pass.                               *)
LEMMA PassInvariant == Spec => [](PassIInv \/ ShortInv)
<1>1. Init => PassIInv
  BY PassIInvInit
<1>2. (PassIInv \/ ShortInv) /\ [Next]_vars => (PassIInv \/ ShortInv)'
  BY PassIInvStep, ShortInvStep
<1> QED BY <1>1, <1>2, PTL DEF Spec
------------------------------------------------------------------------------
(* The index is in order when a pass takes its windows from it (-a o,      *)
(* solver.cc:851).                                                         *)
THEOREM PassSortsDown == Spec => []SortsDown
<1>1. PassIInv \/ ShortInv => SortsDown
  BY SortInvSorts DEF PassIInv, ShortInv, SortsDown
<1> QED BY <1>1, PassInvariant, PTL

(* The sort's stack stays within its allocation in every pass.             *)
THEOREM StackFitsInPass == Spec => []StackFits
<1>1. PassIInv \/ ShortInv => StackFits
  BY StackBounded DEF PassIInv, ShortInv, SortInv, StackFits
<1> QED BY <1>1, PassInvariant, PTL

(* The backbone is what the listed solutions differ in, however long it    *)
(* is, and the solution -a d starts from keeps what they agree on          *)
(* (util.cc:453-556).                                                      *)
THEOREM PassBackboneExact == Spec => []BackboneExact
<1>1. ASSUME PassIInv \/ ShortInv PROVE BackboneExact
  <2>1. listed \in Seq(Bits)
    BY <1>1 DEF PassIInv, TypeInv, ShortInv
  <2>2. ASSUME algo = "d", pc \in {"pass", "done"} PROVE {Pcompress[k] : k \in 0 .. len_index - 1} = Differing
    <3>1. Pcompress = Diff.index /\ len_index = Diff.len
      BY <1>1, <2>2 DEF PassIInv, BackboneInv, ShortInv
    <3> QED BY <2>1, <3>1, BackboneInOrder
  <2>3. ASSUME pc = "search", Len(listed) > 1 PROVE \A i \in Var \ Differing : solution[i] = listed[1][i]
    <3>1. solution = solution_population(listed, Bias)
      BY <1>1, <2>3 DEF PassIInv, BackboneInv, ShortInv
    <3> QED BY <2>1, <2>3, <3>1, PopularKept
  <2> QED BY <2>2, <2>3 DEF BackboneExact
<1> QED BY <1>1, PassInvariant, PTL

(* Every decomposition hands reduce() distinct variables in ascending      *)
(* order (solver.cc:516), -a d unless its backbone is shorter than a       *)
(* window.                                                                 *)
THEOREM PassWindowsAscend == Spec => []WindowsAscend
<1>1. PassIInv \/ ShortInv => WindowsAscend
  BY DEF PassIInv, WindowInv, ShortInv, WindowsAscend
<1> QED BY <1>1, PassInvariant, PTL

(* What a sub-sampler gains in a window the batch gains in the whole       *)
(* (solver.cc:412-414), whatever it makes of the window's bits, unless the *)
(* backbone of -a d is shorter than a window.                              *)
THEOREM PassProjectionExact == Spec => []ProjectionExact
<1>1. PassIInv \/ ShortInv => ProjectionExact
  BY DEF PassIInv, WindowInv, ShortInv, ProjectionExact
<1> QED BY <1>1, PassInvariant, PTL

(* The changes counted over the windows are no fewer than the bits moved   *)
(* and with -a o exactly those (solver.cc:980), under the same condition.  *)
THEOREM PassChangeCounts == Spec => []ChangeCounts
<1>1. PassIInv \/ ShortInv => ChangeCounts
  BY DEF PassIInv, PassInv, ChangeInv, ShortInv, ChangeCounts, Moved
<1> QED BY <1>1, PassInvariant, PTL
================================================================================
