---------------------------- MODULE OuterLoopProofs ----------------------------
(***************************************************************************)
(* Proofs about the list of solutions and about the main loop that keeps   *)
(* it, for every problem, every number of rows and every limit.  What the  *)
(* searches return is any solution, so that the claims about the loop rest *)
(* on what the first part, up to LoopInv, shows of the list.               *)
(***************************************************************************)
EXTENDS OuterLoop, FiniteSetTheorems, TLAPS

(* A sorted order starts with a largest energy, ends with a smallest one   *)
(* and visits every row (val_index_sort, util.cc:394-426).                 *)
LEMMA OrderFacts ==
  ASSUME NEW energies \in [Slot -> Int], NEW order \in Orders(energies)
  PROVE  /\ order \in [Slot -> Slot]
         /\ 0 \in Slot /\ Worst \in Slot
         /\ \A row \in Slot : \E rank \in Slot : order[rank] = row
         /\ \A row \in Slot : /\ energies[order[0]] >= energies[row]
                              /\ energies[row] >= energies[order[Worst]]
<1>1. /\ order \in [Slot -> Slot]
      /\ \A row \in Slot : \E rank \in Slot : order[rank] = row
  BY DEF Orders, Bijection, Injection, Surjection
<1>2. \A i, j \in Slot : i < j => energies[order[i]] >= energies[order[j]]
  BY DEF Orders
<1>3. 0 \in Slot /\ Worst \in Slot
  BY TableAssumption DEF Slot, Worst
<1>4. ASSUME NEW row \in Slot
      PROVE  /\ energies[order[0]] >= energies[row]
             /\ energies[row] >= energies[order[Worst]]
  <2>1. PICK rank \in Slot : order[rank] = row
    BY <1>1
  <2>2. /\ rank = 0 \/ 0 < rank
        /\ rank = Worst \/ rank < Worst
    BY TableAssumption DEF Slot, Worst
  <2>3. energies[order[0]] \in Int /\ energies[order[Worst]] \in Int
    BY <1>1, <1>3
  <2>4. energies[order[0]] >= energies[row]
    BY <1>2, <1>3, <2>1, <2>2, <2>3
  <2>5. energies[row] >= energies[order[Worst]]
    BY <1>2, <1>3, <2>1, <2>2, <2>3
  <2> QED BY <2>4, <2>5
<1> QED BY <1>1, <1>3, <1>4

(* A rank returned with a result is between 0 and nMax (util.cc:380-386).  *)
LEMMA PosType ==
  ASSUME NEW order, NEW energies, NEW compare
  PROVE  val_index_pos(order, energies, compare) \in 0 .. nMax
<1> DEFINE Better == {i \in Slot : energies[order[i]] > compare}
<1>1. IsFiniteSet(Slot) /\ Cardinality(Slot) = nMax
  BY FS_Interval, TableAssumption DEF Slot
<1>2. IsFiniteSet(Better) /\ Cardinality(Better) <= nMax
  BY <1>1, FS_Subset
<1>3. Cardinality(Better) \in Nat
  BY <1>2, FS_CardinalityType
<1> QED BY <1>2, <1>3, TableAssumption DEF val_index_pos

(* The state the proofs work in.                                           *)
USE DEF Return

LEMMA StoreType ==
  ASSUME TypeOK, NEW row \in Slot, NEW now \in Solution, NEW energy \in Int,
         Store(row, now, energy)
  PROVE  /\ solution_list' \in [Slot -> Solution]
         /\ energy_list' \in [Slot -> Int]
         /\ solution_counts' \in [Slot -> 0 .. MaxHits]
         /\ num_nq_solutions' \in 0 .. nMax
<1>1. 1 \in 0 .. MaxHits
  BY TableAssumption
<1>2. num_nq_solutions' \in 0 .. nMax
  BY TableAssumption DEF Store, TypeOK, MIN
<1> QED BY <1>1, <1>2 DEF Store, TypeOK

(* Every action keeps the types.                                           *)
LEMMA ManageType ==
  ASSUME TypeOK, NEW now \in Solution, NEW energy \in Readings[now],
         manage_solutions(now, energy)
  PROVE  TypeOK'
<1> USE TableAssumption
<1>1. energy \in Int
  OBVIOUS
<1>2. offered' \subseteq Solution \X Int
  BY <1>1 DEF manage_solutions, TypeOK
<1>3. PICK sorted \in Orders(energy_list) :
         \/ NewHigh(now, energy, sorted)
         \/ NotGoodEnough(now, energy, sorted)
         \/ Duplicate(now, energy, sorted)
         \/ NewAtKnownEnergy(now, energy, sorted)
         \/ NewBetween(now, energy, sorted)
  BY DEF manage_solutions
<1>4. energy_list \in [Slot -> Int]
  BY DEF TypeOK
<1>5. sorted \in [Slot -> Slot] /\ sorted[0] \in Slot /\ sorted[Worst] \in Slot
  BY <1>3, <1>4, OrderFacts
<1>6. CASE NewHigh(now, energy, sorted)
  <2>1. /\ solution_list' \in [Slot -> Solution]
        /\ energy_list' \in [Slot -> Int]
        /\ solution_counts' \in [Slot -> 0 .. MaxHits]
        /\ num_nq_solutions' \in 0 .. nMax
    BY <1>1, <1>5, <1>6, StoreType DEF NewHigh
  <2>2. list_order' \in [Slot -> Slot]
    BY <1>6, <2>1, OrderFacts DEF NewHigh
  <2>3. result' \in [code : Code, count : 0 .. MaxHits, pos : 0 .. nMax]
    BY <1>6, PosType DEF NewHigh, Code
  <2> QED BY <1>2, <2>1, <2>2, <2>3 DEF TypeOK
<1>7. CASE NotGoodEnough(now, energy, sorted)
  <2>1. list_order' \in [Slot -> Slot]
    BY <1>4, <1>7, OrderFacts DEF NotGoodEnough
  <2>2. result' \in [code : Code, count : 0 .. MaxHits, pos : 0 .. nMax]
    BY <1>7, PosType DEF NotGoodEnough, Code
  <2> QED BY <1>2, <1>7, <2>1, <2>2 DEF TypeOK, NotGoodEnough, rows
<1>8. CASE Duplicate(now, energy, sorted)
  <2>1. PICK j \in Slot :
           /\ solution_counts[sorted[j]] < MaxHits
           /\ solution_counts' = [solution_counts EXCEPT ![sorted[j]] = @ + 1]
           /\ list_order' = sorted
           /\ UNCHANGED <<solution_list, energy_list, num_nq_solutions>>
           /\ \/ Return("DUPLICATE_HIGHEST_ENERGY", solution_counts'[sorted[0]],
                        val_index_pos(sorted, energy_list, energy))
              \/ Return("DUPLICATE_ENERGY", solution_counts'[sorted[j]],
                        val_index_pos(sorted, energy_list, energy))
    BY <1>8 DEF Duplicate, Matches, Ties
  <2>2. solution_counts' \in [Slot -> 0 .. MaxHits]
    BY <1>5, <2>1 DEF TypeOK
  <2>3. result' \in [code : Code, count : 0 .. MaxHits, pos : 0 .. nMax]
    BY <1>5, <2>1, <2>2, PosType DEF Code
  <2> QED BY <1>2, <1>5, <2>1, <2>2, <2>3 DEF TypeOK
<1>9. CASE NewAtKnownEnergy(now, energy, sorted)
  <2>1. /\ solution_list' \in [Slot -> Solution]
        /\ energy_list' \in [Slot -> Int]
        /\ solution_counts' \in [Slot -> 0 .. MaxHits]
        /\ num_nq_solutions' \in 0 .. nMax
    BY <1>1, <1>5, <1>9, StoreType DEF NewAtKnownEnergy
  <2>2. list_order' \in [Slot -> Slot]
    BY <1>9, <2>1, OrderFacts DEF NewAtKnownEnergy
  <2>3. result' \in [code : Code, count : 0 .. MaxHits, pos : 0 .. nMax]
    BY <1>9, PosType DEF NewAtKnownEnergy, Code
  <2> QED BY <1>2, <2>1, <2>2, <2>3 DEF TypeOK
<1>10. CASE NewBetween(now, energy, sorted)
  <2>1. /\ solution_list' \in [Slot -> Solution]
        /\ energy_list' \in [Slot -> Int]
        /\ solution_counts' \in [Slot -> 0 .. MaxHits]
        /\ num_nq_solutions' \in 0 .. nMax
    BY <1>1, <1>5, <1>10, StoreType DEF NewBetween
  <2>2. list_order' \in [Slot -> Slot]
    BY <1>10, <2>1, OrderFacts DEF NewBetween
  <2>3. result' \in [code : Code, count : 0 .. MaxHits, pos : 0 .. nMax]
    BY <1>5, <1>10, <2>1, <2>2, PosType DEF NewBetween, Code
  <2> QED BY <1>2, <2>1, <2>2, <2>3 DEF TypeOK
<1> QED BY <1>3, <1>6, <1>7, <1>8, <1>9, <1>10

(* Every variable of the list keeps its type, whatever is offered.         *)
THEOREM TypeCorrect == TableSpec => []TypeOK
<1>1. TableInit => TypeOK
  BY TableAssumption DEF TableInit, TypeOK, Code
<1>2. TypeOK /\ [TableNext]_table => TypeOK'
  <2> SUFFICES ASSUME TypeOK, [TableNext]_table PROVE TypeOK'
    OBVIOUS
  <2>1. CASE TableNext
    BY <2>1, ManageType DEF TableNext
  <2>2. CASE UNCHANGED table
    BY <2>2 DEF table, TypeOK
  <2> QED BY <2>1, <2>2
<1> QED BY <1>1, <1>2, PTL DEF TableSpec
------------------------------------------------------------------------------
(* What every call does to the rows: at most one row, the worst of the     *)
(* order, is overwritten, by the offered pair and never by a worse energy; *)
(* some row is then at least as good as the offer.                         *)
RowsImprove(now, energy) ==
  /\ energy_list' \in [Slot -> Int]
  /\ list_order' \in Orders(energy_list')
  /\ \A row \in Slot : energy_list'[row] >= energy_list[row]
  /\ \E row \in Slot : energy_list'[row] >= energy
  /\ \A row \in Slot : \/ Pair(row)' = Pair(row)
                       \/ Pair(row)' = <<now, energy>>

LEMMA StoreImproves ==
  ASSUME IInv, NEW now \in Solution, NEW energy \in Readings[now],
         NEW sorted \in Orders(energy_list),
         energy >= energy_list[sorted[Worst]],
         Store(sorted[Worst], now, energy),
         list_order' \in Orders(energy_list')
  PROVE  RowsImprove(now, energy)
<1>1. energy \in Int
  BY TableAssumption
<1>2. energy_list \in [Slot -> Int] /\ solution_list \in [Slot -> Solution]
  BY DEF IInv, TypeOK
<1>3. sorted[Worst] \in Slot
  BY <1>2, OrderFacts
<1> QED BY <1>1, <1>2, <1>3 DEF RowsImprove, Store, Pair

LEMMA ManageImproves ==
  ASSUME IInv, NEW now \in Solution, NEW energy \in Readings[now],
         manage_solutions(now, energy)
  PROVE  RowsImprove(now, energy)
<1>1. PICK sorted \in Orders(energy_list) :
         \/ NewHigh(now, energy, sorted)
         \/ NotGoodEnough(now, energy, sorted)
         \/ Duplicate(now, energy, sorted)
         \/ NewAtKnownEnergy(now, energy, sorted)
         \/ NewBetween(now, energy, sorted)
  BY DEF manage_solutions
<1>2. energy \in Int
  BY TableAssumption
<1>3. energy_list \in [Slot -> Int]
  BY DEF IInv, TypeOK
<1>4. /\ sorted \in [Slot -> Slot] /\ sorted[0] \in Slot /\ sorted[Worst] \in Slot
      /\ energy_list[sorted[0]] >= energy_list[sorted[Worst]]
      /\ \A row \in Slot : energy_list[row] >= energy_list[sorted[Worst]]
  BY <1>1, <1>3, OrderFacts
<1>5. CASE NewHigh(now, energy, sorted)
  <2>1. energy >= energy_list[sorted[Worst]]
    BY <1>2, <1>3, <1>4, <1>5 DEF NewHigh
  <2> QED BY <1>5, <2>1, StoreImproves DEF NewHigh
<1>6. CASE NotGoodEnough(now, energy, sorted)
  BY <1>2, <1>3, <1>4, <1>6 DEF NotGoodEnough, RowsImprove, rows, Pair
<1>7. CASE Duplicate(now, energy, sorted)
  <2>1. PICK j \in Slot : energy_list[sorted[j]] = energy
    BY <1>7 DEF Duplicate, Matches, Ties
  <2>2. /\ list_order' = sorted /\ energy_list' = energy_list
        /\ solution_list' = solution_list
    BY <1>7 DEF Duplicate
  <2> QED BY <1>1, <1>2, <1>3, <1>4, <2>1, <2>2 DEF RowsImprove, Pair
<1>8. CASE NewAtKnownEnergy(now, energy, sorted)
  <2>1. PICK i \in Slot : energy_list[sorted[i]] = energy
    BY <1>8 DEF NewAtKnownEnergy, Ties
  <2>2. energy >= energy_list[sorted[Worst]]
    BY <1>4, <2>1
  <2> QED BY <1>1, <1>8, <2>2, StoreImproves DEF NewAtKnownEnergy
<1>9. CASE NewBetween(now, energy, sorted)
  <2>1. energy >= energy_list[sorted[Worst]]
    BY <1>2, <1>3, <1>4, <1>9 DEF NewBetween
  <2> QED BY <1>9, <2>1, StoreImproves DEF NewBetween
<1> QED BY <1>1, <1>5, <1>6, <1>7, <1>8, <1>9

LEMMA InductiveStep == IInv /\ [TableNext]_table => IInv'
<1> SUFFICES ASSUME IInv, [TableNext]_table PROVE IInv'
  OBVIOUS
<1>1. CASE TableNext
  <2>1. PICK now \in Solution :
           \E energy \in Readings[now] : manage_solutions(now, energy)
    BY <1>1 DEF TableNext
  <2>1a. PICK energy \in Readings[now] : manage_solutions(now, energy)
    BY <2>1
  <2>2. RowsImprove(now, energy)
    BY <2>1a, ManageImproves
  <2>3. TypeOK'
    BY <2>1a, ManageType DEF IInv
  <2>4. offered' = offered \cup {<<now, energy>>}
    BY <2>1a DEF manage_solutions
  <2>5. OrderSorted'
    BY <2>2 DEF RowsImprove, OrderSorted
  <2>6. RowsOffered'
    <3> SUFFICES ASSUME NEW row \in Slot, energy_list'[row] > BIGNEGFP
                 PROVE  Pair(row)' \in offered'
      BY DEF RowsOffered, Occupied
    <3>1. CASE Pair(row)' = <<now, energy>>
      BY <3>1, <2>4
    <3>2. CASE Pair(row)' = Pair(row)
      <4>1. row \in Occupied
        BY <3>2 DEF Pair, Occupied
      <4> QED BY <4>1, <3>2, <2>4 DEF IInv, RowsOffered
    <3> QED BY <3>1, <3>2, <2>2 DEF RowsImprove
  <2>7. OffersBeaten'
    <3> SUFFICES ASSUME NEW pair \in offered'
                 PROVE  \E row \in Slot : energy_list'[row] >= pair[2]
      BY DEF OffersBeaten
    <3>1. CASE pair \in offered
      <4>1. PICK row \in Slot : energy_list[row] >= pair[2]
        BY <3>1 DEF IInv, OffersBeaten
      <4>2. energy_list[row] \in Int /\ energy_list'[row] \in Int /\ pair[2] \in Int
        BY <2>2, <3>1 DEF IInv, TypeOK, RowsImprove
      <4> QED BY <2>2, <4>1, <4>2 DEF RowsImprove
    <3>2. CASE pair = <<now, energy>>
      BY <2>2, <3>2 DEF RowsImprove
    <3> QED BY <2>4, <3>1, <3>2
  <2>8. OffersRead'
    BY <2>4 DEF IInv, OffersRead
  <2> QED BY <2>3, <2>5, <2>6, <2>7, <2>8 DEF IInv
<1>2. CASE UNCHANGED table
  BY <1>2 DEF table, IInv, TypeOK, OrderSorted, RowsOffered, Occupied, Pair,
             OffersBeaten, OffersRead
<1> QED BY <1>1, <1>2

(* The empty list has the invariant, and every call keeps it.              *)
LEMMA InvInit == TableInit => IInv
<1> SUFFICES ASSUME TableInit PROVE IInv
  OBVIOUS
<1>1. TypeOK
  BY TableAssumption DEF TableInit, TypeOK, Code
<1>2. Occupied = {} /\ offered = {}
  BY TableAssumption DEF TableInit, Occupied
<1> QED BY <1>1, <1>2 DEF IInv, OrderSorted, RowsOffered, OffersBeaten, OffersRead

(* The order is sorted, rows hold offers and no offer beats all rows, for  *)
(* every number of rows (util.cc:604-746).                                 *)
THEOREM InductiveInvariant == TableSpec => []IInv
BY InvInit, InductiveStep, PTL DEF TableSpec

(* The first row of the order is as good as any row, and some row is as    *)
(* good as any offer.                                                      *)
LEMMA InvBest == IInv => BestNeverLost
<1> SUFFICES ASSUME IInv, offered # {}
             PROVE  /\ Pair(list_order[0]) \in offered
                    /\ \A pair \in offered : energy_list[list_order[0]] >= pair[2]
  BY DEF BestNeverLost
<1> DEFINE best == list_order[0]
<1>1. energy_list \in [Slot -> Int] /\ list_order \in Orders(energy_list)
  BY DEF IInv, TypeOK, OrderSorted
<1>2. best \in Slot /\ \A row \in Slot : energy_list[best] >= energy_list[row]
  BY <1>1, OrderFacts
<1>3. ASSUME NEW pair \in offered PROVE energy_list[best] >= pair[2]
  <2>1. PICK row \in Slot : energy_list[row] >= pair[2]
    BY DEF IInv, OffersBeaten
  <2>2. energy_list[best] \in Int /\ energy_list[row] \in Int /\ pair[2] \in Int
    BY <1>1, <1>2 DEF IInv, TypeOK
  <2> QED BY <1>2, <2>1, <2>2
<1>4. best \in Occupied
  <2>1. PICK pair \in offered : TRUE
    OBVIOUS
  <2>2. pair[1] \in Solution /\ pair[2] \in Readings[pair[1]]
    BY DEF IInv, TypeOK, OffersRead
  <2>3. pair[2] \in Int /\ pair[2] > BIGNEGFP
    BY <2>2, TableAssumption
  <2> QED BY <1>1, <1>2, <1>3, <2>3, TableAssumption DEF Occupied
<1> QED BY <1>3, <1>4 DEF IInv, RowsOffered

(* The best pair any search returned is the one solve() reads through      *)
(* list_order[0], whatever the solutions, energies and number of rows.     *)
THEOREM BestKept == TableSpec => []BestNeverLost
BY InvBest, InductiveInvariant, PTL

(* Only an offer with the code of a new best energy raises the energy of   *)
(* the first row of the order.                                             *)
LEMMA BestRises ==
  ASSUME IInv, offered # {}, NEW now \in Solution, NEW energy \in Readings[now],
         manage_solutions(now, energy),
         energy_list'[list_order'[0]] > energy_list[list_order[0]]
  PROVE  result'.code = "NEW_HIGH_ENERGY_UNIQUE_SOL"
<1>1. PICK sorted \in Orders(energy_list) :
         \/ NewHigh(now, energy, sorted)
         \/ NotGoodEnough(now, energy, sorted)
         \/ Duplicate(now, energy, sorted)
         \/ NewAtKnownEnergy(now, energy, sorted)
         \/ NewBetween(now, energy, sorted)
  BY DEF manage_solutions
<1>2. /\ energy_list \in [Slot -> Int] /\ energy \in Int
      /\ list_order \in Orders(energy_list)
  BY TableAssumption DEF IInv, TypeOK, OrderSorted
<1>3. /\ energy_list' \in [Slot -> Int] /\ list_order' \in Orders(energy_list')
  BY ManageImproves DEF RowsImprove
<1> DEFINE top == energy_list[list_order[0]]
<1>4. /\ top \in Int /\ \A row \in Slot : top >= energy_list[row] /\ energy_list[row] \in Int
      /\ sorted[0] \in Slot /\ energy_list[sorted[0]] \in Int
  BY <1>2, OrderFacts
<1>5. list_order'[0] \in Slot
  BY <1>3, OrderFacts
<1>6. CASE NewHigh(now, energy, sorted)
  BY <1>6 DEF NewHigh
<1>7. CASE energy_list' = energy_list
  BY <1>4, <1>5, <1>7
<1>8. CASE energy <= top /\ Store(sorted[Worst], now, energy)
  <2>1. \A row \in Slot : energy_list'[row] = energy \/ energy_list'[row] = energy_list[row]
    BY <1>2, <1>8 DEF Store
  <2> QED BY <1>2, <1>4, <1>5, <1>8, <2>1
<1>9. NewAtKnownEnergy(now, energy, sorted) => energy <= top /\ Store(sorted[Worst], now, energy)
  <2> SUFFICES ASSUME NewAtKnownEnergy(now, energy, sorted) PROVE energy <= top
    BY DEF NewAtKnownEnergy
  <2>1. PICK rank \in Slot : energy_list[sorted[rank]] = energy
    BY DEF NewAtKnownEnergy, Ties
  <2>2. sorted[rank] \in Slot
    BY <1>2, OrderFacts
  <2> QED BY <1>4, <2>1, <2>2
<1>10. NewBetween(now, energy, sorted) => energy <= top /\ Store(sorted[Worst], now, energy)
  BY <1>2, <1>4 DEF NewBetween
<1>11. NotGoodEnough(now, energy, sorted) \/ Duplicate(now, energy, sorted) => energy_list' = energy_list
  BY DEF NotGoodEnough, Duplicate, rows
<1> QED BY <1>1, <1>6, <1>7, <1>8, <1>9, <1>10, <1>11
------------------------------------------------------------------------------
(* Searches agree on the energy of a solution.                             *)
ExactEnergies == \A v \in Solution : \A e, f \in Readings[v] : e = f

LEMMA StoreUnique ==
  ASSUME IInv, RowsUnique, NEW now \in Solution, NEW energy \in Readings[now],
         NEW new \in Slot, Store(new, now, energy),
         \A row \in Occupied : solution_list[row] # now
  PROVE  RowsUnique'
<1> SUFFICES ASSUME NEW r \in Occupied', NEW s \in Occupied',
                    solution_list'[r] = solution_list'[s]
             PROVE  r = s
  BY DEF RowsUnique
<1>1. ASSUME NEW row \in Occupied', row # new
      PROVE  row \in Occupied /\ solution_list'[row] = solution_list[row]
  BY <1>1 DEF Occupied, Store, IInv, TypeOK
<1>2. solution_list'[new] = now
  BY DEF Store, IInv, TypeOK
<1>3. CASE r # new /\ s # new
  BY <1>1, <1>3 DEF RowsUnique
<1>4. CASE r = new \/ s = new
  BY <1>1, <1>2, <1>4
<1> QED BY <1>3, <1>4

(* With exact energies no solution is in two rows (util.cc:601): duplicates *)
(* are recognised among the rows of equal energy.                           *)
THEOREM NoDuplicateRows ==
  ASSUME ExactEnergies PROVE TableSpec => []RowsUnique
<1>1. TableInit => RowsUnique
  BY TableAssumption DEF TableInit, RowsUnique, Occupied
<1>2. IInv /\ RowsUnique /\ [TableNext]_table => RowsUnique'
  <2> SUFFICES ASSUME IInv, RowsUnique, [TableNext]_table PROVE RowsUnique'
    OBVIOUS
  <2>1. CASE UNCHANGED table
    BY <2>1 DEF table, RowsUnique, Occupied
  <2>2. CASE TableNext
    <3>1. PICK now \in Solution :
             \E energy \in Readings[now] : manage_solutions(now, energy)
      BY <2>2 DEF TableNext
    <3>1a. PICK energy \in Readings[now] : manage_solutions(now, energy)
      BY <3>1
    <3>2. PICK sorted \in Orders(energy_list) :
             \/ NewHigh(now, energy, sorted)
             \/ NotGoodEnough(now, energy, sorted)
             \/ Duplicate(now, energy, sorted)
             \/ NewAtKnownEnergy(now, energy, sorted)
             \/ NewBetween(now, energy, sorted)
      BY <3>1a DEF manage_solutions
    <3>3. energy \in Int /\ energy_list \in [Slot -> Int]
      BY TableAssumption DEF IInv, TypeOK
    <3>4. /\ sorted[0] \in Slot /\ sorted[Worst] \in Slot
          /\ \A row \in Slot : \E rank \in Slot : sorted[rank] = row
          /\ \A row \in Slot : energy_list[sorted[0]] >= energy_list[row]
      BY <3>2, <3>3, OrderFacts
    <3>5. ASSUME NEW row \in Occupied, solution_list[row] = now
          PROVE  energy_list[row] = energy
      <4>1. Pair(row) \in offered
        BY DEF IInv, RowsOffered
      <4>2. energy_list[row] \in Readings[now]
        BY <3>5, <4>1 DEF IInv, OffersRead, Pair
      <4> QED BY <4>2 DEF ExactEnergies
    <3>6. CASE NewHigh(now, energy, sorted)
      <4>1. \A row \in Occupied : solution_list[row] # now
        BY <3>3, <3>4, <3>5, <3>6 DEF NewHigh, Occupied
      <4> QED BY <3>4, <3>6, <4>1, StoreUnique DEF NewHigh
    <3>7. CASE NotGoodEnough(now, energy, sorted)
      BY <3>7 DEF NotGoodEnough, rows, RowsUnique, Occupied
    <3>8. CASE Duplicate(now, energy, sorted)
      BY <3>8 DEF Duplicate, RowsUnique, Occupied
    <3>9. CASE NewAtKnownEnergy(now, energy, sorted)
      <4>1. ASSUME NEW row \in Occupied, solution_list[row] = now
            PROVE  FALSE
        <5>1. PICK rank \in Slot : sorted[rank] = row
          BY <3>4 DEF Occupied
        <5>2. rank \in Matches(now, energy, sorted)
          BY <3>5, <4>1, <5>1 DEF Matches, Ties
        <5> QED BY <3>9, <5>2 DEF NewAtKnownEnergy
      <4> QED BY <3>4, <3>9, <4>1, StoreUnique DEF NewAtKnownEnergy
    <3>10. CASE NewBetween(now, energy, sorted)
      <4>1. ASSUME NEW row \in Occupied, solution_list[row] = now
            PROVE  FALSE
        <5>1. PICK rank \in Slot : sorted[rank] = row
          BY <3>4 DEF Occupied
        <5>2. rank \in Ties(energy, sorted)
          BY <3>5, <4>1, <5>1 DEF Ties
        <5> QED BY <3>10, <5>2 DEF NewBetween
      <4> QED BY <3>4, <3>10, <4>1, StoreUnique DEF NewBetween
    <3> QED BY <3>2, <3>6, <3>7, <3>8, <3>9, <3>10
  <2> QED BY <2>1, <2>2
<1> QED BY <1>1, <1>2, InductiveInvariant, PTL DEF TableSpec
------------------------------------------------------------------------------
(* The number of solutions is that of the rows in use.                     *)
RowsCounted == num_nq_solutions = Cardinality(Occupied)

LEMMA OccupiedFinite ==
  /\ IsFiniteSet(Slot) /\ Cardinality(Slot) = nMax
  /\ IsFiniteSet(Occupied) /\ Cardinality(Occupied) \in Nat /\ Cardinality(Occupied) <= nMax
<1>1. IsFiniteSet(Slot) /\ Cardinality(Slot) = nMax
  BY FS_Interval, TableAssumption DEF Slot
<1>2. Occupied \in SUBSET Slot
  BY DEF Occupied
<1> QED BY <1>1, <1>2, FS_Subset, FS_CardinalityType

(* A row that is free is taken only as the worst one; when the worst one is*)
(* in use, so are all.                                                     *)
LEMMA StoreCounts ==
  ASSUME TypeOK, RowsCounted, NEW now, NEW energy \in Int, energy > BIGNEGFP,
         NEW sorted \in Orders(energy_list), Store(sorted[Worst], now, energy)
  PROVE  RowsCounted'
<1> DEFINE row == sorted[Worst]
<1>1. /\ energy_list \in [Slot -> Int] /\ row \in Slot
      /\ \A r \in Slot : energy_list[r] >= energy_list[row]
  <2>1. energy_list \in [Slot -> Int]
    BY DEF TypeOK
  <2> QED BY <2>1, OrderFacts
<1> HIDE DEF row
<1>2. /\ energy_list' = [energy_list EXCEPT ![row] = energy]
      /\ num_nq_solutions' = MIN(num_nq_solutions + 1, nMax)
  BY DEF Store, row
<1>3. Occupied' = Occupied \cup {row}
  BY <1>1, <1>2 DEF Occupied
<1>4. Cardinality(Occupied') <= nMax /\ Cardinality(Occupied') \in Nat
  <2>1. Occupied' \in SUBSET Slot
    BY DEF Occupied
  <2> QED BY <2>1, OccupiedFinite, FS_Subset, FS_CardinalityType
<1>5. CASE row \notin Occupied
  <2>1. Cardinality(Occupied') = Cardinality(Occupied) + 1
    BY <1>3, <1>5, OccupiedFinite, FS_AddElement
  <2> QED BY <1>2, <1>4, <2>1, OccupiedFinite, TableAssumption DEF RowsCounted, MIN
<1>6. CASE row \in Occupied
  <2>1. Occupied = Slot /\ Occupied' = Slot
    BY <1>1, <1>3, <1>6, TableAssumption DEF Occupied
  <2> QED BY <1>2, <2>1, OccupiedFinite, TableAssumption DEF RowsCounted, MIN
<1> QED BY <1>5, <1>6

LEMMA CountStep == IInv /\ RowsCounted /\ [TableNext]_table => RowsCounted'
<1> SUFFICES ASSUME IInv, RowsCounted, [TableNext]_table PROVE RowsCounted'
  OBVIOUS
<1>1. CASE UNCHANGED table
  BY <1>1 DEF table, RowsCounted, Occupied
<1>2. CASE TableNext
  <2>1. PICK now \in Solution : \E energy \in Readings[now] : manage_solutions(now, energy)
    BY <1>2 DEF TableNext
  <2>2. PICK energy \in Readings[now] : manage_solutions(now, energy)
    BY <2>1
  <2>3. energy \in Int /\ energy > BIGNEGFP /\ TypeOK
    BY TableAssumption DEF IInv
  <2>4. PICK sorted \in Orders(energy_list) :
           \/ NewHigh(now, energy, sorted)
           \/ NotGoodEnough(now, energy, sorted)
           \/ Duplicate(now, energy, sorted)
           \/ NewAtKnownEnergy(now, energy, sorted)
           \/ NewBetween(now, energy, sorted)
    BY <2>2 DEF manage_solutions
  <2>5. CASE Store(sorted[Worst], now, energy)
    BY <2>3, <2>5, StoreCounts
  <2>6. CASE UNCHANGED <<energy_list, num_nq_solutions>>
    BY <2>6 DEF RowsCounted, Occupied
  <2> QED BY <2>4, <2>5, <2>6 DEF NewHigh, NotGoodEnough, Duplicate, NewAtKnownEnergy, NewBetween, rows
<1> QED BY <1>1, <1>2

(* In a sorted order the rows in use come first: their ranks are closed    *)
(* downwards, and as many as there are rows in use.                        *)
LEMMA FirstRanks ==
  ASSUME energy_list \in [Slot -> Int], NEW order \in Orders(energy_list), NEW rank \in Slot
  PROVE  rank < Cardinality(Occupied) <=> order[rank] \in Occupied
<1> DEFINE R == {i \in Slot : order[i] \in Occupied}
           f == [i \in R |-> order[i]]
<1>1. /\ order \in [Slot -> Slot]
      /\ \A i, j \in Slot : order[i] = order[j] => i = j
      /\ \A r \in Slot : \E i \in Slot : order[i] = r
  BY DEF Orders, Bijection, Injection, Surjection, IsInjective
<1>2. ASSUME NEW i \in Slot, NEW j \in R, i <= j PROVE i \in R
  <2>1. i = j \/ i < j
    BY <1>2 DEF Slot
  <2>2. energy_list[order[i]] >= energy_list[order[j]]
    BY <1>1, <2>1 DEF Orders
  <2> QED BY <1>1, <2>2, TableAssumption DEF Occupied
<1>3. IsFiniteSet(R) /\ Cardinality(R) = Cardinality(Occupied)
  <2>1. R \in SUBSET Slot
    OBVIOUS
  <2>2. IsFiniteSet(R)
    BY <2>1, OccupiedFinite, FS_Subset
  <2>3. f \in [R -> Occupied]
    OBVIOUS
  <2>4. \A i, j \in R : f[i] = f[j] => i = j
    BY <1>1
  <2>5. \A r \in Occupied : \E i \in R : f[i] = r
    BY <1>1 DEF Occupied
  <2>6. f \in Bijection(R, Occupied)
    BY <2>3, <2>4, <2>5 DEF Bijection, Injection, Surjection, IsInjective
  <2> HIDE DEF f, R
  <2>7. ExistsBijection(R, Occupied)
    BY <2>6 DEF ExistsBijection
  <2> QED BY <2>2, <2>7, FS_Bijection
<1>4. rank \in Nat /\ rank \in Slot /\ \A i \in 0 .. rank : i \in Slot /\ i <= rank
  BY TableAssumption DEF Slot
<1>5. rank \in R <=> order[rank] \in Occupied
  OBVIOUS
<1>6. \A i \in R : i \in Slot
  OBVIOUS
<1> HIDE DEF R, f
<1>7. CASE rank \in R
  <2>1. (0 .. rank) \in SUBSET R
    BY <1>2, <1>4, <1>7
  <2>2. Cardinality(0 .. rank) = rank + 1
    BY <1>4, FS_Interval
  <2>3. Cardinality(0 .. rank) <= Cardinality(R)
    BY <1>3, <2>1, FS_Subset
  <2> QED BY <1>3, <1>4, <1>5, <1>7, <2>2, <2>3, OccupiedFinite
<1>8. CASE rank \notin R
  <2>1. \A i \in R : ~(rank <= i)
    BY <1>2, <1>4, <1>8
  <2>2. R \in SUBSET (0 .. rank - 1)
    BY <1>4, <1>6, <2>1 DEF Slot
  <2>3. rank - 1 \in Int /\ 0 \in Int
    BY <1>4
  <2>4. IsFiniteSet(0 .. rank - 1) /\ Cardinality(0 .. rank - 1) = (IF 0 > rank - 1 THEN 0 ELSE rank - 1 - 0 + 1)
    BY <2>3, FS_Interval, Zenon
  <2>5. Cardinality(0 .. rank - 1) = rank
    BY <1>4, <2>4
  <2>6. Cardinality(R) <= Cardinality(0 .. rank - 1)
    BY <2>2, <2>4, FS_Subset
  <2> QED BY <1>3, <1>4, <1>5, <1>8, <2>5, <2>6, OccupiedFinite
<1> QED BY <1>7, <1>8

(* The first num_nq_solutions ranks are the rows in use, whatever was      *)
(* offered: the backbone of -a d and the output read those.                *)
THEOREM RanksInUse == TableSpec => []OccupiedFirst
<1>1. TableInit => RowsCounted
  <2> SUFFICES ASSUME TableInit PROVE RowsCounted
    OBVIOUS
  <2>1. num_nq_solutions = 0 /\ Occupied = {}
    BY TableAssumption DEF TableInit, Occupied
  <2> QED BY <2>1, FS_EmptySet DEF RowsCounted
<1>2. IInv /\ RowsCounted => OccupiedFirst
  BY FirstRanks DEF IInv, TypeOK, OrderSorted, RowsCounted, OccupiedFirst
<1> QED BY <1>1, <1>2, CountStep, InductiveInvariant, PTL DEF TableSpec
------------------------------------------------------------------------------
(* That the list implements BestPool: no two rows hold one pair, a list    *)
(* with free rows holds all that was offered, and no pair that is not held *)
(* is better than one that is.                                             *)
PairsUnique == \A r, s \in Occupied : Pair(r) = Pair(s) => r = s
FullOrAll   == Occupied = Slot \/ Kept = offered
LostWorse   == \A lost \in offered \ Kept, row \in Occupied : lost[2] <= energy_list[row]

PoolInv == IsFiniteSet(offered) /\ PairsUnique /\ FullOrAll /\ LostWorse

(* A pair that is new takes the place of the worst one, or a free row.     *)
LEMMA StoreKeepsBest ==
  ASSUME IInv, PoolInv, NEW now \in Solution, NEW energy \in Int, energy > BIGNEGFP,
         NEW sorted \in Orders(energy_list), Store(sorted[Worst], now, energy),
         energy >= energy_list[sorted[Worst]],
         <<now, energy>> \notin Kept, offered' = offered \cup {<<now, energy>>}
  PROVE  PoolInv' /\ Kept' \subseteq Kept \cup {<<now, energy>>}
<1> DEFINE row == sorted[Worst]
           pair == <<now, energy>>
<1>1. /\ energy_list \in [Slot -> Int] /\ solution_list \in [Slot -> Solution] /\ row \in Slot
      /\ \A r \in Slot : energy_list[r] >= energy_list[row]
  <2>1. energy_list \in [Slot -> Int] /\ solution_list \in [Slot -> Solution]
    BY DEF IInv, TypeOK
  <2> QED BY <2>1, OrderFacts
<1>2. /\ energy >= energy_list[row]
      /\ energy_list' = [energy_list EXCEPT ![row] = energy]
      /\ solution_list' = [solution_list EXCEPT ![row] = now]
  BY DEF Store
<1> HIDE DEF row
<1>3. /\ Pair(row)' = pair /\ energy_list'[row] = energy
      /\ \A r \in Slot : r # row => Pair(r)' = Pair(r) /\ energy_list'[r] = energy_list[r]
  BY <1>1, <1>2 DEF Pair
<1>4. Occupied' = Occupied \cup {row}
  BY <1>1, <1>2 DEF Occupied
<1>5. Kept' = {Pair(r) : r \in Occupied \ {row}} \cup {pair}
  <2>1. Kept' = {Pair(r)' : r \in Occupied'}
    BY DEF Kept
  <2>2. Occupied \in SUBSET Slot
    BY DEF Occupied
  <2> QED BY <1>3, <1>4, <2>1, <2>2
<1>6. Kept = {Pair(r) : r \in Occupied}
  BY DEF Kept
<1>7. PairsUnique'
  <2> SUFFICES ASSUME NEW r \in Occupied', NEW s \in Occupied', Pair(r)' = Pair(s)' PROVE r = s
    BY DEF PairsUnique
  <2>1. \A t \in Occupied' : t # row => t \in Occupied /\ t \in Slot /\ Pair(t) \in Kept
    BY <1>4, <1>6 DEF Occupied
  <2>2. \A t \in Occupied' : t # row => Pair(t)' = Pair(t) /\ Pair(t) # pair
    BY <1>3, <2>1
  <2>3. CASE r = row \/ s = row
    BY <1>3, <2>2, <2>3
  <2>4. CASE r # row /\ s # row
    BY <2>1, <2>2, <2>4 DEF PoolInv, PairsUnique
  <2> QED BY <2>3, <2>4
<1>8. row \in Occupied => Occupied = Slot /\ Occupied' = Slot
  BY <1>1, <1>4, TableAssumption DEF Occupied
<1>9. row \notin Occupied => Kept = offered /\ Kept' = offered'
  BY <1>1, <1>5, <1>6 DEF PoolInv, FullOrAll
<1>10. LostWorse'
  <2> SUFFICES ASSUME NEW lost \in offered', lost \notin Kept', NEW r \in Occupied'
               PROVE  lost[2] <= energy_list'[r]
    BY DEF LostWorse
  <2>1. row \in Occupied /\ r \in Slot /\ lost \in offered
    BY <1>5, <1>8, <1>9
  <2>2. lost[2] \in Int
    BY <2>1 DEF IInv, TypeOK
  <2>3. lost[2] <= energy_list[row]
    <3>1. CASE lost \in Kept
      <4>1. lost = Pair(row)
        BY <1>5, <1>6, <3>1
      <4> QED BY <1>1, <4>1 DEF Pair
    <3>2. CASE lost \notin Kept
      BY <2>1, <3>2 DEF PoolInv, LostWorse
    <3> QED BY <3>1, <3>2
  <2>4. energy_list[row] <= energy_list'[r] /\ energy_list'[r] \in Int /\ energy_list[row] \in Int
    BY <1>1, <1>2, <1>3, <2>1
  <2> QED BY <2>2, <2>3, <2>4
<1>11. IsFiniteSet(offered')
  BY FS_AddElement DEF PoolInv
<1>12. Kept' \subseteq Kept \cup {pair}
  BY <1>5, <1>6
<1> QED BY <1>7, <1>8, <1>9, <1>10, <1>11, <1>12 DEF PoolInv, FullOrAll

(* Every call keeps the best of what was offered.                          *)
LEMMA ManageKeepsBest ==
  ASSUME IInv, PoolInv, NEW now \in Solution, NEW energy \in Readings[now],
         manage_solutions(now, energy)
  PROVE  PoolInv' /\ Kept' \subseteq Kept \cup {<<now, energy>>}
<1> DEFINE pair == <<now, energy>>
<1>1. PICK sorted \in Orders(energy_list) :
         \/ NewHigh(now, energy, sorted)
         \/ NotGoodEnough(now, energy, sorted)
         \/ Duplicate(now, energy, sorted)
         \/ NewAtKnownEnergy(now, energy, sorted)
         \/ NewBetween(now, energy, sorted)
  BY DEF manage_solutions
<1>2. /\ energy \in Int /\ energy > BIGNEGFP /\ offered' = offered \cup {pair}
      /\ energy_list \in [Slot -> Int] /\ solution_list \in [Slot -> Solution]
  BY TableAssumption DEF manage_solutions, IInv, TypeOK
<1>3. /\ sorted[0] \in Slot /\ sorted[Worst] \in Slot
      /\ \A row \in Slot : \E rank \in Slot : sorted[rank] = row
      /\ \A row \in Slot : /\ energy_list[sorted[0]] >= energy_list[row]
                           /\ energy_list[row] >= energy_list[sorted[Worst]]
      /\ sorted \in [Slot -> Slot]
  BY <1>2, OrderFacts
<1>4. \A row \in Slot : Pair(row) = pair => energy_list[row] = energy /\ solution_list[row] = now
  BY DEF Pair
<1>5. ASSUME NEW row \in Slot, Pair(row) = pair
      PROVE  \E rank \in Slot : rank \in Matches(now, energy, sorted) /\ rank \in Ties(energy, sorted)
  BY <1>3, <1>4, <1>5 DEF Matches, Ties
<1>6. pair \in Kept => \E row \in Slot : Pair(row) = pair
  BY DEF Kept, Occupied
<1>7. CASE NewHigh(now, energy, sorted)
  <2>1. pair \notin Kept
    BY <1>2, <1>3, <1>4, <1>6, <1>7 DEF NewHigh
  <2>2. energy >= energy_list[sorted[Worst]]
    BY <1>2, <1>3, <1>7 DEF NewHigh
  <2> QED BY <1>2, <1>7, <2>1, <2>2, StoreKeepsBest DEF NewHigh
<1>8. CASE NewAtKnownEnergy(now, energy, sorted)
  <2>1. pair \notin Kept
    BY <1>5, <1>6, <1>8 DEF NewAtKnownEnergy
  <2>2. energy >= energy_list[sorted[Worst]]
    BY <1>3, <1>8 DEF NewAtKnownEnergy, Ties
  <2> QED BY <1>2, <1>8, <2>1, <2>2, StoreKeepsBest DEF NewAtKnownEnergy
<1>9. CASE NewBetween(now, energy, sorted)
  <2>1. pair \notin Kept
    BY <1>5, <1>6, <1>9 DEF NewBetween
  <2>2. energy >= energy_list[sorted[Worst]]
    BY <1>2, <1>3, <1>9 DEF NewBetween
  <2> QED BY <1>2, <1>9, <2>1, <2>2, StoreKeepsBest DEF NewBetween
<1>10. CASE NotGoodEnough(now, energy, sorted)
  <2>1. UNCHANGED <<energy_list, solution_list>> /\ energy < energy_list[sorted[Worst]]
    BY <1>10 DEF NotGoodEnough, rows
  <2>2. Kept' = Kept /\ Occupied' = Occupied /\ \A r \in Slot : Pair(r)' = Pair(r)
    BY <2>1 DEF Kept, Occupied, Pair
  <2>3. \A row \in Slot : energy_list[row] \in Int /\ energy < energy_list[row]
    BY <1>2, <1>3, <2>1
  <2>4. Occupied = Slot
    BY <1>2, <2>3, TableAssumption DEF Occupied
  <2>5. LostWorse'
    BY <1>2, <2>1, <2>2, <2>3, <2>4 DEF LostWorse, PoolInv
  <2>6. PairsUnique'
    BY <2>2 DEF PoolInv, PairsUnique, Occupied
  <2>7. IsFiniteSet(offered')
    BY <1>2, FS_AddElement DEF PoolInv
  <2> QED BY <2>2, <2>4, <2>5, <2>6, <2>7 DEF PoolInv, FullOrAll
<1>11. CASE Duplicate(now, energy, sorted)
  <2>1. UNCHANGED <<energy_list, solution_list>>
    BY <1>11 DEF Duplicate
  <2>2. Kept' = Kept /\ Occupied' = Occupied /\ \A r \in Slot : Pair(r)' = Pair(r)
    BY <2>1 DEF Kept, Occupied, Pair
  <2>3. PICK j \in Slot : energy_list[sorted[j]] = energy /\ solution_list[sorted[j]] = now
    BY <1>11 DEF Duplicate, Matches, Ties
  <2>4. sorted[j] \in Occupied /\ Pair(sorted[j]) = pair
    BY <1>2, <1>3, <2>3 DEF Occupied, Pair
  <2>5. offered' = offered
    BY <1>2, <2>4 DEF IInv, RowsOffered
  <2>6. PairsUnique'
    BY <2>2 DEF PoolInv, PairsUnique, Occupied
  <2> QED BY <2>1, <2>2, <2>5, <2>6 DEF PoolInv, FullOrAll, LostWorse
<1> QED BY <1>1, <1>7, <1>8, <1>9, <1>10, <1>11

(* The pairs held are as many as there are, at most nMax of them.          *)
LEMMA PoolIsBest == ASSUME IInv, PoolInv PROVE Pool!IsBest(Kept, offered)
<1>1. \A S : Pool!Cardinality(S) = Cardinality(S)
  BY DEF Pool!Cardinality, Cardinality
<1>2. Kept \in SUBSET offered
  BY DEF IInv, RowsOffered, Kept
<1>3. IsFiniteSet(offered) /\ Cardinality(offered) \in Nat
  BY FS_CardinalityType DEF PoolInv
<1>4. IsFiniteSet(Kept) /\ Cardinality(Kept) <= Cardinality(offered)
  BY <1>2, <1>3, FS_Subset
<1>5. Cardinality(Kept) = Cardinality(Occupied)
  <2> DEFINE f == [r \in Occupied |-> Pair(r)]
  <2>1. f \in [Occupied -> Kept] /\ (\A p \in Kept : \E r \in Occupied : f[r] = p)
    BY DEF Kept
  <2>2. \A r, s \in Occupied : f[r] = f[s] => r = s
    BY DEF PoolInv, PairsUnique
  <2>3. f \in Bijection(Occupied, Kept)
    BY <2>1, <2>2 DEF Bijection, Injection, Surjection, IsInjective
  <2> HIDE DEF f
  <2>4. ExistsBijection(Occupied, Kept)
    BY <2>3 DEF ExistsBijection
  <2> QED BY <2>4, OccupiedFinite, FS_Bijection
<1>6. Cardinality(Kept) = (IF Cardinality(offered) < nMax THEN Cardinality(offered) ELSE nMax)
  <2>1. CASE Occupied = Slot
    BY <1>3, <1>4, <1>5, <2>1, OccupiedFinite, TableAssumption
  <2>2. CASE Kept = offered
    BY <1>3, <1>5, <2>2, OccupiedFinite, TableAssumption
  <2> QED BY <2>1, <2>2 DEF PoolInv, FullOrAll
<1>7. \A lost \in offered \ Kept, held \in Kept : lost[2] <= held[2]
  BY DEF PoolInv, LostWorse, Kept, Pair
<1> QED BY <1>1, <1>2, <1>6, <1>7 DEF Pool!IsBest, Pool!EnergyOf

(* The list is at all times a choice of the nMax best pairs offered, and   *)
(* loses one only to one that is as good (util.cc:602), for every number   *)
(* of rows, all solutions and all energies.                                *)
THEOREM ListImplementsBestPool == TableSpec => ImplementsBestPool
<1>1. TableInit => PoolInv /\ Pool!Init
  <2> SUFFICES ASSUME TableInit PROVE PoolInv /\ Pool!Init
    OBVIOUS
  <2>1. Occupied = {} /\ offered = {}
    BY TableAssumption DEF TableInit, Occupied
  <2>2. Kept = {}
    BY <2>1 DEF Kept
  <2>3. IsFiniteSet(offered)
    BY <2>1, FS_EmptySet
  <2> QED BY <2>1, <2>2, <2>3 DEF PoolInv, PairsUnique, FullOrAll, LostWorse, Pool!Init
<1>2. IInv /\ IInv' /\ PoolInv /\ [TableNext]_table => PoolInv' /\ [Pool!Next]_Pool!vars
  <2> SUFFICES ASSUME IInv, IInv', PoolInv, [TableNext]_table PROVE PoolInv' /\ [Pool!Next]_Pool!vars
    OBVIOUS
  <2>1. CASE UNCHANGED table
    BY <2>1 DEF table, PoolInv, PairsUnique, FullOrAll, LostWorse, Kept, Occupied, Pair, Pool!vars
  <2>2. CASE TableNext
    <3>1. PICK now \in Solution : \E energy \in Readings[now] : manage_solutions(now, energy)
      BY <2>2 DEF TableNext
    <3>2. PICK energy \in Readings[now] : manage_solutions(now, energy)
      BY <3>1
    <3>3. PoolInv' /\ Kept' \subseteq Kept \cup {<<now, energy>>}
      BY <3>2, ManageKeepsBest
    <3>4. Pool!IsBest(Kept, offered)'
      BY <3>3, PoolIsBest, PTL
    <3>5. /\ offered' = offered \cup {<<now, energy>>}
          /\ Kept' \subseteq Kept \cup {<<now, energy>>}
          /\ Pool!IsBest(Kept', offered')
      BY <3>2, <3>3, <3>4 DEF manage_solutions
    <3>6. Pool!Offer(<<now, energy>>)
      BY <3>5 DEF Pool!Offer
    <3>7. <<now, energy>> \in UNION {{v} \X Readings[v] : v \in Solution}
      OBVIOUS
    <3>8. Pool!Next
      BY <3>6, <3>7 DEF Pool!Next
    <3> QED BY <3>3, <3>8
  <2> QED BY <2>1, <2>2
<1> QED BY <1>1, <1>2, InductiveInvariant, PTL DEF TableSpec, ImplementsBestPool, Pool!Spec
------------------------------------------------------------------------------
(* What is true around the loop, besides the invariant of the list.  The   *)
(* repeats never count more passes than went by since the best energy last *)
(* rose, because only the code that resets them comes with a new best.     *)
LoopInv ==
  /\ target \in Targets /\ repeats \in Repeats /\ unimproved \in Nat /\ RepeatPass \in Int
  /\ RepeatPass <= unimproved \/ unimproved >= repeats
  /\ pc = "prime" => algo = "d"
  /\ pc \in {"prime", "first search"} => RepeatPass = 0 /\ (algo # "d" => offered = {})
  /\ pc \notin {"prime", "first search"} =>
       /\ offered # {} /\ best_energy \in Int
       /\ best_energy = energy_list[list_order[0]]
  /\ NeverGivesUpEarly

Inv == IInv /\ LoopInv

LEMMA ListBest == IInv => BestNeverLost
BY InvBest

(* The table after an offer.                                               *)
LEMMA OfferKeeps ==
  ASSUME IInv, NEW v \in Solution, NEW energy \in Readings[v], manage_solutions(v, energy)
  PROVE  /\ IInv' /\ BestNeverLost'
         /\ offered' = offered \cup {<<v, energy>>}
         /\ energy \in Int /\ energy_list'[list_order'[0]] \in Int
<1>1. IInv'
  BY InductiveStep DEF TableNext
<1>2. BestNeverLost'
  BY <1>1, ListBest, PTL
<1>3. offered' = offered \cup {<<v, energy>>}
  BY DEF manage_solutions
<1>4. energy \in Int
  BY TableAssumption
<1>5. energy_list'[list_order'[0]] \in Int
  <2>1. 0 \in Slot
    BY TableAssumption DEF Slot
  <2> QED BY <1>1, <2>1 DEF IInv, TypeOK
<1> QED BY <1>1, <1>2, <1>3, <1>4, <1>5

LEMMA UntouchedList == IInv /\ UNCHANGED table => IInv'
BY InductiveStep DEF table

LEMMA LoopInit == Init => Inv
<1> SUFFICES ASSUME Init PROVE Inv
  OBVIOUS
<1>1. TableInit
  BY DEF Init
<1>2. offered = {}
  BY <1>1 DEF TableInit
<1>3. IInv
  BY <1>1, InvInit
<1>4. /\ target \in Targets /\ repeats \in Repeats /\ RepeatPass = 0 /\ unimproved = 0
      /\ pc \in {"prime", "first search"} /\ (pc = "prime" => algo = "d")
  BY DEF Init, Beginnings
<1>5. NeverGivesUpEarly
  BY <1>4 DEF NeverGivesUpEarly
<1>6. RepeatPass <= unimproved /\ RepeatPass \in Int /\ unimproved \in Nat
  <2>1. RepeatPass = 0 /\ unimproved = 0
    BY <1>4
  <2> QED BY <2>1
<1>7. LoopInv
  BY <1>2, <1>4, <1>5, <1>6 DEF LoopInv
<1> QED BY <1>3, <1>7 DEF Inv

LEMMA PrimeKeeps == ASSUME Inv, Prime PROVE Inv'
<1>1. PICK v \in Solution : \E energy \in Readings[v] : manage_solutions(v, energy)
  BY DEF Prime, SearchAndOffer
<1>2. PICK energy \in Readings[v] : manage_solutions(v, energy)
  BY <1>1
<1>3. IInv'
  BY <1>2, OfferKeeps DEF Inv
<1>4. /\ pc' \in {"prime", "first search"} /\ UNCHANGED <<given, counter>> /\ pc = "prime"
  BY DEF Prime
<1> QED BY <1>3, <1>4 DEF Inv, LoopInv, NeverGivesUpEarly, given, counter

(* The first search ends with the best energy of the list: without -a d it *)
(* is the only one offered.                                                *)
LEMMA FirstSearchKeeps == ASSUME Inv, FirstSearch PROVE Inv'
<1>1. PICK v \in Solution : \E energy \in Readings[v] :
         manage_solutions(v, energy) /\ best_energy' = FirstBest(energy)
  BY DEF FirstSearch, SearchAndOffer
<1>2. PICK energy \in Readings[v] : manage_solutions(v, energy) /\ best_energy' = FirstBest(energy)
  BY <1>1
<1>3. /\ IInv' /\ BestNeverLost'
      /\ offered' = offered \cup {<<v, energy>>}
      /\ energy \in Int /\ energy_list'[list_order'[0]] \in Int
  BY <1>2, OfferKeeps DEF Inv
<1>4. /\ pc = "first search" /\ pc' \in {"sub-problems", "done"} /\ UNCHANGED <<given, counter>>
      /\ pc' = "done" => ~Continues(best_energy', RepeatPass)
  BY DEF FirstSearch, Enter
<1>5. PICK e : e = energy_list'[list_order'[0]]
  OBVIOUS
<1>6. offered' # {}
  BY <1>3
<1>7. \E pair \in offered' : pair[2] = e
  BY <1>3, <1>5, <1>6 DEF BestNeverLost, Pair
<1>8. best_energy' = e
  <2>1. CASE algo = "d"
    BY <1>2, <1>5, <2>1 DEF FirstBest
  <2>2. CASE algo # "d"
    <3>1. offered' = {<<v, energy>>}
      BY <1>3, <1>4, <2>2 DEF Inv, LoopInv
    <3> QED BY <1>2, <1>7, <2>2, <3>1 DEF FirstBest
  <2> QED BY <2>1, <2>2
<1>9. target \in Targets /\ (target # NoTarget => target \in Int)
  BY LoopAssumption DEF Inv, LoopInv
<1>10. RepeatPass = 0 /\ unimproved \in Nat /\ repeats \in Int
  BY <1>4, LoopAssumption DEF Inv, LoopInv
<1>11. NeverGivesUpEarly'
  <2> SUFFICES ASSUME pc' = "done" PROVE NeverGivesUpEarly'
    BY DEF NeverGivesUpEarly
  <2>1. /\ ~Continues(best_energy', RepeatPass)
        /\ target' = target /\ repeats' = repeats /\ unimproved' = unimproved
    BY <1>4 DEF given, counter
  <2>2. CASE target # NoTarget
    <3>1. best_energy' >= target
      BY <1>3, <1>5, <1>8, <1>9, <2>1, <2>2 DEF Continues
    <3> QED BY <1>7, <1>8, <2>1, <2>2, <3>1 DEF NeverGivesUpEarly
  <2>3. CASE target = NoTarget
    BY <1>10, <2>1, <2>3 DEF Continues, NeverGivesUpEarly
  <2> QED BY <2>2, <2>3
<1> QED BY <1>3, <1>4, <1>5, <1>6, <1>8, <1>11 DEF Inv, LoopInv, given, counter

(* A new best comes with the code that resets the repeats; any other offer *)
(* counts the pass, and at most one repeat.                                *)
LEMMA FullSearchKeeps == ASSUME Inv, FullSearch PROVE Inv'
<1>1. PICK v \in Solution : \E energy \in Readings[v] : manage_solutions(v, energy)
  BY DEF FullSearch
<1>2. PICK energy \in Readings[v] : manage_solutions(v, energy)
  BY <1>1
<1>3. /\ IInv' /\ BestNeverLost'
      /\ offered' = offered \cup {<<v, energy>>}
      /\ energy_list'[list_order'[0]] \in Int
  BY <1>2, OfferKeeps DEF Inv
<1>4. /\ pc = "full search" /\ best_energy' = energy_list'[list_order'[0]] /\ Count
      /\ unimproved' = (IF best_energy' > best_energy THEN 0 ELSE MIN(unimproved + 1, MaxUnimproved))
      /\ UNCHANGED given
      /\ pc' = (IF Continues(best_energy', RepeatPass') /\ ~TimedOut(clock') THEN "sub-problems" ELSE "done")
  BY DEF FullSearch
<1>5. /\ target \in Targets /\ repeats \in Repeats /\ unimproved \in Nat /\ RepeatPass \in Int
      /\ repeats \in Int /\ MaxUnimproved >= repeats
      /\ RepeatPass <= unimproved \/ unimproved >= repeats
      /\ offered # {} /\ best_energy = energy_list[list_order[0]] /\ best_energy \in Int
  BY <1>4, LoopAssumption DEF Inv, LoopInv
<1>6. best_energy' > best_energy => Improved
  BY <1>2, <1>4, <1>5, BestRises DEF Inv, Improved
<1>7. Improved => RepeatPass' = 0
  BY <1>4 DEF Count
<1>8. /\ RepeatPass' \in Int
      /\ RepeatPass' <= RepeatPass + 1 \/ RepeatPass' = 0
  <2>1. RepeatPass' \in {0, RepeatPass, Increment(RepeatPass)}
    BY <1>4 DEF Count
  <2>2. Increment(RepeatPass) \in Int /\ Increment(RepeatPass) <= RepeatPass + 1
    BY <1>5, LoopAssumption DEF Increment
  <2> QED BY <1>5, <2>1, <2>2
<1>9. /\ unimproved' \in Nat
      /\ RepeatPass' <= unimproved' \/ unimproved' >= repeats
  <2>1. CASE best_energy' > best_energy
    <3>1. unimproved' = 0 /\ RepeatPass' = 0
      BY <1>4, <1>6, <1>7, <2>1
    <3> QED BY <3>1
  <2>2. CASE ~(best_energy' > best_energy)
    <3>1. unimproved' = MIN(unimproved + 1, MaxUnimproved)
      BY <1>4, <2>2
    <3> QED BY <1>5, <1>8, <3>1, LoopAssumption DEF MIN
  <2> QED BY <2>1, <2>2
<1>10. offered' # {} /\ \E pair \in offered' : pair[2] = best_energy'
  BY <1>3, <1>4 DEF BestNeverLost, Pair
<1>11. target' = target /\ repeats' = repeats /\ (target # NoTarget => target \in Int)
  BY <1>4, <1>5, LoopAssumption DEF given
<1>12. NeverGivesUpEarly'
  <2> SUFFICES ASSUME pc' = "done", ~TimedOut(clock') PROVE NeverGivesUpEarly'
    BY DEF NeverGivesUpEarly, TimedOut
  <2>1. ~Continues(best_energy', RepeatPass')
    BY <1>4
  <2>2. CASE target # NoTarget
    <3>1. best_energy' >= target
      <4>1. best_energy' \in Int
        BY <1>3, <1>4
      <4> QED BY <1>11, <2>1, <2>2, <4>1 DEF Continues
    <3> QED BY <1>10, <1>11, <2>2, <3>1 DEF NeverGivesUpEarly
  <2>3. CASE target = NoTarget
    BY <1>5, <1>8, <1>9, <1>11, <2>1, <2>3 DEF Continues, NeverGivesUpEarly
  <2> QED BY <2>2, <2>3
<1> QED BY <1>3, <1>4, <1>5, <1>8, <1>9, <1>10, <1>11, <1>12 DEF Inv, LoopInv, given

LEMMA InvStep == Inv /\ [Next]_vars => Inv'
<1> SUFFICES ASSUME Inv, [Next]_vars PROVE Inv'
  OBVIOUS
<1>1. CASE Restart \/ BeginPass \/ SolveWindow \/ EndWindows \/ FlipBits \/ TakeBatch
       \/ SkipSubproblems
  <2>1. /\ UNCHANGED <<given, best_energy, counter, table>>
        /\ pc \notin {"prime", "first search"} /\ pc' \notin {"prime", "first search", "done"}
    BY <1>1 DEF Restart, BeginPass, SolveWindow, EndWindows, FlipBits, TakeBatch,
      SkipSubproblems
  <2>2. IInv'
    BY <2>1, UntouchedList DEF Inv
  <2> QED BY <2>1, <2>2 DEF Inv, LoopInv, NeverGivesUpEarly, given, counter, table
<1>2. CASE Done \/ UNCHANGED vars
  <2>1. UNCHANGED vars
    BY <1>2 DEF Done
  <2>2. IInv'
    BY <2>1, UntouchedList DEF Inv, vars
  <2> QED BY <2>1, <2>2 DEF Inv, LoopInv, NeverGivesUpEarly, TimedOut, vars, given, counter, table
<1> QED BY <1>1, <1>2, PrimeKeeps, FirstSearchKeeps, FullSearchKeeps DEF Next
------------------------------------------------------------------------------
(* The energy compared with the target is that of the best solution of the *)
(* run, and the row printed as the answer holds it (solver.cc:1048).       *)
THEOREM AnswerIsBest == Spec => []BestTracked
<1>1. Inv => BestTracked
  BY InvBest DEF Inv, LoopInv, BestTracked
<1> QED BY <1>1, LoopInit, InvStep, PTL DEF Spec

(* The solver gives up only at the target, out of time or after as many    *)
(* passes without a better solution as were asked for, also when the count *)
(* of repeats overflows its short (solver.cc:689).                         *)
THEOREM GivesUpInTime == Spec => []NeverGivesUpEarly
<1>1. Inv => NeverGivesUpEarly
  BY DEF Inv, LoopInv
<1> QED BY <1>1, LoopInit, InvStep, PTL DEF Spec

(* The loop does nothing to the list but offer solutions to it: all that   *)
(* holds of the list alone holds inside solve() (solver.cc:896-1050).      *)
THEOREM LoopOnlyOffers == Spec => TableSpec
<1>1. Init => TableInit
  BY DEF Init
<1>2. [Next]_vars => [TableNext]_table
  <2> SUFFICES ASSUME [Next]_vars PROVE TableNext \/ UNCHANGED table
    OBVIOUS
  <2>1. CASE Prime \/ FirstSearch \/ FullSearch
    <3>1. \E v \in Solution : \E energy \in Readings[v] : manage_solutions(v, energy)
      BY <2>1 DEF Prime, FirstSearch, SearchAndOffer, FullSearch
    <3> QED BY <3>1 DEF TableNext
  <2>2. CASE Restart \/ BeginPass \/ SolveWindow \/ EndWindows \/ FlipBits \/ TakeBatch
       \/ SkipSubproblems
    BY <2>2 DEF Restart, BeginPass, SolveWindow, EndWindows, FlipBits, TakeBatch,
      SkipSubproblems
  <2>3. CASE Done \/ UNCHANGED vars
    BY <2>3 DEF Done, vars
  <2> QED BY <2>1, <2>2, <2>3 DEF Next
<1> QED BY <1>1, <1>2, PTL DEF Spec, TableSpec

(* At the end of every search, whatever loop, priming or restart led there,*)
(* the list holds the nMax best pairs the run has found (util.cc:602).     *)
THEOREM LoopKeepsBestPool == Spec => ImplementsBestPool
BY LoopOnlyOffers, ListImplementsBestPool
==============================================================================
