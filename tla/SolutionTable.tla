---------------------------- MODULE SolutionTable ----------------------------
(***************************************************************************)
(* manage_solutions() of src/util.cc: the list of the best solutions found *)
(* so far.  Each call offers one solution with the energy its search       *)
(* returned (the solver maximises).  A row holds a bit vector, its energy  *)
(* and its number of hits; list_order sorts the rows by energy, best first.*)
(* An empty row has the energy BIGNEGFP.                                    *)
(***************************************************************************)
EXTENDS Integers, FiniteSets, Functions

CONSTANTS
  Solution,   \* the bit vectors
  Zero,       \* the all-zero vector the rows are filled with
  Readings,   \* Readings[v]: the energies searches may return with v
  BIGNEGFP,   \* the energy of an empty row
  nMax,       \* number of rows
  MaxHits     \* bound: no row is hit more often than this

ASSUME TableAssumption ==
  /\ Zero \in Solution
  /\ BIGNEGFP \in Int
  /\ Readings \in [Solution -> SUBSET {e \in Int : e > BIGNEGFP}]
  /\ nMax \in Nat \ {0}
  /\ MaxHits \in Nat \ {0}

VARIABLES
  solution_list,    \* row -> bit vector
  energy_list,      \* row -> energy
  solution_counts,  \* row -> hits
  list_order,       \* rank -> row; not initialised before the first call
  num_nq_solutions, \* number of rows in use
  result,           \* what the last call returned
  offered           \* history: the (solution, energy) pairs offered so far

rows == <<solution_list, energy_list, solution_counts, num_nq_solutions>>
table == <<solution_list, energy_list, solution_counts, list_order,
          num_nq_solutions, result, offered>>

Slot  == 0 .. nMax - 1
Worst_OffByOne == nMax - 2
Worst == nMax - 1
Code  == {"NOTHING", "NEW_HIGH_ENERGY_UNIQUE_SOL", "DUPLICATE_HIGHEST_ENERGY",
          "DUPLICATE_ENERGY", "DUPLICATE_ENERGY_UNIQUE_SOL",
          "NEW_ENERGY_UNIQUE_SOL"}

MIN(x, y) == IF x < y THEN x ELSE y

(* The orders val_index_sort and val_index_sort_ns may return: any         *)
(* permutation that sorts the energies downwards.  Ties come out as the    *)
(* quicksort's pivots (and, in val_index_sort, the shuffle) leave them.    *)
Orders(energies) ==
  {order \in Bijection(Slot, Slot) :
     \A i, j \in Slot : i < j => energies[order[i]] >= energies[order[j]]}

(* The first rank whose energy the given one reaches, nMax if none.        *)
val_index_pos(order, energies, compare) ==
  Cardinality({i \in Slot : energies[order[i]] > compare})

Return(code, count, pos) ==
  result' = [code |-> code, count |-> count, pos |-> pos]
------------------------------------------------------------------------------
Store_Uncounted(row, now, energy) ==
  /\ solution_list'    = [solution_list EXCEPT ![row] = now]
  /\ energy_list'      = [energy_list EXCEPT ![row] = energy]
  /\ solution_counts'  = [solution_counts EXCEPT ![row] = 1]
  /\ UNCHANGED num_nq_solutions
(* Overwrite a row with the offered solution, found once so far.           *)
Store(row, now, energy) ==
  /\ solution_list'    = [solution_list EXCEPT ![row] = now]
  /\ energy_list'      = [energy_list EXCEPT ![row] = energy]
  /\ solution_counts'  = [solution_counts EXCEPT ![row] = 1]
  /\ num_nq_solutions' = MIN(num_nq_solutions + 1, nMax)

NewHigh_Unsorted(now, energy, sorted) ==
  /\ energy > energy_list[sorted[0]]
  /\ Store(sorted[Worst], now, energy)
  /\ list_order' = sorted
  /\ Return("NEW_HIGH_ENERGY_UNIQUE_SOL", 1,
            val_index_pos(list_order', energy_list', energy))
(* Better than the best row.                                               *)
NewHigh(now, energy, sorted) ==
  /\ energy > energy_list[sorted[0]]
  /\ Store(sorted[Worst], now, energy)
  /\ list_order' \in Orders(energy_list')
  /\ Return("NEW_HIGH_ENERGY_UNIQUE_SOL", 1,
            val_index_pos(list_order', energy_list', energy))

(* Worse than the worst row of a full list: only the order is shuffled.    *)
NotGoodEnough(now, energy, sorted) ==
  /\ energy <= energy_list[sorted[0]]
  /\ energy < energy_list[sorted[Worst]]
  /\ UNCHANGED rows
  /\ list_order' \in Orders(energy_list)
  /\ Return("NOTHING", 0, val_index_pos(list_order', energy_list, energy))

Ties(energy, sorted) == {i \in Slot : energy_list[sorted[i]] = energy}
Matches_FirstTie(now, energy, sorted) ==
  {i \in Ties(energy, sorted) : /\ solution_list[sorted[i]] = now
                                /\ \A j \in Ties(energy, sorted) : i <= j}
Matches(now, energy, sorted) ==
  {i \in Ties(energy, sorted) : solution_list[sorted[i]] = now}

(* The list holds this solution with this energy: count another hit.  For  *)
(* the best energy the hits returned are those of the first row of the     *)
(* order, whichever row matched.                                           *)
Duplicate(now, energy, sorted) ==
  \E j \in Matches(now, energy, sorted) :
    /\ \A i \in Matches(now, energy, sorted) : j <= i
    /\ solution_counts[sorted[j]] < MaxHits
    /\ solution_counts' = [solution_counts EXCEPT ![sorted[j]] = @ + 1]
    /\ list_order' = sorted
    /\ UNCHANGED <<solution_list, energy_list, num_nq_solutions>>
    /\ \/ /\ energy = energy_list[sorted[0]]
          /\ Return("DUPLICATE_HIGHEST_ENERGY", solution_counts'[sorted[0]],
                    val_index_pos(sorted, energy_list, energy))
       \/ /\ energy # energy_list[sorted[0]]
          /\ Return("DUPLICATE_ENERGY", solution_counts'[sorted[j]],
                    val_index_pos(sorted, energy_list, energy))

(* Rows of the same energy, none with these bits: the worst row goes.      *)
NewAtKnownEnergy(now, energy, sorted) ==
  /\ Ties(energy, sorted) # {}
  /\ Matches(now, energy, sorted) = {}
  /\ Store(sorted[Worst], now, energy)
  /\ list_order' \in Orders(energy_list')
  /\ Return(IF energy = energy_list'[list_order'[0]]
              THEN "DUPLICATE_HIGHEST_ENERGY"
              ELSE "DUPLICATE_ENERGY_UNIQUE_SOL",
            1, val_index_pos(list_order', energy_list', energy))

(* An energy between two rows: the worst row goes.  The code looks up the  *)
(* hits to return with the row number taken as a rank.                     *)
NewBetween(now, energy, sorted) ==
  /\ energy < energy_list[sorted[0]]
  /\ energy > energy_list[sorted[Worst]]
  /\ Ties(energy, sorted) = {}
  /\ Store(sorted[Worst], now, energy)
  /\ list_order' \in Orders(energy_list')
  /\ Return("NEW_ENERGY_UNIQUE_SOL",
            solution_counts'[list_order'[sorted[Worst]]],
            val_index_pos(list_order', energy_list', energy))

manage_solutions(now, energy) ==
  /\ offered' = offered \cup {<<now, energy>>}
  /\ \E sorted \in Orders(energy_list) :
       \/ NewHigh(now, energy, sorted)
       \/ NotGoodEnough(now, energy, sorted)
       \/ Duplicate(now, energy, sorted)
       \/ NewAtKnownEnergy(now, energy, sorted)
       \/ NewBetween(now, energy, sorted)
------------------------------------------------------------------------------
(* solve() empties the list; list_order is memory nobody has written yet.  *)
TableInit ==
  /\ solution_list    = [row \in Slot |-> Zero]
  /\ energy_list      = [row \in Slot |-> BIGNEGFP]
  /\ solution_counts  = [row \in Slot |-> 0]
  /\ list_order       \in [Slot -> Slot]
  /\ num_nq_solutions = 0
  /\ result           = [code |-> "NOTHING", count |-> 0, pos |-> 0]
  /\ offered          = {}

TableNext == \E now \in Solution : \E energy \in Readings[now] :
          manage_solutions(now, energy)

TableSpec == TableInit /\ [][TableNext]_table
------------------------------------------------------------------------------
Occupied == {row \in Slot : energy_list[row] > BIGNEGFP}
Pair(row) == <<solution_list[row], energy_list[row]>>
Kept == {Pair(row) : row \in Occupied}

(* Every variable has its type (util.cc:604-746).                          *)
TypeOK ==
  /\ solution_list    \in [Slot -> Solution]
  /\ energy_list      \in [Slot -> Int]
  /\ solution_counts  \in [Slot -> 0 .. MaxHits]
  /\ list_order       \in [Slot -> Slot]
  /\ num_nq_solutions \in 0 .. nMax
  /\ result           \in [code : Code, count : 0 .. MaxHits, pos : 0 .. nMax]
  /\ offered \subseteq Solution \X Int

(* The first row of the order holds a pair some search returned, and no    *)
(* search ever returned a better energy: evicting the "worst" row through  *)
(* list_order never loses the best (solver.cc:1048 reads Qbest there).     *)
BestNeverLost ==
  offered # {} =>
    /\ Pair(list_order[0]) \in offered
    /\ \A pair \in offered : energy_list[list_order[0]] >= pair[2]

(* No two rows in use hold the same bits (util.cc:601, "number of unique   *)
(* solutions"); it needs searches that agree on a solution's energy.       *)
RowsUnique ==
  \A r, s \in Occupied : solution_list[r] = solution_list[s] => r = s

(* The first num_nq_solutions ranks, and only they, are rows in use: the   *)
(* backbone of -a d and the final output read exactly those.               *)
OccupiedFirst ==
  offered # {} =>
    \A rank \in Slot : rank < num_nq_solutions <=> list_order[rank] \in Occupied

(* What the proof of BestNeverLost rests on: the order is a sorted order   *)
(* of the rows, rows hold offered pairs, and no offer beats all rows.      *)
OrderSorted  == offered # {} => list_order \in Orders(energy_list)
RowsOffered  == \A row \in Occupied : Pair(row) \in offered
OffersBeaten == \A pair \in offered : \E row \in Slot : energy_list[row] >= pair[2]
OffersRead   == \A pair \in offered : pair[2] \in Readings[pair[1]]
IInv == TypeOK /\ OrderSorted /\ RowsOffered /\ OffersBeaten /\ OffersRead

Pool == INSTANCE BestPool WITH
          Candidate <- UNION {{v} \X Readings[v] : v \in Solution},
          pool <- Kept

(* The rows always hold the nMax best pairs ever offered (util.cc:602).    *)
ImplementsBestPool == Pool!Spec
==============================================================================
