------------------------------- MODULE IndexSort -------------------------------
(***************************************************************************)
(* The index sort of src/util.cc: val_index_sort() and val_index_sort_ns() *)
(* order an index of n values from the largest to the smallest, by a       *)
(* quicksort that keeps the stretches still to be sorted on a stack of     *)
(* n + 1 integers of its own, two for each stretch.  A step is one turn of *)
(* the loop in partition() or of the loop around it.                       *)
(***************************************************************************)
EXTENDS Integers, Sequences, Functions

CONSTANT n   \* the number of values, at least one

VARIABLES
  val,     \* the values
  arr,     \* rank -> position of a value
  stack,   \* the stretches still to be sorted, last pushed last
  l, h,    \* the stretch being partitioned
  i, j,    \* arr[l .. i] holds values not below the pivot's, arr[j .. h] is open
  pc

vars == <<val, arr, stack, l, h, i, j, pc>>

Position == 0 .. n - 1
Orders   == Bijection(Position, Position)

(* The order the sort begins with: shuffled, or with _ns the identity,     *)
(* which is one of the shuffles.                                           *)
Init ==
  /\ val \in [Position -> Int]
  /\ arr \in Orders
  /\ stack = <<<<0, n - 1>>>>
  /\ l = 0 /\ h = 0 /\ i = -1 /\ j = 0
  /\ pc = "pop"

Swapped(f, a, b) == [f EXCEPT ![a] = f[b], ![b] = f[a]]

Top  == stack[Len(stack)]
Rest_Kept == stack
Rest == SubSeq(stack, 1, Len(stack) - 1)

(* Take the stretch pushed last; its last value is the pivot.              *)
Pop ==
  /\ pc = "pop" /\ stack # <<>>
  /\ l' = Top[1] /\ h' = Top[2]
  /\ stack' = Rest
  /\ i' = Top[1] - 1 /\ j' = Top[1]
  /\ pc' = "partition"
  /\ UNCHANGED <<val, arr>>

BelongsLeft(a, b) == val[a] >= val[b]

Scan ==
  /\ pc = "partition" /\ j < h
  /\ IF BelongsLeft(arr[j], arr[h])
       THEN i' = i + 1 /\ arr' = Swapped(arr, i + 1, j)
       ELSE UNCHANGED <<i, arr>>
  /\ j' = j + 1
  /\ UNCHANGED <<val, stack, l, h, pc>>

(* A side of two values or more is left to be sorted.                      *)
Push_OffByOne(s, from, to) == IF from + 1 < to THEN Append(s, <<from, to>>) ELSE s
Push(s, from, to) == IF from < to THEN Append(s, <<from, to>>) ELSE s

(* The pivot goes between the two sides.                                   *)
Place ==
  /\ pc = "partition" /\ j >= h
  /\ arr' = Swapped(arr, i + 1, h)
  /\ stack' = Push(Push(stack, l, i), i + 2, h)
  /\ pc' = "pop"
  /\ UNCHANGED <<val, l, h, i, j>>

Return ==
  /\ pc = "pop" /\ stack = <<>>
  /\ pc' = "done"
  /\ UNCHANGED <<val, arr, stack, l, h, i, j>>

Next == Pop \/ Scan \/ Place \/ Return

Spec == Init /\ [][Next]_vars
------------------------------------------------------------------------------
is_index_sorted(data, index) ==
  \A k \in Position : k + 1 \in Position => data[index[k]] >= data[index[k + 1]]

(* The sort returns an order of all positions, from the largest value to   *)
(* the smallest (util.cc:320, "index to point to order from largest to     *)
(* smallest").                                                             *)
SortsDown == pc = "done" => arr \in Orders /\ is_index_sorted(val, arr)

(* The stack never needs more than the n + 1 integers val_index_sort       *)
(* allocates for it (util.cc:396, "temp space = n + 1").                   *)
StackFits == 2 * Len(stack) <= n + 1
==============================================================================
