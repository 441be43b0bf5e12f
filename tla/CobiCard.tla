------------------------------- MODULE CobiCard -------------------------------
(***************************************************************************)
(* A COBI card as its drivers see it through the FPGA's registers: chips   *)
(* that anneal at their own pace and one FIFO for their results.  Two      *)
(* drivers use it: src/cobi.cc, for the firmware of a card of four chips,  *)
(* and isd/cobi.c, for that of one chip.  Neither compares the number of a *)
(* program with that of a result.  The card itself is external.            *)
(***************************************************************************)
EXTENDS Integers, Sequences, FiniteSets

CONSTANTS
  Chip,       \* the chips of the larger card (4)
  FifoRoom,   \* results the FIFO holds
  Energies    \* energies a chip may report

VARIABLES
  fw,     \* the firmware: "quad" or "single"
  chip,   \* chip -> the program it runs, Idle if none
  fifo    \* results not yet read

card == <<fw, chip, fifo>>

Idle  == [call |-> 0, prob |-> 0]
Stale == [call |-> 0, prob |-> 1]     \* of whoever used the card before

Result(program, energy) == [of |-> program, energy |-> energy]
Chips == IF fw = "single" THEN {CHOOSE c \in Chip : TRUE} ELSE Chip

CardInit ==
  /\ fw \in {"quad", "single"}
  /\ \E c \in Chips : chip \in {[d \in Chip |-> Idle], [d \in Chip |-> IF d = c THEN Stale ELSE Idle]}
  /\ fifo \in {<<>>, <<Result(Stale, 0)>>}

(* ~COBI_FPGA_STATUS_READ_ALL_EMPTY, and COBI_FPGA_STATUS_S_READY_ALL: the *)
(* chips a program can be written to.                                      *)
has_result == fifo # <<>>
ReadyChips_Unchecked == Chips
ReadyChips == {c \in Chips : chip[c] = Idle}

(* A chip finishes when there is room for its result.                      *)
Finish(c, energy) ==
  /\ chip[c] # Idle /\ Len(fifo) < FifoRoom
  /\ fifo' = Append(fifo, Result(chip[c], energy))
  /\ chip' = [chip EXCEPT ![c] = Idle]
  /\ UNCHANGED fw

Card == \E c \in Chip : \E energy \in Energies : Finish(c, energy)

(* A zero in the control register stops the chips.                         *)
Stop_FifoOnly == UNCHANGED <<fw, chip, fifo>>
Stop == chip' = [c \in Chip |-> Idle] /\ UNCHANGED <<fw, fifo>>

Write(program) ==
  /\ \E c \in ReadyChips : chip' = [chip EXCEPT ![c] = program]
  /\ UNCHANGED <<fw, fifo>>

Read == has_result /\ fifo' = Tail(fifo) /\ UNCHANGED <<fw, chip>>
==============================================================================
