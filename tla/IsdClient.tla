------------------------------- MODULE IsdClient -------------------------------
(***************************************************************************)
(* The library isd/cobi.c, which Python programs reach through             *)
(* isd/wrapper.pyx.  Each function opens the card, refuses one of another  *)
(* firmware, does its work and closes it.  The caller, one process that    *)
(* may die and be started again, calls them in any order; the results are  *)
(* told apart by their order alone.                                        *)
(***************************************************************************)
EXTENDS CobiCard

CONSTANTS
  MaxSubmits,   \* bound: programs submitted
  MaxDeaths     \* bound: deaths of the Python process

VARIABLES
  isd_pc,       \* "idle", or the call in progress
  submits,      \* programs submitted so far, the name of the latest
  owed,         \* programs this process has submitted and got no result of
  synced,       \* this process has reset the card
  asked,        \* the program the last result was owed for
  result,       \* the last result read, <<>> if none
  deaths

isd == <<isd_pc, submits, owed, synced, asked, result, deaths>>

Named(n) == [call |-> n, prob |-> 0]
------------------------------------------------------------------------------
IsdInit ==
  /\ isd_pc = "idle" /\ submits = 0 /\ owed = <<>> /\ synced = FALSE
  /\ asked = Idle /\ result = <<>> /\ deaths = 0

(* cobi_open_device: the firmware decides whether the process goes on.     *)
cobi_open_device(function) ==
  /\ isd_pc = "idle"
  /\ isd_pc' = IF fw = "single" THEN function ELSE "failed"
  /\ UNCHANGED <<card, owed, synced, asked, deaths>>
  /\ result' = <<>>

(* init_device, with cobi_reset: stop the chip, then read what is there.   *)
init_device == cobi_open_device("reset") /\ UNCHANGED submits

cobi_reset ==
  /\ isd_pc = "reset"
  /\ Stop
  /\ isd_pc' = "flush"
  /\ UNCHANGED <<submits, owed, synced, asked, result, deaths>>

Emptied_One == TRUE
Emptied == ~has_result

flush_results ==
  /\ isd_pc = "flush"
  /\ IF Emptied
       THEN UNCHANGED card /\ isd_pc' = "idle" /\ owed' = <<>> /\ synced' = TRUE
       ELSE Read /\ UNCHANGED <<isd_pc, owed, synced>>
  /\ UNCHANGED <<submits, asked, result, deaths>>

(* submit_problem and solveQ: write when the chip is ready.  solveQ, whose *)
(* reset is commented out, goes on to wait for a result.                   *)
submit_problem ==
  cobi_open_device("submit") /\ submits < MaxSubmits /\ submits' = submits + 1

solveQ == cobi_open_device("solve") /\ submits < MaxSubmits /\ submits' = submits + 1

write_program ==
  /\ isd_pc \in {"submit", "solve"}
  /\ Write(Named(submits))
  /\ owed' = Append(owed, Named(submits))
  /\ isd_pc' = IF isd_pc = "solve" THEN "await" ELSE "idle"
  /\ UNCHANGED <<submits, synced, asked, result, deaths>>

(* read_result, blocking or not: the oldest result in the FIFO.            *)
read_result == \E mode \in {"look", "await"} : cobi_open_device(mode) /\ UNCHANGED submits

Take ==
  /\ isd_pc \in {"look", "await"}
  /\ Read
  /\ result' = <<Head(fifo)>>
  /\ asked' = IF owed = <<>> THEN Idle ELSE Head(owed)
  /\ owed' = IF owed = <<>> THEN <<>> ELSE Tail(owed)
  /\ isd_pc' = "idle"
  /\ UNCHANGED <<submits, synced, deaths>>

NothingYet ==
  /\ isd_pc = "look" /\ ~has_result
  /\ isd_pc' = "idle"
  /\ UNCHANGED <<card, submits, owed, synced, asked, result, deaths>>

(* Only the card remembers what a dead process has submitted.              *)
Die ==
  /\ isd_pc # "failed" /\ deaths < MaxDeaths
  /\ deaths' = deaths + 1
  /\ isd_pc' = "idle" /\ owed' = <<>> /\ synced' = FALSE /\ result' = <<>>
  /\ UNCHANGED <<card, submits, asked>>

IsdCall == init_device \/ submit_problem \/ solveQ \/ read_result
IsdWork == cobi_reset \/ flush_results \/ write_program \/ Take \/ NothingYet
------------------------------------------------------------------------------
(* In a process that has reset the card, the result a call returns is of   *)
(* the oldest program without one: a program of before the reset answers   *)
(* none after it (cobi_reset, cobi.c:641-654; read_result, 744; solveQ,    *)
(* 753, whose own reset is commented out at 777).                          *)
AnswersInOrder == synced /\ result # <<>> => result[1].of = asked

(* A read that waits in a process with a program under way returns, and so *)
(* does a submission that finds no more programs under way than the FIFO   *)
(* has room for (cobi_wait_for_write, cobi_wait_for_read).                 *)
ReadsReturn ==
  /\ synced /\ isd_pc = "await" /\ owed # <<>> ~> isd_pc = "idle"
  /\ synced /\ isd_pc \in {"submit", "solve"} /\ Len(owed) <= FifoRoom ~> isd_pc = "idle"
==============================================================================
