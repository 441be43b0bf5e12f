------------------------------ MODULE CobiDevice ------------------------------
(***************************************************************************)
(* The process that uses a COBI card, src/cobi.cc.  cobi_init() opens,     *)
(* resets and flushes the card; cobi_solver() writes one program for every *)
(* scaling of the sub-problem, each to a chip that is ready, and only then *)
(* reads as many results, keeping the one of lowest energy.  The process   *)
(* may die at any time and be started again.                               *)
(***************************************************************************)
EXTENDS CobiCard

CONSTANTS
  NumProbs,    \* values of num_probs: 1 with COBI_EVAL_SINGLE, otherwise 5
  MaxCalls,    \* bound: calls of cobi_solver
  MaxCrashes   \* bound: deaths of the process

(* All programs are written before a result is read: what a call writes    *)
(* must fit into the chips and the FIFO.                                   *)
ASSUME DeviceAssumption ==
  /\ IsFiniteSet(Chip) /\ Chip # {} /\ FifoRoom \in Nat \ {0}
  /\ NumProbs \subseteq 1 .. Cardinality(Chip) + FifoRoom
  /\ Energies \subseteq Int
  /\ MaxCalls \in Nat /\ MaxCrashes \in Nat

VARIABLES
  pc,
  call,      \* calls so far, which tells programs of different calls apart
  num_probs,
  written,   \* programs this call has written
  outputs,   \* results this call has read
  best_energy, best_output,
  answer,    \* what the last call returned
  crashes

host == <<pc, call, num_probs, written, outputs, best_energy, best_output, answer,
          crashes>>

NoResult == Result(Idle, 0)
------------------------------------------------------------------------------
HostInit ==
  /\ pc = "closed"
  /\ call = 0 /\ num_probs = 1 /\ written = 0 /\ outputs = <<>>
  /\ best_energy = 0 /\ best_output = 0
  /\ answer = NoResult
  /\ crashes = 0

(* cobi_init, and cobi_reset: the control register stops the chips, and the*)
(* results that are there already are read out.  Another firmware is left  *)
(* alone.                                                                  *)
Open ==
  /\ pc = "closed"
  /\ IF fw = "quad" THEN Stop /\ pc' = "flush" ELSE UNCHANGED card /\ pc' = "failed"
  /\ UNCHANGED <<call, num_probs, written, outputs, best_energy, best_output, answer, crashes>>

Flushed == ~has_result

cobi_flush_results ==
  /\ pc = "flush"
  /\ IF has_result THEN Read ELSE UNCHANGED card
  /\ pc' = IF Flushed THEN "ready" ELSE "flush"
  /\ UNCHANGED <<call, num_probs, written, outputs, best_energy, best_output, answer, crashes>>

Call ==
  /\ pc = "ready" /\ call < MaxCalls
  /\ call' = call + 1
  /\ num_probs' \in NumProbs
  /\ written' = 0 /\ outputs' = <<>>
  /\ best_energy' = 0 /\ best_output' = 0
  /\ pc' = "write"
  /\ UNCHANGED <<card, answer, crashes>>

(* cobi_write_program: wait for a chip to be ready, then write to it.      *)
cobi_write_program ==
  /\ pc = "write" /\ written < num_probs
  /\ Write([call |-> call, prob |-> written])
  /\ written' = written + 1
  /\ pc' = IF written' = num_probs THEN "read" ELSE "write"
  /\ UNCHANGED <<call, num_probs, outputs, best_energy, best_output, answer, crashes>>

Better_NotBest(energy) == energy # best_energy
Better(energy) == energy < best_energy

(* The index of the result read into outputs, from 0.                      *)
Latest == Len(outputs)

(* cobi_read: wait for a result, whichever program it is of.               *)
cobi_read ==
  /\ pc = "read" /\ Len(outputs) < num_probs
  /\ Read
  /\ outputs' = Append(outputs, Head(fifo))
  /\ IF Better(Head(fifo).energy)
       THEN best_energy' = Head(fifo).energy /\ best_output' = Latest
       ELSE UNCHANGED <<best_energy, best_output>>
  /\ UNCHANGED <<pc, call, num_probs, written, answer, crashes>>

(* Copy the best result into the solution.                                 *)
Return ==
  /\ pc = "read" /\ Len(outputs) = num_probs
  /\ answer' = outputs[best_output + 1]
  /\ pc' = "ready"
  /\ UNCHANGED <<card, call, num_probs, written, outputs, best_energy, best_output, crashes>>

(* The process ends, by a signal or by exit() after a failed read or write.*)
Crash ==
  /\ pc \notin {"closed", "failed"} /\ crashes < MaxCrashes
  /\ crashes' = crashes + 1
  /\ pc' = "closed"
  /\ answer' = NoResult
  /\ UNCHANGED <<card, call, num_probs, written, outputs, best_energy, best_output>>

Host == Open \/ cobi_flush_results \/ Call \/ cobi_write_program \/ cobi_read \/ Return
------------------------------------------------------------------------------
(* Each result a call reads is of a program this call has written, and no  *)
(* two are of the same one: a call never takes what an earlier call, or a  *)
(* process that died, has left behind (cobi_flush_results, cobi.cc:446).   *)
OwnResults ==
  pc \in {"write", "read"} =>
    /\ \A i \in 1 .. Len(outputs) : outputs[i].of.call = call
    /\ \A i, k \in 1 .. Len(outputs) : outputs[i].of = outputs[k].of => i = k

(* A call in which a chip reports a negative energy returns a result of    *)
(* the lowest energy reported (cobi.cc:1282, "best result").               *)
LowestReturned ==
  [][pc = "read" /\ pc' = "ready" =>
       \A i \in 1 .. Len(outputs) : outputs[i].energy < 0 => answer'.energy <= outputs[i].energy]_<<card, host>>

(* A call returns, or dies: with room for its results no program waits for *)
(* a chip that waits for its result to be read.                            *)
CallsReturn == pc = "write" ~> pc \in {"ready", "closed"}
==============================================================================
