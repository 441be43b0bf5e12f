------------------------------- MODULE CobiCards -------------------------------
(***************************************************************************)
(* A card and both programs that may open it.  Which of them goes on is    *)
(* decided by the firmware; the other one stops and leaves the card alone. *)
(***************************************************************************)
EXTENDS CobiDevice, IsdClient

vars == <<card, host, isd>>

Init == CardInit /\ HostInit /\ IsdInit

(* The card anneals by itself.  A wait polls the status register: it is a  *)
(* step that changes nothing, as is the end of a program.                  *)
Anneal == Card /\ UNCHANGED <<host, isd>>
Poll ==
  /\ \/ pc \in {"write", "read", "failed"} \/ (pc = "ready" /\ call = MaxCalls)
     \/ isd_pc \in {"submit", "solve", "await", "failed"}
  /\ UNCHANGED vars

HostStep == Host /\ UNCHANGED isd
IsdStep == IsdWork /\ UNCHANGED host

Next ==
  \/ Anneal \/ Poll
  \/ HostStep \/ (Crash /\ UNCHANGED isd)
  \/ IsdStep \/ ((IsdCall \/ Die) /\ UNCHANGED host)

(* A chip that can finish does, and a process in a call goes on; the caller*)
(* of the library need not make another call.                              *)
Spec ==
  /\ Init /\ [][Next]_vars
  /\ WF_vars(HostStep) /\ WF_vars(Anneal) /\ WF_vars(IsdStep)
==============================================================================
