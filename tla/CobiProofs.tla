------------------------------ MODULE CobiProofs -------------------------------
(***************************************************************************)
(* Proofs about the COBI card.  First its two users, for every number of   *)
(* chips, every FIFO and every number of calls and deaths; then what they  *)
(* make of a sub-problem (CobiProblem), for every QUBO, every strategy and *)
(* every size of the chip; and the program the k-SAT driver makes of a     *)
(* formula (KsatEncoding), for every formula and every chip.               *)
(***************************************************************************)
EXTENDS CobiCards, CobiProblem, KsatEncoding, QuboProofs, SequenceTheorems

Program == [call : Nat, prob : Nat]
Entry   == [of : Program, energy : Int]

CardType == chip \in [Chip -> Program] /\ fifo \in Seq(Entry)

LEMMA ProgramTypes ==
  /\ Idle \in Program /\ Stale \in Program /\ Idle # Stale
  /\ \A k \in Nat : Named(k) \in Program /\ (k # 0 => Named(k) # Idle)
  /\ \A c, k \in Nat : [call |-> c, prob |-> k] \in Program
  /\ \A p \in Program, e \in Int : Result(p, e) \in Entry /\ Result(p, e).of = p
BY DEF Program, Entry, Idle, Stale, Named, Result

LEMMA InitType == ASSUME CardInit PROVE CardType
<1>1. PICK c \in Chips : chip \in {[d \in Chip |-> Idle], [d \in Chip |-> IF d = c THEN Stale ELSE Idle]}
  BY DEF CardInit
<1>2. chip \in [Chip -> Program]
  BY <1>1, ProgramTypes
<1> DEFINE left == Result(Stale, 0)
<1>3. left \in Entry
  BY ProgramTypes
<1>4. fifo \in Seq(Entry)
  <2>1. fifo = <<>> \/ fifo = <<left>>
    BY DEF CardInit
  <2> HIDE DEF left
  <2>2. <<left>> \in Seq(Entry)
    BY <1>3
  <2>3. <<>> \in Seq(Entry)
    OBVIOUS
  <2> QED BY <2>1, <2>2, <2>3, Zenon
<1> QED BY <1>2, <1>4 DEF CardType

(* The firmware of a card does not change.                                 *)
LEMMA SameFirmware == ASSUME [Next]_vars PROVE fw' = fw
<1>1. CASE Anneal
  BY <1>1 DEF Anneal, Card, Finish
<1>2. CASE HostStep
  <2>1. CASE Open \/ cobi_flush_results \/ Call
    BY <2>1 DEF Open, cobi_flush_results, Call, Stop, Read, card
  <2>2. CASE cobi_write_program
    BY <2>2 DEF cobi_write_program, Write
  <2>3. CASE cobi_read \/ Return
    BY <2>3 DEF cobi_read, Return, Read, card
  <2> QED BY <1>2, <2>1, <2>2, <2>3 DEF HostStep, Host
<1>3. CASE IsdStep
  BY <1>3 DEF IsdStep, IsdWork, cobi_reset, flush_results, write_program, Take, NothingYet,
              Stop, Read, Write, card
<1>4. CASE Poll \/ (Crash /\ UNCHANGED isd) \/ UNCHANGED vars
  BY <1>4 DEF Poll, Crash, vars, card
<1>5. CASE (IsdCall \/ Die) /\ UNCHANGED host
  BY <1>5 DEF IsdCall, init_device, submit_problem, solveQ, read_result, cobi_open_device, Die, card
<1> QED BY <1>1, <1>2, <1>3, <1>4, <1>5 DEF Next
------------------------------------------------------------------------------
(* The one chip of the smaller card.                                       *)
Only == CHOOSE c \in Chip : TRUE

LEMMA OnlyChip == Only \in Chip
BY DeviceAssumption DEF Only

(* What the FIFO and the chip hold is what is owed, in that order.         *)
OwedInOrder ==
  /\ Len(owed) = Len(fifo) + (IF chip[Only] = Idle THEN 0 ELSE 1)
  /\ \A k \in 1 .. Len(fifo) : owed[k] = fifo[k].of
  /\ chip[Only] # Idle => owed[Len(fifo) + 1] = chip[Only]

(* With the firmware of one chip only the library works with the card.     *)
SingleInv ==
  /\ pc \in {"closed", "failed"}
  /\ CardType /\ owed \in Seq(Program) /\ submits \in Nat /\ result \in Seq(Entry)
  /\ \A c \in Chip : c # Only => chip[c] = Idle
  /\ isd_pc \in {"submit", "solve"} => submits # 0
  /\ isd_pc \in {"reset", "flush"} => result = <<>>
  /\ isd_pc = "flush" => chip[Only] = Idle
  /\ synced /\ isd_pc \notin {"reset", "flush"} => OwedInOrder
  /\ AnswersInOrder

LEMMA SingleInit == ASSUME Init, fw = "single" PROVE SingleInv
<1>1. CardType
  BY InitType DEF Init
<1>2. pc = "closed" /\ owed = <<>> /\ submits = 0 /\ result = <<>> /\ isd_pc = "idle" /\ synced = FALSE
  BY DEF Init, HostInit, IsdInit
<1>3. \A c \in Chip : c # Only => chip[c] = Idle
  BY DEF Init, CardInit, Chips, Only
<1> QED BY <1>1, <1>2, <1>3 DEF SingleInv, AnswersInOrder

(* The chip's result goes to the end of the FIFO, where the chip was owed. *)
LEMMA SingleAnneal == ASSUME SingleInv, fw = "single", Anneal PROVE SingleInv'
<1>1. PICK c \in Chip, energy \in Energies : Finish(c, energy)
  BY DEF Anneal, Card
<1>2. c = Only /\ chip[Only] # Idle /\ Only \in Chip
  BY <1>1 DEF Finish, SingleInv
<1>3. /\ fifo' = Append(fifo, Result(chip[Only], energy))
      /\ chip' = [chip EXCEPT ![Only] = Idle]
      /\ UNCHANGED <<host, isd>>
  BY <1>1, <1>2 DEF Finish, Anneal
<1>4. chip \in [Chip -> Program] /\ fifo \in Seq(Entry) /\ owed \in Seq(Program)
  BY DEF SingleInv, CardType
<1>5. Result(chip[Only], energy) \in Entry /\ Result(chip[Only], energy).of = chip[Only]
  BY <1>2, <1>4, DeviceAssumption, ProgramTypes
<1>6. /\ CardType' /\ chip'[Only] = Idle
      /\ \A d \in Chip : d # Only => chip'[d] = chip[d]
  BY <1>2, <1>3, <1>4, <1>5, ProgramTypes DEF CardType
<1>7. OwedInOrder => OwedInOrder'
  <2> DEFINE last == Result(chip[Only], energy)
  <2>1. fifo' = Append(fifo, last) /\ last \in Entry /\ last.of = chip[Only]
    BY <1>3, <1>5
  <2> HIDE DEF last
  <2>2. owed' = owed
    BY <1>3 DEF isd
  <2> QED BY <1>2, <1>4, <1>6, <2>1, <2>2 DEF OwedInOrder
<1> QED BY <1>2, <1>3, <1>6, <1>7 DEF SingleInv, host, isd, AnswersInOrder

LEMMA SingleWrite == ASSUME SingleInv, fw = "single", write_program, UNCHANGED host PROVE SingleInv'
<1>1. PICK c \in ReadyChips : chip' = [chip EXCEPT ![c] = Named(submits)]
  BY DEF write_program, Write
<1>2. c = Only /\ chip[Only] = Idle
  BY <1>1 DEF ReadyChips, Chips, Only
<1>3. chip \in [Chip -> Program] /\ fifo \in Seq(Entry) /\ owed \in Seq(Program) /\ submits \in Nat \ {0}
  BY DEF SingleInv, CardType, write_program
<1>4. Named(submits) \in Program /\ Named(submits) # Idle
  BY <1>3, ProgramTypes
<1>5. /\ fifo' = fifo /\ owed' = Append(owed, Named(submits))
      /\ isd_pc' \in {"await", "idle"} /\ isd_pc \notin {"reset", "flush"}
      /\ UNCHANGED <<submits, synced, asked, result, pc>>
  BY DEF write_program, Write, host
<1>6. /\ CardType' /\ owed' \in Seq(Program) /\ chip'[Only] = Named(submits)
      /\ \A d \in Chip : d # Only => chip'[d] = chip[d]
  BY <1>1, <1>2, <1>3, <1>4, <1>5, OnlyChip DEF CardType
<1>7. OwedInOrder => OwedInOrder'
  <2> DEFINE latest == Named(submits)
  <2>1. owed' = Append(owed, latest) /\ chip'[Only] = latest /\ latest # Idle /\ latest \in Program
    BY <1>4, <1>5, <1>6
  <2> HIDE DEF latest
  <2> QED BY <1>2, <1>3, <1>5, <2>1 DEF OwedInOrder
<1> QED BY <1>5, <1>6, <1>7 DEF SingleInv, AnswersInOrder

LEMMA SingleTake == ASSUME SingleInv, fw = "single", Take, UNCHANGED host PROVE SingleInv'
<1>1. /\ fifo # <<>> /\ fifo' = Tail(fifo) /\ chip' = chip
      /\ result' = <<Head(fifo)>> /\ isd_pc' = "idle" /\ isd_pc \notin {"reset", "flush"}
      /\ asked' = (IF owed = <<>> THEN Idle ELSE Head(owed))
      /\ owed' = (IF owed = <<>> THEN <<>> ELSE Tail(owed))
      /\ UNCHANGED <<submits, synced, pc>>
  BY DEF Take, Read, has_result, host
<1>2. chip \in [Chip -> Program] /\ fifo \in Seq(Entry) /\ owed \in Seq(Program)
  BY DEF SingleInv, CardType
<1>3. CardType' /\ owed' \in Seq(Program) /\ result' \in Seq(Entry) /\ result'[1] = fifo[1]
  BY <1>1, <1>2 DEF CardType
<1>4. CASE synced
  <2>1. OwedInOrder
    BY <1>1, <1>4 DEF SingleInv
  <2>2. owed # <<>> /\ owed[1] = fifo[1].of
    BY <1>1, <1>2, <2>1 DEF OwedInOrder
  <2>3. asked' = owed[1] /\ owed' = Tail(owed)
    BY <1>1, <2>2
  <2>4. OwedInOrder'
    BY <1>1, <1>2, <2>1, <2>2, <2>3 DEF OwedInOrder
  <2> QED BY <1>1, <1>3, <2>2, <2>3, <2>4 DEF SingleInv, AnswersInOrder
<1>5. CASE ~synced
  BY <1>1, <1>3, <1>5 DEF SingleInv, AnswersInOrder
<1> QED BY <1>4, <1>5

(* A reset leaves nothing in the chip, and nothing in the FIFO.            *)
LEMMA SingleReset == ASSUME SingleInv, fw = "single", cobi_reset \/ flush_results, UNCHANGED host PROVE SingleInv'
<1>1. CASE cobi_reset
  <2>1. /\ chip' = [c \in Chip |-> Idle] /\ fifo' = fifo /\ isd_pc = "reset" /\ isd_pc' = "flush"
        /\ UNCHANGED <<submits, owed, synced, asked, result, pc>>
    BY <1>1 DEF cobi_reset, Stop, host
  <2>2. CardType' /\ chip'[Only] = Idle /\ \A c \in Chip : chip'[c] = Idle
    BY <2>1, OnlyChip, ProgramTypes DEF SingleInv, CardType
  <2> QED BY <2>1, <2>2 DEF SingleInv, AnswersInOrder
<1>2. CASE flush_results /\ fifo = <<>>
  <2>1. /\ UNCHANGED <<chip, fifo, submits, asked, result, pc>>
        /\ isd_pc = "flush" /\ isd_pc' = "idle" /\ owed' = <<>> /\ result = <<>>
    BY <1>2 DEF flush_results, Emptied, has_result, card, host, SingleInv
  <2>2. OwedInOrder'
    BY <1>2, <2>1 DEF SingleInv, OwedInOrder
  <2>3. CardType'
    BY <2>1 DEF SingleInv, CardType
  <2> QED BY <2>1, <2>2, <2>3 DEF SingleInv, AnswersInOrder
<1>3. CASE flush_results /\ fifo # <<>>
  <2>1. /\ fifo' = Tail(fifo) /\ UNCHANGED <<chip, submits, asked, result, pc, isd_pc, owed, synced>>
        /\ isd_pc = "flush"
    BY <1>3 DEF flush_results, Emptied, has_result, Read, host
  <2>2. CardType'
    BY <1>3, <2>1 DEF SingleInv, CardType
  <2> QED BY <2>1, <2>2 DEF SingleInv, AnswersInOrder
<1> QED BY <1>1, <1>2, <1>3

(* The start of a call, its end without a result, and a death leave the    *)
(* card alone.                                                             *)
LEMMA SingleCall ==
  ASSUME SingleInv, fw = "single", IsdCall \/ Die \/ NothingYet, UNCHANGED host PROVE SingleInv'
<1>1. chip' = chip /\ fifo' = fifo /\ pc' = pc
  BY DEF IsdCall, init_device, submit_problem, solveQ, read_result, cobi_open_device, Die,
         NothingYet, card, host
<1>2. CardType' /\ (owed' = owed => (OwedInOrder <=> OwedInOrder'))
  BY <1>1 DEF SingleInv, CardType, OwedInOrder
<1>3. CASE IsdCall
  <2>1. /\ isd_pc = "idle" /\ isd_pc' \in {"reset", "submit", "solve", "look", "await"}
        /\ result' = <<>> /\ UNCHANGED <<owed, synced>>
        /\ submits' \in Nat /\ (isd_pc' \in {"submit", "solve"} => submits' # 0)
    BY <1>3 DEF IsdCall, init_device, submit_problem, solveQ, read_result, cobi_open_device, SingleInv
  <2> QED BY <1>1, <1>2, <2>1 DEF SingleInv, AnswersInOrder
<1>4. CASE Die
  BY <1>1, <1>2, <1>4 DEF Die, SingleInv, AnswersInOrder
<1>5. CASE NothingYet
  BY <1>1, <1>2, <1>5 DEF NothingYet, SingleInv, AnswersInOrder
<1> QED BY <1>3, <1>4, <1>5

LEMMA SingleStep == ASSUME SingleInv, fw = "single", [Next]_vars PROVE SingleInv'
<1>1. CASE HostStep
  <2>1. UNCHANGED card /\ UNCHANGED isd /\ pc' = "failed"
    BY <1>1 DEF HostStep, Host, Open, cobi_flush_results, Call, cobi_write_program, cobi_read,
                Return, SingleInv
  <2> QED BY <2>1 DEF SingleInv, CardType, OwedInOrder, AnswersInOrder, card, isd
<1>2. CASE Poll \/ UNCHANGED vars
  BY <1>2 DEF Poll, vars, card, host, isd, SingleInv, CardType, OwedInOrder, AnswersInOrder
<1>3. CASE Crash /\ UNCHANGED isd
  BY <1>3 DEF Crash, SingleInv
<1> QED
  BY <1>1, <1>2, <1>3, SingleAnneal, SingleWrite, SingleTake, SingleReset, SingleCall
  DEF Next, IsdStep, IsdWork
------------------------------------------------------------------------------
(* With the firmware of four chips only cobi.cc works with the card.  All  *)
(* that a call has written is in a chip, in the FIFO or read, and no two of*)
(* these are results of one program.                                       *)
Busy == {c \in Chip : chip[c] # Idle}

WrittenBefore(p) == p.call = call /\ p.prob < written

AllWritten ==
  /\ \A c \in Busy : WrittenBefore(chip[c])
  /\ \A k \in 1 .. Len(fifo) : WrittenBefore(fifo[k].of)
  /\ \A m \in 1 .. Len(outputs) : WrittenBefore(outputs[m].of)

Distinct ==
  /\ \A c, d \in Busy : chip[c] = chip[d] => c = d
  /\ \A c \in Busy, k \in 1 .. Len(fifo) : chip[c] # fifo[k].of
  /\ \A c \in Busy, m \in 1 .. Len(outputs) : chip[c] # outputs[m].of
  /\ \A k, r \in 1 .. Len(fifo) : fifo[k].of = fifo[r].of => k = r
  /\ \A k \in 1 .. Len(fifo), m \in 1 .. Len(outputs) : fifo[k].of # outputs[m].of
  /\ \A m, r \in 1 .. Len(outputs) : outputs[m].of = outputs[r].of => m = r

Counted == Cardinality(Busy) + Len(fifo) + Len(outputs) = written

QuadInv ==
  /\ isd_pc \in {"idle", "failed"} /\ result = <<>>
  /\ CardType /\ outputs \in Seq(Entry) /\ call \in Nat /\ written \in Nat /\ num_probs \in Nat
  /\ pc \in {"flush", "ready"} => Busy = {}
  /\ pc = "ready" => fifo = <<>>
  /\ pc \in {"write", "read"} => call # 0 /\ AllWritten /\ Distinct /\ Counted
  /\ pc = "write" => written < num_probs
  /\ pc = "read" => written = num_probs

LEMMA BusyFinite == Busy \subseteq Chip /\ IsFiniteSet(Busy) /\ Cardinality(Busy) \in Nat
BY DeviceAssumption, FS_Subset, FS_CardinalityType DEF Busy

LEMMA QuadInit == ASSUME Init, fw = "quad" PROVE QuadInv
<1>1. CardType
  BY InitType DEF Init
<1> QED BY <1>1 DEF Init, HostInit, IsdInit, QuadInv

LEMMA QuadAnneal == ASSUME QuadInv, Anneal PROVE QuadInv'
<1>1. PICK c \in Chip, energy \in Energies : Finish(c, energy)
  BY DEF Anneal, Card
<1> DEFINE program == chip[c]
           last    == Result(program, energy)
<1>2. /\ program # Idle /\ fifo' = Append(fifo, last)
      /\ chip' = [chip EXCEPT ![c] = Idle] /\ UNCHANGED <<host, isd>>
  BY <1>1 DEF Finish, Anneal
<1>3. chip \in [Chip -> Program] /\ fifo \in Seq(Entry) /\ outputs \in Seq(Entry)
  BY DEF QuadInv, CardType
<1>4. program \in Program /\ last \in Entry /\ last.of = program
  BY <1>1, <1>3, DeviceAssumption, ProgramTypes
<1> HIDE DEF last
<1>5. /\ CardType' /\ chip'[c] = Idle /\ \A d \in Chip : d # c => chip'[d] = chip[d]
  BY <1>2, <1>3, <1>4, ProgramTypes DEF CardType
<1>6. c \in Busy /\ Busy' = Busy \ {c}
  BY <1>2, <1>5 DEF Busy
<1>7. /\ UNCHANGED <<outputs, call, written, num_probs, pc, isd_pc, result>>
      /\ pc \notin {"flush", "ready"}
  BY <1>2, <1>6 DEF QuadInv, host, isd
<1>8. /\ Len(fifo') = Len(fifo) + 1 /\ fifo'[Len(fifo) + 1].of = program
      /\ \A k \in 1 .. Len(fifo) : fifo'[k] = fifo[k]
      /\ \A k \in 1 .. Len(fifo') : k \in 1 .. Len(fifo) \/ k = Len(fifo) + 1
  BY <1>2, <1>3, <1>4
<1> HIDE DEF program
<1>9. AllWritten => AllWritten'
  BY <1>5, <1>6, <1>7, <1>8 DEF AllWritten, WrittenBefore, Busy, program
<1>10. Distinct => Distinct'
  BY <1>5, <1>6, <1>7, <1>8 DEF Distinct, Busy, program
<1>11. Counted => Counted'
  <2>1. Cardinality(Busy') = Cardinality(Busy) - 1
    BY <1>6, BusyFinite, FS_RemoveElement
  <2> QED BY <1>3, <1>7, <1>8, <2>1, BusyFinite DEF Counted
<1> QED BY <1>3, <1>5, <1>7, <1>9, <1>10, <1>11 DEF QuadInv

LEMMA QuadWrite == ASSUME QuadInv, cobi_write_program, UNCHANGED isd PROVE QuadInv'
<1> DEFINE program == [call |-> call, prob |-> written]
<1>1. PICK c \in ReadyChips : chip' = [chip EXCEPT ![c] = program]
  BY DEF cobi_write_program, Write
<1>2. chip \in [Chip -> Program] /\ fifo \in Seq(Entry) /\ outputs \in Seq(Entry)
      /\ call \in Nat \ {0} /\ written \in Nat /\ num_probs \in Nat
  BY DEF QuadInv, CardType, cobi_write_program
<1>3. c \in Chip /\ chip[c] = Idle
  BY <1>1, OnlyChip DEF ReadyChips, Chips, Only
<1>4. program \in Program /\ program.call = call /\ program.prob = written /\ program # Idle
  BY <1>2, ProgramTypes DEF Idle
<1> HIDE DEF program
<1>5. /\ fifo' = fifo /\ written' = written + 1 /\ pc = "write" /\ written < num_probs
      /\ pc' = (IF written' = num_probs THEN "read" ELSE "write")
      /\ UNCHANGED <<outputs, call, num_probs, isd_pc, result>>
  BY DEF cobi_write_program, Write, isd
<1>6. CardType' /\ chip'[c] = program /\ \A d \in Chip : d # c => chip'[d] = chip[d]
  BY <1>1, <1>2, <1>3, <1>4, <1>5 DEF CardType
<1>7. c \notin Busy /\ Busy' = Busy \cup {c}
  BY <1>3, <1>4, <1>6 DEF Busy
<1>8. AllWritten /\ Distinct /\ Counted
  BY <1>5 DEF QuadInv
<1>9. /\ \A d \in Chip : chip[d].call \in Nat /\ chip[d].prob \in Nat
      /\ \A k \in 1 .. Len(fifo) : fifo[k].of.prob \in Nat
      /\ \A m \in 1 .. Len(outputs) : outputs[m].of.prob \in Nat
  <2>1. \A p \in Program : p.call \in Nat /\ p.prob \in Nat
    BY DEF Program
  <2>2. \A e \in Entry : e.of \in Program
    BY DEF Entry
  <2> QED BY <1>2, <2>1, <2>2
<1>10. AllWritten'
  BY <1>2, <1>4, <1>5, <1>6, <1>7, <1>8, <1>9 DEF AllWritten, WrittenBefore, Busy
<1>11. Distinct'
  <2>1. /\ \A d \in Busy : chip[d] # program
        /\ \A k \in 1 .. Len(fifo) : fifo[k].of # program
        /\ \A m \in 1 .. Len(outputs) : outputs[m].of # program
    <3>1. \A p : WrittenBefore(p) => p # program
      BY <1>2, <1>4 DEF WrittenBefore
    <3> QED BY <1>8, <3>1 DEF AllWritten
  <2> QED BY <1>5, <1>6, <1>7, <1>8, <2>1 DEF Distinct, Busy
<1>12. Counted'
  <2>1. Cardinality(Busy') = Cardinality(Busy) + 1
    BY <1>7, BusyFinite, FS_AddElement
  <2> QED BY <1>2, <1>5, <1>8, <2>1, BusyFinite DEF Counted
<1>13. written' \in Nat /\ (pc' = "write" => written' < num_probs')
  BY <1>2, <1>5
<1> QED BY <1>2, <1>5, <1>6, <1>10, <1>11, <1>12, <1>13 DEF QuadInv

LEMMA QuadRead == ASSUME QuadInv, cobi_read, UNCHANGED isd PROVE QuadInv'
<1>1. /\ fifo # <<>> /\ fifo' = Tail(fifo) /\ chip' = chip /\ pc = "read"
      /\ outputs' = Append(outputs, Head(fifo))
      /\ UNCHANGED <<call, num_probs, written, pc, isd_pc, result>>
  BY DEF cobi_read, Read, has_result, isd
<1>2. /\ CardType /\ fifo \in Seq(Entry) /\ outputs \in Seq(Entry) /\ call \in Nat
      /\ written \in Nat /\ AllWritten /\ Distinct /\ Counted
  BY <1>1 DEF QuadInv, CardType
<1>3. /\ CardType' /\ outputs' \in Seq(Entry) /\ Busy' = Busy
      /\ Len(fifo') = Len(fifo) - 1 /\ Len(outputs') = Len(outputs) + 1
      /\ 1 \in 1 .. Len(fifo)
      /\ \A k \in 1 .. Len(fifo') : k + 1 \in 2 .. Len(fifo) /\ fifo'[k] = fifo[k + 1]
      /\ outputs'[Len(outputs) + 1] = fifo[1]
      /\ \A m \in 1 .. Len(outputs) : outputs'[m] = outputs[m]
      /\ \A m \in 1 .. Len(outputs') : m \in 1 .. Len(outputs) \/ m = Len(outputs) + 1
  BY <1>1, <1>2 DEF CardType, Busy
<1>4. \A k \in 2 .. Len(fifo) : k \in 1 .. Len(fifo) /\ k # 1
  OBVIOUS
<1>5. AllWritten'
  BY <1>1, <1>2, <1>3, <1>4 DEF AllWritten, WrittenBefore
<1>6. Distinct'
  <2>1. PICK n, l : n = Len(outputs) /\ l = Len(fifo)
    OBVIOUS
  <2>2. n \in Nat /\ l \in Nat
    BY <1>2, <2>1
  <2>3. /\ \A c, d \in Busy : chip[c] = chip[d] => c = d
        /\ \A c \in Busy, k \in 1 .. l : chip[c] # fifo[k].of
        /\ \A c \in Busy, m \in 1 .. n : chip[c] # outputs[m].of
        /\ \A k, r \in 1 .. l : fifo[k].of = fifo[r].of => k = r
        /\ \A k \in 1 .. l, m \in 1 .. n : fifo[k].of # outputs[m].of
        /\ \A m, r \in 1 .. n : outputs[m].of = outputs[r].of => m = r
    BY <1>2, <2>1 DEF Distinct
  <2>4. /\ 1 \in 1 .. l /\ Len(fifo') = l - 1 /\ Len(outputs') = n + 1
        /\ \A k \in 1 .. l - 1 : k + 1 \in 1 .. l /\ k + 1 # 1 /\ fifo'[k] = fifo[k + 1]
        /\ \A m \in 1 .. n : outputs'[m] = outputs[m]
        /\ outputs'[n + 1] = fifo[1]
    BY <1>3, <1>4, <2>1
  <2>5. \A m \in 1 .. n + 1 : (m \in 1 .. n /\ outputs'[m] = outputs[m]) \/ (m = n + 1 /\ outputs'[m] = fifo[1])
    BY <2>2, <2>4
  <2>6. \A c, d \in Busy : chip'[c] = chip'[d] => c = d
    BY <1>1, <2>3
  <2>7. \A c \in Busy, k \in 1 .. l - 1 : chip'[c] # fifo'[k].of
    BY <1>1, <2>3, <2>4
  <2>8. \A c \in Busy, m \in 1 .. n + 1 : chip'[c] # outputs'[m].of
    BY <1>1, <2>3, <2>4, <2>5
  <2>9. \A k, r \in 1 .. l - 1 : fifo'[k].of = fifo'[r].of => k = r
    <3> SUFFICES ASSUME NEW k \in 1 .. l - 1, NEW r \in 1 .. l - 1, fifo'[k].of = fifo'[r].of PROVE k = r
      OBVIOUS
    <3>1. k + 1 = r + 1
      BY <2>3, <2>4
    <3> QED BY <3>1
  <2>10. \A k \in 1 .. l - 1, m \in 1 .. n + 1 : fifo'[k].of # outputs'[m].of
    <3> SUFFICES ASSUME NEW k \in 1 .. l - 1, NEW m \in 1 .. n + 1 PROVE fifo'[k].of # outputs'[m].of
      OBVIOUS
    <3>1. k + 1 \in 1 .. l /\ k + 1 # 1 /\ fifo'[k] = fifo[k + 1] /\ 1 \in 1 .. l
      BY <2>4
    <3> QED BY <2>3, <2>5, <3>1
  <2>11. \A m, r \in 1 .. n + 1 : outputs'[m].of = outputs'[r].of => m = r
    BY <2>3, <2>4, <2>5
  <2>12. Busy' = Busy /\ Len(fifo') = l - 1 /\ Len(outputs') = n + 1
    BY <1>3, <2>4
  <2>13. /\ \A c, d \in Busy' : chip'[c] = chip'[d] => c = d
         /\ \A c \in Busy', k \in 1 .. Len(fifo') : chip'[c] # fifo'[k].of
         /\ \A c \in Busy', m \in 1 .. Len(outputs') : chip'[c] # outputs'[m].of
    BY <2>6, <2>7, <2>8, <2>12, Zenon
  <2>14. /\ \A k, r \in 1 .. Len(fifo') : fifo'[k].of = fifo'[r].of => k = r
         /\ \A k \in 1 .. Len(fifo'), m \in 1 .. Len(outputs') : fifo'[k].of # outputs'[m].of
         /\ \A m, r \in 1 .. Len(outputs') : outputs'[m].of = outputs'[r].of => m = r
    BY <2>9, <2>10, <2>11, <2>12, Zenon
  <2> QED BY <2>13, <2>14, Zenon DEF Distinct
<1>7. Counted'
  BY <1>1, <1>2, <1>3, BusyFinite DEF Counted
<1> QED BY <1>1, <1>2, <1>3, <1>5, <1>6, <1>7 DEF QuadInv

(* The count leaves nothing in the card when a call has read its results.  *)
LEMMA QuadCall == ASSUME QuadInv, Call \/ Return, UNCHANGED isd PROVE QuadInv'
<1>1. UNCHANGED <<chip, fifo>> /\ UNCHANGED <<isd_pc, result>>
  BY DEF Call, Return, card, isd
<1>2. CardType' /\ Busy' = Busy
  BY <1>1 DEF QuadInv, CardType, Busy
<1>3. CASE Call
  <2>1. /\ pc = "ready" /\ Busy = {} /\ fifo = <<>> /\ call \in Nat
        /\ call' = call + 1 /\ num_probs' \in NumProbs /\ written' = 0 /\ outputs' = <<>>
        /\ pc' = "write"
    BY <1>3 DEF Call, QuadInv
  <2>2. num_probs' \in Nat /\ num_probs' > 0
    <3>1. Cardinality(Chip) \in Nat /\ NumProbs \subseteq 1 .. Cardinality(Chip) + FifoRoom
      BY DeviceAssumption, FS_CardinalityType
    <3> QED BY <2>1, <3>1, DeviceAssumption
  <2>3. AllWritten' /\ Distinct'
    BY <1>1, <1>2, <2>1 DEF AllWritten, Distinct
  <2>4. Counted'
    BY <1>1, <1>2, <2>1, FS_EmptySet DEF Counted
  <2> QED BY <1>1, <1>2, <2>1, <2>2, <2>3, <2>4 DEF QuadInv
<1>4. CASE Return
  <2>1. /\ pc' = "ready" /\ Len(outputs) = num_probs /\ written = num_probs /\ Counted
        /\ outputs \in Seq(Entry) /\ fifo \in Seq(Entry)
        /\ UNCHANGED <<outputs, call, written, num_probs>>
    BY <1>4 DEF Return, QuadInv, CardType
  <2>2. Cardinality(Busy) = 0 /\ Len(fifo) = 0
    BY <2>1, BusyFinite DEF Counted
  <2>3. Busy = {} /\ fifo = <<>>
    BY <2>1, <2>2, BusyFinite, FS_EmptySet
  <2> QED BY <1>1, <1>2, <2>1, <2>3 DEF QuadInv
<1> QED BY <1>3, <1>4

LEMMA QuadOpen == ASSUME QuadInv, fw = "quad", Open \/ cobi_flush_results, UNCHANGED isd PROVE QuadInv'
<1>1. UNCHANGED <<call, num_probs, written, outputs, isd_pc, result>>
  BY DEF Open, cobi_flush_results, isd
<1>2. CASE Open
  <2>1. chip' = [c \in Chip |-> Idle] /\ fifo' = fifo /\ pc' = "flush"
    BY <1>2 DEF Open, Stop
  <2>2. CardType' /\ Busy' = {}
    BY <2>1, ProgramTypes DEF QuadInv, CardType, Busy
  <2> QED BY <1>1, <2>1, <2>2 DEF QuadInv
<1>3. CASE cobi_flush_results
  <2>1. /\ pc = "flush" /\ chip' = chip /\ Busy' = Busy /\ pc' \in {"flush", "ready"}
        /\ pc' = "ready" => fifo' = <<>>
        /\ fifo' = fifo \/ (fifo # <<>> /\ fifo' = Tail(fifo))
    BY <1>3 DEF cobi_flush_results, Flushed, has_result, Read, card, Busy
  <2>2. CardType'
    BY <2>1 DEF QuadInv, CardType
  <2> QED BY <1>1, <2>1, <2>2 DEF QuadInv
<1> QED BY <1>2, <1>3

LEMMA QuadStep == ASSUME QuadInv, fw = "quad", [Next]_vars PROVE QuadInv'
<1>1. CASE IsdStep
  BY <1>1 DEF IsdStep, IsdWork, cobi_reset, flush_results, write_program, Take, NothingYet, QuadInv
<1>2. CASE (IsdCall \/ Die) /\ UNCHANGED host
  <2>1. UNCHANGED card /\ isd_pc' \in {"idle", "failed"} /\ result' = <<>>
    BY <1>2 DEF IsdCall, init_device, submit_problem, solveQ, read_result, cobi_open_device, Die
  <2> QED BY <1>2, <2>1 DEF QuadInv, CardType, Busy, AllWritten, WrittenBefore, Distinct, Counted, card, host
<1>3. CASE Poll \/ UNCHANGED vars
  <2>1. UNCHANGED <<card, host, isd>>
    BY <1>3 DEF Poll, vars
  <2>2. CardType' /\ Busy' = Busy
    BY <2>1 DEF QuadInv, CardType, Busy, card
  <2>3. (AllWritten => AllWritten') /\ (Distinct => Distinct') /\ (Counted => Counted')
    BY <2>1, <2>2 DEF AllWritten, WrittenBefore, Distinct, Counted, card, host
  <2> QED BY <2>1, <2>2, <2>3 DEF QuadInv, card, host, isd
<1>4. CASE Crash /\ UNCHANGED isd
  <2>1. UNCHANGED card /\ UNCHANGED isd /\ pc' = "closed" /\ UNCHANGED <<call, num_probs, written, outputs>>
    BY <1>4 DEF Crash
  <2> QED BY <2>1 DEF QuadInv, CardType, card, isd
<1> QED
  BY <1>1, <1>2, <1>3, <1>4, QuadAnneal, QuadWrite, QuadRead, QuadCall, QuadOpen
  DEF Next, HostStep, Host
------------------------------------------------------------------------------
(* The firmware decides once and for all which program uses the card.      *)
CardInv == fw \in {"quad", "single"} /\ (fw = "quad" => QuadInv) /\ (fw = "single" => SingleInv)

LEMMA CardInvInit == Init => CardInv
BY SingleInit, QuadInit DEF Init, CardInit, CardInv

LEMMA CardInvStep == CardInv /\ [Next]_vars => CardInv'
<1> SUFFICES ASSUME CardInv, [Next]_vars PROVE CardInv'
  OBVIOUS
<1>1. fw' = fw
  BY SameFirmware
<1>2. fw = "quad" => QuadInv'
  BY QuadStep DEF CardInv
<1>3. fw = "single" => SingleInv'
  BY SingleStep DEF CardInv
<1> QED BY <1>1, <1>2, <1>3 DEF CardInv

(* A call reads results of its own programs only, one of each, whatever an *)
(* earlier process has left in the card (cobi_flush_results, cobi.cc:446). *)
THEOREM CallsReadTheirOwn == Spec => []OwnResults
<1>1. CardInv => OwnResults
  BY DEF CardInv, QuadInv, SingleInv, AllWritten, WrittenBefore, Distinct, OwnResults
<1> QED BY <1>1, CardInvInit, CardInvStep, PTL DEF Spec

(* The library returns results in the order of the programs, also after a  *)
(* reset in between (read_result, isd/cobi.c:744).                         *)
THEOREM ResultsInOrder == Spec => []AnswersInOrder
<1>1. CardInv => AnswersInOrder
  BY DEF CardInv, QuadInv, SingleInv, AnswersInOrder
<1> QED BY <1>1, CardInvInit, CardInvStep, PTL DEF Spec
------------------------------------------------------------------------------
(* The lowest energy below zero, and where it was read.                    *)
Best ==
  /\ best_energy \in Int /\ best_output \in Nat /\ best_energy <= 0
  /\ \A m \in 1 .. Len(outputs) : best_energy <= outputs[m].energy
  /\ best_energy < 0 => /\ best_output + 1 \in 1 .. Len(outputs)
                        /\ outputs[best_output + 1].energy = best_energy

BestInv == pc \in {"write", "read"} => Best

(* Only an output that is read, and the start of a call, change it.        *)
LEMMA BestStep == ASSUME CardInv, BestInv, [Next]_vars PROVE BestInv'
<1>1. CASE Call
  BY <1>1 DEF Call, BestInv, Best
<1>2. CASE cobi_read
  <2>1. pc = "read" /\ fw = "quad" /\ fifo # <<>>
    BY <1>2 DEF cobi_read, Read, has_result, CardInv, SingleInv
  <2>2. outputs \in Seq(Entry) /\ fifo \in Seq(Entry) /\ Best
    BY <2>1 DEF CardInv, QuadInv, CardType, BestInv
  <2>3. PICK e \in Entry : e = Head(fifo)
    BY <2>1, <2>2
  <2>4. /\ outputs' = Append(outputs, e)
        /\ IF e.energy < best_energy
             THEN best_energy' = e.energy /\ best_output' = Len(outputs)
             ELSE UNCHANGED <<best_energy, best_output>>
    BY <1>2, <2>3 DEF cobi_read, Better, Latest
  <2>5. e.energy \in Int
    BY <2>3 DEF Entry
  <2>6. /\ Len(outputs') = Len(outputs) + 1 /\ Len(outputs) \in Nat
        /\ outputs'[Len(outputs) + 1] = e
        /\ \A m \in 1 .. Len(outputs) : outputs'[m] = outputs[m] /\ outputs[m].energy \in Int
        /\ \A m \in 1 .. Len(outputs') : m \in 1 .. Len(outputs) \/ m = Len(outputs) + 1
    <3>1. \A m \in 1 .. Len(outputs) : outputs[m] \in Entry
      BY <2>2
    <3>2. \A r \in Entry : r.energy \in Int
      BY DEF Entry
    <3>3. \A m \in 1 .. Len(outputs) : outputs[m].energy \in Int
      BY <3>1, <3>2
    <3> QED BY <2>2, <2>3, <2>4, <3>3
  <2>7. CASE e.energy < best_energy
    <3>1. /\ best_energy \in Int /\ best_energy <= 0
          /\ \A m \in 1 .. Len(outputs) : best_energy <= outputs[m].energy
      BY <2>2 DEF Best
    <3>2. best_energy' = e.energy /\ best_output' = Len(outputs)
      BY <2>4, <2>7
    <3>3. \A m \in 1 .. Len(outputs') : e.energy <= outputs'[m].energy
      BY <2>5, <2>6, <2>7, <3>1
    <3>4. best_output' + 1 \in 1 .. Len(outputs') /\ outputs'[best_output' + 1].energy = e.energy
      BY <2>6, <3>2
    <3>5. best_energy' \in Int /\ best_output' \in Nat /\ best_energy' <= 0
      BY <2>5, <2>6, <2>7, <3>1, <3>2
    <3> QED BY <3>2, <3>3, <3>4, <3>5 DEF Best, BestInv
  <2>8. CASE ~(e.energy < best_energy)
    <3>1. /\ best_energy \in Int /\ best_output \in Nat /\ best_energy <= 0
          /\ \A m \in 1 .. Len(outputs) : best_energy <= outputs[m].energy
          /\ best_energy < 0 => /\ best_output + 1 \in 1 .. Len(outputs)
                                /\ outputs[best_output + 1].energy = best_energy
      BY <2>2 DEF Best
    <3>2. best_energy' = best_energy /\ best_output' = best_output
      BY <2>4, <2>8
    <3>3. \A m \in 1 .. Len(outputs') : best_energy <= outputs'[m].energy
      BY <2>5, <2>6, <2>8, <3>1
    <3>4. best_energy < 0 => /\ best_output + 1 \in 1 .. Len(outputs')
                             /\ outputs'[best_output + 1].energy = best_energy
      BY <2>6, <3>1
    <3> QED BY <3>1, <3>2, <3>3, <3>4 DEF Best, BestInv
  <2> QED BY <2>7, <2>8
<1>3. CASE cobi_write_program
  BY <1>3 DEF cobi_write_program, BestInv, Best
<1>4. CASE Open \/ cobi_flush_results \/ Return \/ Crash
  BY <1>4 DEF Open, cobi_flush_results, Return, Crash, BestInv
<1>5. CASE UNCHANGED host
  BY <1>5 DEF host, BestInv, Best
<1> QED BY <1>1, <1>2, <1>3, <1>4, <1>5 DEF Next, Anneal, Poll, HostStep, Host, IsdStep, vars

(* A call in which a chip reports a negative energy returns the result of  *)
(* the lowest (cobi.cc:1282).                                              *)
THEOREM ReturnsLowest == Spec => LowestReturned
<1> DEFINE Lowest == pc = "read" /\ pc' = "ready" =>
             \A i \in 1 .. Len(outputs) : outputs[i].energy < 0 => answer'.energy <= outputs[i].energy
<1>1. Init => BestInv
  BY DEF Init, HostInit, BestInv
<1>2. CardInv /\ BestInv /\ [Next]_vars => BestInv'
  BY BestStep
<1>3. CardInv /\ BestInv /\ [Next]_vars => [Lowest]_<<card, host>>
  <2> SUFFICES ASSUME CardInv, BestInv, [Next]_vars, pc = "read", pc' = "ready" PROVE Lowest
    OBVIOUS
  <2>1. Return
    BY DEF Next, Anneal, Poll, HostStep, Host, IsdStep, Open, cobi_flush_results, Call,
           cobi_write_program, cobi_read, Crash, vars, host
  <2>2. answer' = outputs[best_output + 1] /\ Best
    BY <2>1 DEF Return, BestInv
  <2>3. \A m \in 1 .. Len(outputs) : outputs[m].energy \in Int
    <3>1. outputs \in Seq(Entry)
      BY DEF CardInv, QuadInv, SingleInv
    <3>2. \A m \in 1 .. Len(outputs) : outputs[m] \in Entry
      BY <3>1
    <3> QED BY <3>2 DEF Entry
  <2>4. ASSUME NEW m \in 1 .. Len(outputs), outputs[m].energy < 0
        PROVE  answer'.energy <= outputs[m].energy
    <3>1. best_energy <= outputs[m].energy /\ best_energy \in Int /\ outputs[m].energy \in Int
      BY <2>2, <2>3 DEF Best
    <3>2. best_energy < 0
      BY <2>4, <3>1
    <3> QED BY <2>2, <3>1, <3>2 DEF Best
  <2> QED BY <2>4
<1> HIDE DEF Lowest
<1>4. Init /\ [][Next]_vars => [][Lowest]_<<card, host>>
  BY <1>1, <1>2, <1>3, CardInvInit, CardInvStep, PTL
<1> QED BY <1>4, PTL DEF Lowest, Spec, LowestReturned
------------------------------------------------------------------------------
(* C's arithmetic.                                                         *)
LEMMA Divided ==
  ASSUME NEW a \in Int, NEW b \in Int, b > 0
  PROVE  /\ a \div b \in Int /\ b * (a \div b) <= a /\ a < b * (a \div b) + b
         /\ a % b = a - b * (a \div b) /\ a % b \in 0 .. b - 1
OBVIOUS

(* A multiple that is not above a number is not above the quotient.        *)
LEMMA AtMostDivided ==
  ASSUME NEW a \in Int, NEW b \in Int, b > 0, NEW k \in Int, b * k <= a
  PROVE  k <= a \div b
OBVIOUS

(* A number is its sign times its size.                                    *)
LEMMA SignAbs ==
  ASSUME NEW n \in Int
  PROVE  /\ Abs(n) \in Nat /\ Sign(n) \in {-1, 0, 1}
         /\ n > 0 => Abs(n) = n /\ Sign(n) = 1
         /\ n = 0 => Abs(n) = 0 /\ Sign(n) = 0
         /\ n < 0 => Abs(n) = -n /\ Sign(n) = -1
BY DEF Abs, Sign

(* The two halves of a weight make up the weight, and are halves.          *)
LEMMA HalvesAdd ==
  ASSUME NEW n \in -14 .. 14
  PROVE  /\ Half(n) \in -7 .. 7 /\ Half(n) + Odd(n) \in -7 .. 7
         /\ Half(n) + (Half(n) + Odd(n)) = n
<1>1. n \in Int
  OBVIOUS
<1>2. CASE n = 0
  BY <1>2, SignAbs DEF Half, Odd
<1>3. CASE n > 0
  <2>1. Half(n) = n \div 2
    BY <1>1, <1>3, SignAbs DEF Half
  <2> QED BY <1>3, <2>1 DEF Odd
<1>4. CASE n < 0
  <2>1. PICK k \in Int : k = (-n) \div 2
    BY <1>1
  <2>2. Half(n) = -k
    BY <1>1, <1>4, <2>1, SignAbs DEF Half
  <2> QED BY <1>4, <2>1, <2>2 DEF Odd
<1> QED BY <1>1, <1>2, <1>3, <1>4

(* Halves are rounded up where nothing is negative.                        *)
LEMMA RoundUp ==
  ASSUME NEW n \in Nat, NEW d \in Nat, d > 0
  PROVE  (2 * n + d) \div (2 * d) \in Nat
<1>1. PICK b \in Int : b = 2 * d /\ b > 0
  OBVIOUS
<1>2. PICK a \in Int : a = 2 * n + d /\ b * 0 <= a
  OBVIOUS
<1>3. a \div b \in Int /\ 0 <= a \div b
  BY <1>1, <1>2, Divided, AtMostDivided
<1> QED BY <1>1, <1>2, <1>3

(* round() keeps the sign.                                                 *)
LEMMA RoundSign ==
  ASSUME NEW n \in Int, NEW d \in Nat, d > 0
  PROVE  /\ Round(n, d) \in Int
         /\ n = 0 => Round(n, d) = 0
         /\ n > 0 => Round(n, d) = (2 * n + d) \div (2 * d) /\ Round(n, d) >= 0
         /\ n < 0 => Round(n, d) = -((2 * (-n) + d) \div (2 * d)) /\ Round(n, d) <= 0
<1>1. PICK m \in Nat : m = Abs(n)
  BY SignAbs
<1>2. PICK k \in Nat : k = (2 * m + d) \div (2 * d)
  BY RoundUp
<1>3. Round(n, d) = Sign(n) * k
  BY <1>1, <1>2 DEF Round
<1>4. CASE n > 0
  <2>1. m = n /\ Sign(n) = 1
    BY <1>1, <1>4, SignAbs
  <2> QED BY <1>2, <1>3, <1>4, <2>1
<1>5. CASE n = 0
  <2>1. Sign(n) = 0
    BY <1>5, SignAbs
  <2> QED BY <1>2, <1>3, <1>5, <2>1
<1>6. CASE n < 0
  <2>1. m = -n /\ Sign(n) = -1
    BY <1>1, <1>6, SignAbs
  <2>2. Round(n, d) = -k
    BY <1>3, <2>1
  <2> QED BY <1>2, <1>6, <2>1, <2>2
<1> QED BY <1>4, <1>5, <1>6

(* Of two fractions the larger is not rounded to less.                     *)
LEMMA RoundedUp ==
  ASSUME NEW n \in Nat, NEW d \in Nat, d > 0, NEW m \in Nat, NEW e \in Nat, e > 0, n * e <= m * d
  PROVE  (2 * n + d) \div (2 * d) <= (2 * m + e) \div (2 * e)
<1>1. PICK k \in Nat : k = (2 * n + d) \div (2 * d)
  BY RoundUp
<1>2. (2 * d) * k <= 2 * n + d
  <2>1. 2 * d \in Int /\ 2 * d > 0 /\ 2 * n + d \in Int
    OBVIOUS
  <2> QED BY <1>1, <2>1, Divided
<1>3. PICK x \in Int : x = 2 * e * k - (2 * m + e)
  <2>1. PICK y \in Int : y = e * k
    OBVIOUS
  <2>2. 2 * y - (2 * m + e) \in Int
    OBVIOUS
  <2>3. 2 * e * k = 2 * y
    BY <2>1
  <2> QED BY <2>2, <2>3
<1>4. d * x <= 0
  <2>1. PICK ne \in Int, md \in Int, de \in Int, dek \in Int :
          ne = n * e /\ md = m * d /\ de = d * e /\ dek = d * e * k
    OBVIOUS
  <2>2. e * ((2 * d) * k) <= e * (2 * n + d)
    BY <1>2
  <2>3. 2 * dek <= 2 * ne + de
    BY <2>1, <2>2
  <2>4. d * x = 2 * dek - (2 * md + de)
    BY <1>3, <2>1
  <2> QED BY <2>1, <2>3, <2>4
<1>5. x <= 0
  BY <1>4
<1>6. (2 * e) * k <= 2 * m + e
  BY <1>3, <1>5
<1> QED BY <1>1, <1>6, AtMostDivided

(* Nor of any two with positive denominators.                              *)
LEMMA RoundKeepsOrder ==
  ASSUME NEW n \in Int, NEW d \in Nat, d > 0, NEW m \in Int, NEW e \in Nat, e > 0, n * e <= m * d
  PROVE  Round(n, d) <= Round(m, e)
<1>1. /\ Round(n, d) \in Int /\ Round(m, e) \in Int
  BY RoundSign
<1>2. CASE n >= 0 /\ m < 0
  <2>1. n * e >= 0
    BY <1>2
  <2>2. m * d < 0
    BY <1>2
  <2> QED BY <2>1, <2>2
<1>3. CASE n <= 0 /\ m >= 0
  <2>1. Round(n, d) <= 0 /\ Round(m, e) >= 0
    BY <1>3, RoundSign
  <2> QED BY <1>1, <2>1
<1>4. CASE n > 0 /\ m > 0
  <2>1. Round(n, d) = (2 * n + d) \div (2 * d) /\ Round(m, e) = (2 * m + e) \div (2 * e)
    BY <1>4, RoundSign
  <2> QED BY <1>4, <2>1, RoundedUp
<1>5. CASE n > 0 /\ m = 0
  <2>1. n * e > 0 /\ m * d = 0
    BY <1>5
  <2> QED BY <2>1
<1>6. CASE n < 0 /\ m < 0
  <2>1. PICK a \in Nat, b \in Nat : a = -n /\ b = -m
    BY <1>6
  <2>2. b * d <= a * e
    <3>1. PICK ne \in Int, md \in Int : ne = n * e /\ md = m * d
      OBVIOUS
    <3>2. a * e = -ne /\ b * d = -md
      BY <2>1, <3>1
    <3> QED BY <3>1, <3>2
  <2>3. PICK r \in Nat, s \in Nat : r = (2 * a + d) \div (2 * d) /\ s = (2 * b + e) \div (2 * e)
    BY RoundUp
  <2>4. s <= r
    BY <2>2, <2>3, RoundedUp
  <2>5. Round(n, d) = -r /\ Round(m, e) = -s
    BY <1>6, <2>1, <2>3, RoundSign
  <2> QED BY <2>4, <2>5
<1> QED BY <1>2, <1>3, <1>4, <1>5, <1>6

(* To cut off what is beyond 14 keeps zero and the order.                  *)
LEMMA ClampKeeps ==
  ASSUME NEW n \in Int
  PROVE  /\ Clamp(n) \in -14 .. 14 /\ Clamp(0) = 0
         /\ \A m \in Int : n <= m => Clamp(n) <= Clamp(m)
BY DEF Clamp

(* What a normalisation has to give: weights the chip has, none where there*)
(* is no coupler, and in the order of the Ising values.                    *)
Ordered(I, w) ==
  /\ w \in [UpperPair -> -14 .. 14]
  /\ \A p \in UpperPair : I[p] = 0 => w[p] = 0
  /\ \A p, r \in UpperPair : I[p] # 0 /\ I[r] # 0 /\ I[p] <= I[r] => w[p] <= w[r]
Monotone(I, w) == \A p, r \in UpperPair : I[p] <= I[r] => w[p] <= w[r]

(* What fits an int is clamped on the side that matters, as it would be on *)
(* both; what does not is at least an int.                                 *)
LEMMA ScaledInt ==
  ASSUME NEW I \in [UpperPair -> Int], NEW s \in Nat, NEW p \in UpperPair
  PROVE  /\ I[p] \in Int /\ s * I[p] \in Int /\ Round(s * I[p], 40) \in Int
         /\ norm_scaled(I, s)[p] \in Int
         /\ Round(s * I[p], 40) <= INT_MAX => norm_scaled(I, s)[p] = Clamp(Round(s * I[p], 40))
<1>1. PICK v \in Int : v = I[p]
  OBVIOUS
<1>2. PICK t \in Int : t = s * v /\ (v > 0 => t >= 0) /\ (v <= 0 => t <= 0)
  <2>1. s * v \in Int /\ (v > 0 => s * v >= 0) /\ (v <= 0 => s * v <= 0)
    OBVIOUS
  <2> QED BY <2>1
<1>3. PICK n \in Int : n = Round(t, 40) /\ (v > 0 => n >= 0) /\ (v <= 0 => n <= 0)
  <2>1. /\ Round(t, 40) \in Int /\ (t = 0 => Round(t, 40) = 0)
        /\ (t > 0 => Round(t, 40) >= 0) /\ (t < 0 => Round(t, 40) <= 0)
    BY RoundSign
  <2>2. (t >= 0 => Round(t, 40) >= 0) /\ (t <= 0 => Round(t, 40) <= 0)
    BY <2>1
  <2> QED BY <1>2, <2>1, <2>2
<1>4. INT_MAX \in Nat /\ INT_MAX >= 15
  BY ProblemAssumption
<1>5. PICK k \in Int : k = ToInt(n) /\ (n \in -INT_MAX - 1 .. INT_MAX => k = n)
                       /\ (n \notin -INT_MAX - 1 .. INT_MAX => k = -INT_MAX - 1)
  BY <1>4 DEF ToInt
<1>6. norm_scaled(I, s)[p] = IF v > 0 THEN (IF k > 14 THEN 14 ELSE k) ELSE (IF k < -14 THEN -14 ELSE k)
  BY <1>1, <1>2, <1>3, <1>5 DEF norm_scaled
<1>7. norm_scaled(I, s)[p] \in Int
  BY <1>6
<1>8. ASSUME n <= INT_MAX PROVE norm_scaled(I, s)[p] = Clamp(n)
  <2>1. CASE v > 0
    BY <1>3, <1>4, <1>5, <1>6, <1>8, <2>1 DEF Clamp
  <2>2. CASE v <= 0
    BY <1>3, <1>4, <1>5, <1>6, <1>8, <2>2 DEF Clamp
  <2> QED BY <2>1, <2>2
<1> QED BY <1>1, <1>2, <1>3, <1>7, <1>8

(* The scaled normalisation rounds multiples of the values.                *)
LEMMA ScaledOrdered ==
  ASSUME NEW I \in [UpperPair -> Int], NEW s \in Nat,
         \A p \in UpperPair : Round(s * I[p], 40) <= INT_MAX
  PROVE  Ordered(I, norm_scaled(I, s)) /\ Monotone(I, norm_scaled(I, s))
<1>1. PICK w : w = norm_scaled(I, s)
  OBVIOUS
<1>2. ASSUME NEW p \in UpperPair
      PROVE  /\ I[p] \in Int /\ s * I[p] \in Int /\ Round(s * I[p], 40) \in Int
             /\ w[p] = Clamp(Round(s * I[p], 40)) /\ w[p] \in -14 .. 14
  BY <1>1, ScaledInt, ClampKeeps
<1>3. ASSUME NEW p \in UpperPair, I[p] = 0 PROVE w[p] = 0
  <2>1. s * I[p] = 0
    BY <1>3
  <2>2. Round(0, 40) = 0
    BY RoundSign
  <2> QED BY <1>2, <2>1, <2>2, ClampKeeps
<1>4. ASSUME NEW p \in UpperPair, NEW r \in UpperPair, I[p] <= I[r] PROVE w[p] <= w[r]
  <2>1. PICK a \in Int, b \in Int : a = I[p] /\ b = I[r] /\ a <= b
    BY <1>2, <1>4
  <2>2. PICK m \in Int, n \in Int : m = s * a /\ n = s * b
    OBVIOUS
  <2>3. m <= n
    BY <2>1, <2>2
  <2>4. m * 40 <= n * 40
    BY <2>3
  <2>5. Round(m, 40) <= Round(n, 40)
    BY <2>4, RoundKeepsOrder
  <2> QED BY <1>2, <2>1, <2>2, <2>5, ClampKeeps
<1>5. w \in [UpperPair -> -14 .. 14]
  <2>1. w = [p \in UpperPair |-> w[p]]
    BY <1>1 DEF norm_scaled
  <2> QED BY <1>2, <2>1
<1> QED BY <1>1, <1>3, <1>4, <1>5 DEF Ordered, Monotone

(* n / (1 + |n|) grows with n.                                             *)
LEMMA NonlinearOrdered ==
  ASSUME NEW I \in [UpperPair -> Int], NEW s \in Nat
  PROVE  Ordered(I, norm_nonlinear(I, s)) /\ Monotone(I, norm_nonlinear(I, s))
<1>1. PICK w : w = norm_nonlinear(I, s)
  OBVIOUS
<1>2. ASSUME NEW p \in UpperPair
      PROVE  /\ I[p] \in Int /\ Round(14 * s * I[p], 40 + s * Abs(I[p])) \in Int
             /\ 14 * s * I[p] \in Int /\ 40 + s * Abs(I[p]) \in Nat /\ 40 + s * Abs(I[p]) > 0
             /\ w[p] = Clamp(Round(14 * s * I[p], 40 + s * Abs(I[p]))) /\ w[p] \in -14 .. 14
  <2>1. PICK a \in Int, b \in Nat : a = I[p] /\ b = Abs(I[p])
    BY SignAbs
  <2>2. 14 * s * a \in Int /\ 40 + s * b \in Nat /\ 40 + s * b > 0
    <3>1. PICK c \in Nat, d \in Int : c = s * b /\ d = s * a
      OBVIOUS
    <3>2. 14 * s * a = 14 * d
      BY <3>1
    <3> QED BY <3>1, <3>2
  <2>3. Round(14 * s * I[p], 40 + s * Abs(I[p])) \in Int
    BY <2>1, <2>2, RoundSign
  <2>4. w[p] = Clamp(Round(14 * s * I[p], 40 + s * Abs(I[p])))
    BY <1>1 DEF norm_nonlinear
  <2> QED BY <2>1, <2>2, <2>3, <2>4, ClampKeeps
<1>3. ASSUME NEW p \in UpperPair, I[p] = 0 PROVE w[p] = 0
  <2>1. 14 * s * I[p] = 0
    BY <1>3
  <2>2. Round(0, 40 + s * Abs(I[p])) = 0
    BY <1>2, RoundSign
  <2> QED BY <1>2, <2>1, <2>2, ClampKeeps
<1>4. ASSUME NEW p \in UpperPair, NEW r \in UpperPair, I[p] <= I[r] PROVE w[p] <= w[r]
  <2>1. PICK a \in Int, b \in Int : a = I[p] /\ b = I[r] /\ a <= b
    BY <1>2, <1>4
  <2>2. PICK u \in Nat, v \in Nat : u = Abs(a) /\ v = Abs(b)
    BY SignAbs
  <2>3. a * v <= b * u
    <3>1. CASE a >= 0
      <4>1. u = a /\ v = b
        BY <2>1, <2>2, <3>1, SignAbs
      <4> QED BY <4>1
    <3>2. CASE b <= 0
      <4>1. u = -a /\ v = -b
        BY <2>1, <2>2, <3>2, SignAbs
      <4>2. PICK ab \in Int : ab = a * b
        OBVIOUS
      <4>3. a * (-b) = -ab /\ b * (-a) = -ab
        BY <4>2
      <4> QED BY <4>1, <4>3
    <3>3. CASE a < 0 /\ b > 0
      <4>1. PICK x \in Int, y \in Int : x = a * v /\ y = b * u
        OBVIOUS
      <4>2. x <= 0 /\ y >= 0
        BY <3>3, <4>1
      <4> QED BY <4>1, <4>2
    <3> QED BY <3>1, <3>2, <3>3
  <2>4. PICK x \in Int, y \in Int, sa \in Int, sb \in Int, d \in Nat, e \in Nat :
          /\ x = s * (a * v) /\ y = s * (b * u) /\ sa = s * a /\ sb = s * b
          /\ d = 40 + s * u /\ e = 40 + s * v
    OBVIOUS
  <2>5. sa <= sb /\ x <= y /\ d > 0 /\ e > 0
    <3>1. sa <= sb
      BY <2>1, <2>4
    <3>2. x <= y
      <4>1. PICK av \in Int, bu \in Int : av = a * v /\ bu = b * u
        OBVIOUS
      <4> QED BY <2>3, <2>4, <4>1
    <3>3. PICK su \in Nat, sv \in Nat : su = s * u /\ sv = s * v
      OBVIOUS
    <3> QED BY <2>4, <3>1, <3>2, <3>3
  <2>6. PICK m \in Int, n \in Int : m = 14 * s * a /\ n = 14 * s * b
    <3>1. 14 * s * a = 14 * sa /\ 14 * s * b = 14 * sb
      BY <2>4
    <3> QED BY <3>1
  <2>7. m * e <= n * d
    <3>1. m = 14 * sa /\ n = 14 * sb
      BY <2>4, <2>6
    <3>2. m * e = 14 * (40 * sa) + 14 * (s * x)
      BY <2>4, <3>1
    <3>3. n * d = 14 * (40 * sb) + 14 * (s * y)
      BY <2>4, <3>1
    <3>4. PICK sx \in Int, sy \in Int : sx = s * x /\ sy = s * y
      OBVIOUS
    <3>5. sx <= sy
      BY <2>5, <3>4
    <3> QED BY <2>5, <3>2, <3>3, <3>4, <3>5
  <2>8. Round(m, d) <= Round(n, e)
    BY <2>5, <2>7, RoundKeepsOrder
  <2>9. /\ Round(m, d) \in Int /\ Round(n, e) \in Int
        /\ w[p] = Clamp(Round(m, d)) /\ w[r] = Clamp(Round(n, e))
    BY <1>2, <2>1, <2>2, <2>4, <2>6
  <2> QED BY <2>8, <2>9, ClampKeeps
<1>5. w \in [UpperPair -> -14 .. 14]
  BY <1>1, <1>2 DEF norm_nonlinear
<1> QED BY <1>1, <1>3, <1>4, <1>5 DEF Ordered, Monotone

(* The least and the largest of the values and zero.                       *)
LEMMA Bounded ==
  ASSUME NEW I \in [UpperPair -> Int]
  PROVE  LET values == {0} \cup {I[p] : p \in UpperPair}
         IN  /\ Min(values) \in Int /\ Max(values) \in Int
             /\ \A v \in values : Min(values) <= v /\ v <= Max(values)
<1>1. PICK V : V = {0} \cup {I[p] : p \in UpperPair}
  OBVIOUS
<1>2. V \subseteq Int /\ V # {}
  BY <1>1
<1>3. IsFiniteSet(V)
  <2>1. IsFiniteSet({I[p] : p \in UpperPair})
    <3>1. IsFiniteSet(UpperPair)
      BY QuboFinite
    <3> QED BY <3>1, ImageFinite
  <2> QED BY <1>1, <2>1, FS_Singleton, FS_Union
<1>4. /\ \E m \in V : \A v \in V : m <= v
      /\ \E m \in V : \A v \in V : v <= m
  BY <1>2, <1>3, Extremes
<1>5. Min(V) \in V /\ \A v \in V : Min(V) <= v
  BY <1>4 DEF Min
<1>6. Max(V) \in V /\ \A v \in V : v <= Max(V)
  <2>1. \E m \in V : \A v \in V : m >= v
    BY <1>2, <1>4
  <2>2. Max(V) \in V /\ \A v \in V : Max(V) >= v
    BY <2>1 DEF Max
  <2> QED BY <1>2, <2>2
<1> QED BY <1>1, <1>2, <1>5, <1>6

(* The linear one maps the span of the values to that of the weights.      *)
LEMMA LinearOrdered ==
  ASSUME NEW I \in [UpperPair -> Int], NEW s \in Nat
  PROVE  Ordered(I, norm_linear(I, s))
<1>1. PICK w : w = norm_linear(I, s)
  OBVIOUS
<1>2. PICK min \in Int, max \in Int :
        /\ min = Min({0} \cup {I[p] : p \in UpperPair})
        /\ max = Max({0} \cup {I[p] : p \in UpperPair})
        /\ \A v \in {0} \cup {I[p] : p \in UpperPair} : min <= v /\ v <= max
  BY Bounded
<1> DEFINE above(v) == s * (28 * (v - min) - 14 * (max - min))
           span     == 10 * (max - min)
<1>3. \A p \in UpperPair : w[p] = IF I[p] = 0 THEN 0 ELSE Clamp(Round(above(I[p]), span))
  BY <1>1, <1>2 DEF norm_linear
<1>4. ASSUME NEW v \in Int PROVE above(v) \in Int
  <2>1. PICK t \in Int : t = 28 * (v - min) - 14 * (max - min)
    <3>1. 28 * (v - min) - 14 * (max - min) \in Int
      OBVIOUS
    <3> QED BY <3>1
  <2> QED BY <2>1
<1>5. ASSUME NEW p \in UpperPair, I[p] # 0
      PROVE  /\ I[p] \in Int /\ min <= I[p] /\ I[p] <= max /\ span \in Nat /\ span > 0
             /\ Round(above(I[p]), span) \in Int
  <2>1. I[p] \in Int /\ min <= I[p] /\ I[p] <= max /\ min <= 0 /\ 0 <= max
    BY <1>2
  <2>2. span \in Nat /\ span > 0
    BY <1>5, <2>1
  <2>3. above(I[p]) \in Int
    BY <1>4, <2>1
  <2> HIDE DEF above, span
  <2> QED BY <2>1, <2>2, <2>3, RoundSign
<1>6. ASSUME NEW p \in UpperPair PROVE w[p] \in -14 .. 14
  <2> HIDE DEF above, span
  <2>1. CASE I[p] = 0
    BY <1>3, <2>1
  <2>2. CASE I[p] # 0
    BY <1>3, <1>5, <2>2, ClampKeeps
  <2> QED BY <2>1, <2>2
<1>7. ASSUME NEW p \in UpperPair, NEW r \in UpperPair, I[p] # 0, I[r] # 0, I[p] <= I[r]
      PROVE  w[p] <= w[r]
  <2>1. PICK a \in Int, b \in Int : a = above(I[p]) /\ b = above(I[r])
    BY <1>4, <1>5, <1>7
  <2>2. a <= b
    <3>1. PICK x \in Int, y \in Int :
            x = 28 * (I[p] - min) - 14 * (max - min) /\ y = 28 * (I[r] - min) - 14 * (max - min)
      BY <1>5, <1>7
    <3>2. x <= y
      BY <1>5, <1>7, <3>1
    <3>3. a = s * x /\ b = s * y
      BY <2>1, <3>1
    <3> QED BY <3>2, <3>3
  <2>3. PICK d \in Nat : d = span /\ d > 0
    BY <1>5, <1>7
  <2>4. a * d <= b * d
    BY <2>2, <2>3
  <2>5. Round(a, d) <= Round(b, d)
    BY <2>3, <2>4, RoundKeepsOrder
  <2>6. Round(a, d) \in Int /\ Round(b, d) \in Int
    BY <2>3, RoundSign
  <2>7. w[p] = Clamp(Round(a, d)) /\ w[r] = Clamp(Round(b, d))
    <3> HIDE DEF above, span
    <3> QED BY <1>3, <1>7, <2>1, <2>3
  <2> QED BY <2>5, <2>6, <2>7, ClampKeeps
<1>8. w \in [UpperPair -> -14 .. 14]
  BY <1>1, <1>6 DEF norm_linear
<1>9. \A p \in UpperPair : I[p] = 0 => w[p] = 0
  BY <1>3
<1> QED BY <1>1, <1>7, <1>8, <1>9 DEF Ordered

(* A smaller factor makes nothing larger of what is positive.              *)
LEMMA SmallerFits ==
  ASSUME NEW v \in Int, NEW s \in Nat, NEW t \in Nat, s <= t, Round(t * v, 40) <= INT_MAX
  PROVE  Round(s * v, 40) <= INT_MAX
<1>1. PICK m \in Int, n \in Int : m = s * v /\ n = t * v
  OBVIOUS
<1>2. INT_MAX \in Nat
  BY ProblemAssumption
<1>3. /\ Round(m, 40) \in Int /\ Round(n, 40) \in Int
      /\ m = 0 => Round(m, 40) = 0
      /\ m < 0 => Round(m, 40) <= 0
  <2>1. 40 \in Int /\ 40 > 0
    OBVIOUS
  <2>2. Round(n, 40) \in Int
    BY <2>1, RoundSign
  <2>3. Round(m, 40) \in Int /\ (m = 0 => Round(m, 40) = 0) /\ (m < 0 => Round(m, 40) <= 0)
    BY <2>1, RoundSign
  <2> QED BY <2>2, <2>3
<1>4. CASE v > 0
  <2>1. PICK d \in Nat : t = s + d
    <3>1. t - s \in Nat /\ t = s + (t - s)
      OBVIOUS
    <3> QED BY <3>1
  <2>2. d * v >= 0 /\ n = m + d * v
    BY <1>1, <1>4, <2>1
  <2>3. PICK e \in Int : e = d * v
    OBVIOUS
  <2>4. m * 40 <= n * 40
    BY <2>2, <2>3
  <2>5. Round(m, 40) <= Round(n, 40)
    BY <2>4, RoundKeepsOrder
  <2> QED BY <1>1, <1>2, <1>3, <2>5
<1>5. CASE v <= 0
  <2>1. m <= 0
    BY <1>1, <1>5
  <2> QED BY <1>1, <1>2, <1>3, <2>1
<1> QED BY <1>4, <1>5

(* Which normalisation makes a program's weights.                          *)
LEMMA NormChosen ==
  ASSUME NEW I, prob_num \in 0 .. 4
  PROVE  \/ LinearNorm /\ norm_val(eval_strat, prob_num, I) \in {norm_linear(I, s) : s \in Nat}
         \/ norm_val(eval_strat, prob_num, I) \in {norm_scaled(I, s) : s \in 0 .. Steepest}
         \/ norm_val(eval_strat, prob_num, I) \in {norm_nonlinear(I, s) : s \in Nat}
<1>1. /\ <<5, 10, 15, 20, 40>>[prob_num + 1] \in 0 .. 40 /\ <<20, 15, 10, 5, 1>>[prob_num + 1] \in Nat
  OBVIOUS
<1>2. prob_num \in {0, 1} => <<20, 40>>[prob_num + 1] \in Nat
  OBVIOUS
<1>3. prob_num \in {3, 4} => <<20, 5>>[prob_num - 2] \in Nat
  OBVIOUS
<1>4. CASE eval_strat = "scaled"
  BY <1>1, <1>4 DEF norm_val, Steepest
<1>5. CASE eval_strat = "nonlinear"
  BY <1>1, <1>5 DEF norm_val
<1>6. CASE eval_strat = "linear"
  <2>1. PICK s \in Nat : s = <<5, 10, 15, 20, 40>>[prob_num + 1]
    BY <1>1
  <2>2. norm_val(eval_strat, prob_num, I) = norm_linear(I, s)
    BY <1>6, <2>1 DEF norm_val
  <2>3. LinearNorm
    BY <1>6 DEF LinearNorm
  <2> QED BY <2>2, <2>3
<1>7. CASE eval_strat = "mixed"
  <2>1. CASE prob_num \in {0, 1}
    BY <1>2, <1>7, <2>1 DEF norm_val, LinearNorm
  <2>2. CASE prob_num = 2
    BY <1>7, <2>2 DEF norm_val, Steepest
  <2>3. CASE prob_num \in {3, 4}
    BY <1>3, <1>7, <2>3 DEF norm_val
  <2> QED BY <2>1, <2>2, <2>3
<1>8. CASE eval_strat \notin {"scaled", "nonlinear", "linear", "mixed"}
  <2>1. norm_val(eval_strat, prob_num, I) = norm_linear(I, 10)
    BY <1>8 DEF norm_val
  <2>2. LinearNorm
    BY <1>8 DEF LinearNorm
  <2> QED BY <2>1, <2>2
<1> QED BY <1>4, <1>5, <1>6, <1>7, <1>8

(* Whatever the strategy, a program's weights are in order.                *)
LEMMA NormOrdered ==
  ASSUME ising \in [UpperPair -> Int], prob_num \in 0 .. 4, FitsInt
  PROVE  /\ Ordered(ising, norm_val(eval_strat, prob_num, ising))
         /\ LinearNorm \/ Monotone(ising, norm_val(eval_strat, prob_num, ising))
<1>1. Steepest \in Nat
  BY DEF Steepest
<1>2. ASSUME NEW s \in 0 .. Steepest PROVE \A p \in UpperPair : Round(s * ising[p], 40) <= INT_MAX
  <2> SUFFICES ASSUME NEW p \in UpperPair PROVE Round(s * ising[p], 40) <= INT_MAX
    OBVIOUS
  <2>1. s \in Nat /\ s <= Steepest /\ ising[p] \in Int /\ Round(Steepest * ising[p], 40) <= INT_MAX
    BY <1>1, <1>2 DEF FitsInt
  <2> QED BY <1>1, <2>1, SmallerFits
<1>3. ASSUME NEW s \in 0 .. Steepest
      PROVE  Ordered(ising, norm_scaled(ising, s)) /\ Monotone(ising, norm_scaled(ising, s))
  <2>1. s \in Nat
    BY <1>1
  <2> QED BY <1>2, <2>1, ScaledOrdered
<1> QED BY <1>3, NormChosen, LinearOrdered, NonlinearOrdered

(* Also what does not fit becomes numbers.                                 *)
LEMMA NormInt ==
  ASSUME ising \in [UpperPair -> Int], prob_num \in 0 .. 4
  PROVE  norm_val(eval_strat, prob_num, ising) \in [UpperPair -> Int]
<1>1. ASSUME NEW s \in Nat PROVE norm_scaled(ising, s) \in [UpperPair -> Int]
  <2>1. PICK w : w = norm_scaled(ising, s)
    OBVIOUS
  <2>2. w = [p \in UpperPair |-> w[p]]
    BY <2>1 DEF norm_scaled
  <2>3. \A p \in UpperPair : w[p] \in Int
    BY <2>1, ScaledInt
  <2> QED BY <2>1, <2>2, <2>3
<1>2. \A w : Ordered(ising, w) => w \in [UpperPair -> Int]
  BY DEF Ordered
<1>3. 0 .. Steepest \subseteq Nat
  BY DEF Steepest
<1> QED BY <1>1, <1>2, <1>3, NormChosen, LinearOrdered, NonlinearOrdered

------------------------------------------------------------------------------
(* The two cells of a pair are its own.                                    *)
LEMMA CellsOfPairs ==
  /\ \A p \in UpperPair : Near(p) \in Spin \X Spin /\ Far(p) \in Spin \X Spin
  /\ \A p, r \in UpperPair : /\ Near(p) = Near(r) => p = r
                             /\ Far(p) = Far(r) => p = r
                             /\ Near(p) # Far(r)
<1>1. ASSUME NEW p \in UpperPair
      PROVE  \E i, j \in Var : p = <<i, j>> /\ i <= j
  BY DEF UpperPair
<1>2. ASSUME NEW p \in UpperPair
      PROVE  \E a, b \in Spin : Near(p) = <<a, b>> /\ Far(p) = <<b, a>> /\ a < b
  <2>1. PICK i \in Var, j \in Var : p = <<i, j>> /\ i <= j
    BY <1>1
  <2>2. 0 \in Spin /\ i + 1 \in Spin /\ j + 1 \in Spin /\ i \in Nat /\ j \in Nat
    BY QuboSizeAssumption DEF Spin, HW_SPINS, Var
  <2>3. CASE i = j
    <3>1. Near(p) = <<0, j + 1>> /\ Far(p) = <<j + 1, 0>>
      BY <2>1, <2>3 DEF Near, Far
    <3> QED BY <2>2, <3>1
  <2>4. CASE i # j
    <3>1. Near(p) = <<i + 1, j + 1>> /\ Far(p) = <<j + 1, i + 1>>
      BY <2>1, <2>4 DEF Near, Far
    <3> QED BY <2>1, <2>2, <2>4, <3>1
  <2> QED BY <2>3, <2>4
<1>3. ASSUME NEW p \in UpperPair, NEW r \in UpperPair, Near(p) = Near(r) PROVE p = r
  <2>1. PICK i \in Var, j \in Var : p = <<i, j>> /\ i <= j
    BY <1>1
  <2>2. PICK k \in Var, l \in Var : r = <<k, l>> /\ k <= l
    BY <1>1
  <2>3. i \in Nat /\ j \in Nat /\ k \in Nat /\ l \in Nat
    BY DEF Var
  <2> QED BY <1>3, <2>1, <2>2, <2>3 DEF Near
<1>4. ASSUME NEW p \in UpperPair, NEW r \in UpperPair
      PROVE  (Far(p) = Far(r) => Near(p) = Near(r)) /\ Near(p) # Far(r)
  <2>1. PICK a \in Spin, b \in Spin : Near(p) = <<a, b>> /\ Far(p) = <<b, a>> /\ a < b
    BY <1>2
  <2>2. PICK c \in Spin, d \in Spin : Near(r) = <<c, d>> /\ Far(r) = <<d, c>> /\ c < d
    BY <1>2
  <2>3. a \in Int /\ b \in Int /\ c \in Int /\ d \in Int
    BY DEF Spin
  <2> QED BY <2>1, <2>2, <2>3
<1> QED BY <1>2, <1>3, <1>4

(* What a normalisation leaves in the buffer.                              *)
LEMMA HalvesWritten ==
  ASSUME NEW w \in [UpperPair -> -14 .. 14], NEW old \in [Spin \X Spin -> -7 .. 7]
  PROVE  /\ Halved(old, w) \in [Spin \X Spin -> -7 .. 7]
         /\ \A p \in Written : Halved(old, w)[Near(p)] + Halved(old, w)[Far(p)] = w[p]
         /\ \A p \in UpperPair \ Written :
              Halved(old, w)[Near(p)] = old[Near(p)] /\ Halved(old, w)[Far(p)] = old[Far(p)]
<1>1. PICK h : h = Halved(old, w)
  OBVIOUS
<1>2. Written \subseteq UpperPair
  BY DEF Written
<1>3. ASSUME NEW p \in Written PROVE h[Near(p)] = Half(w[p]) /\ h[Far(p)] = Half(w[p]) + Odd(w[p])
  <2>1. /\ Near(p) \in Spin \X Spin /\ Far(p) \in Spin \X Spin
        /\ \A r \in Written : (Near(p) = Near(r) => r = p) /\ (Far(p) = Far(r) => r = p) /\ Far(p) # Near(r)
    BY <1>2, CellsOfPairs
  <2>2. (CHOOSE r \in Written : Near(p) = Near(r)) = p /\ (CHOOSE r \in Written : Far(p) = Far(r)) = p
    BY <2>1
  <2>3. h[Near(p)] = Half(w[CHOOSE r \in Written : Near(p) = Near(r)])
    BY <1>1, <2>1 DEF Halved
  <2>4. PICK r : r = (CHOOSE q \in Written : Far(p) = Far(q))
    OBVIOUS
  <2>5. h[Far(p)] = Half(w[r]) + Odd(w[r])
    BY <1>1, <2>1, <2>4 DEF Halved
  <2> QED BY <2>2, <2>3, <2>4, <2>5
<1>4. ASSUME NEW c \in Spin \X Spin, \A p \in Written : c # Near(p) /\ c # Far(p) PROVE h[c] = old[c]
  BY <1>1, <1>4 DEF Halved
<1>5. ASSUME NEW p \in Written PROVE h[Near(p)] \in -7 .. 7 /\ h[Far(p)] \in -7 .. 7 /\ h[Near(p)] + h[Far(p)] = w[p]
  <2>1. PICK n \in -14 .. 14 : n = w[p]
    BY <1>2
  <2> QED BY <1>3, <2>1, HalvesAdd
<1>6. ASSUME NEW c \in Spin \X Spin PROVE h[c] \in -7 .. 7
  <2>1. CASE \E p \in Written : c = Near(p) \/ c = Far(p)
    BY <1>5, <2>1
  <2>2. CASE ~\E p \in Written : c = Near(p) \/ c = Far(p)
    <3>1. h[c] = old[c]
      BY <1>4, <2>2
    <3> QED BY <3>1
  <2> QED BY <2>1, <2>2
<1>7. h \in [Spin \X Spin -> -7 .. 7]
  <2>1. h = [c \in Spin \X Spin |-> h[c]]
    BY <1>1 DEF Halved
  <2> QED BY <1>6, <2>1
<1>8. ASSUME NEW p \in UpperPair \ Written PROVE h[Near(p)] = old[Near(p)] /\ h[Far(p)] = old[Far(p)]
  <2>1. /\ Near(p) \in Spin \X Spin /\ Far(p) \in Spin \X Spin
        /\ \A r \in Written : Near(p) # Near(r) /\ Near(p) # Far(r) /\ Far(p) # Near(r) /\ Far(p) # Far(r)
    BY <1>2, CellsOfPairs
  <2> QED BY <1>4, <2>1
<1> QED BY <1>1, <1>5, <1>7, <1>8

(* The halves of any numbers are numbers.                                  *)
LEMMA HalvesInt ==
  ASSUME NEW w \in [UpperPair -> Int], NEW old \in [Spin \X Spin -> Int]
  PROVE  Halved(old, w) \in [Spin \X Spin -> Int]
<1>1. PICK h : h = Halved(old, w)
  OBVIOUS
<1>2. ASSUME NEW n \in Int PROVE Half(n) \in Int /\ Half(n) + Odd(n) \in Int
  <2>1. PICK a \in Nat, b \in {-1, 0, 1} : a = Abs(n) /\ b = Sign(n)
    BY SignAbs
  <2>2. Half(n) = b * (a \div 2)
    BY <2>1 DEF Half
  <2>3. b * (a \div 2) \in Int
    OBVIOUS
  <2>4. Half(n) \in Int
    BY <2>2, <2>3
  <2> QED BY <2>4 DEF Odd
<1>3. Written \subseteq UpperPair
  BY DEF Written
<1>4. ASSUME NEW c \in Spin \X Spin PROVE h[c] \in Int
  <2>1. CASE \E p \in Written : c = Near(p)
    <3>1. PICK p \in Written : p = CHOOSE q \in Written : c = Near(q)
      BY <2>1
    <3>2. h[c] = Half(w[p])
      BY <1>1, <2>1, <3>1 DEF Halved
    <3> QED BY <1>2, <1>3, <3>2
  <2>2. CASE (~\E p \in Written : c = Near(p)) /\ \E p \in Written : c = Far(p)
    <3>1. PICK p \in Written : p = CHOOSE q \in Written : c = Far(q)
      BY <2>2
    <3>2. h[c] = Half(w[p]) + Odd(w[p])
      BY <1>1, <2>2, <3>1 DEF Halved
    <3> QED BY <1>2, <1>3, <3>2
  <2>3. CASE ~\E p \in Written : c = Near(p) \/ c = Far(p)
    <3>1. h[c] = old[c]
      BY <1>1, <2>3 DEF Halved
    <3> QED BY <3>1
  <2> QED BY <2>1, <2>2, <2>3
<1>5. h = [c \in Spin \X Spin |-> h[c]]
  BY <1>1 DEF Halved
<1> QED BY <1>1, <1>4, <1>5
------------------------------------------------------------------------------
(* What the matrix of a program may hold.                                  *)
Nibbles == [kind : {"empty", "shil", "control", "weight"}, value : 0 .. 15]

LEMMA Sizes ==
  /\ qubo_size \in Nat /\ HW_SPINS \in Nat /\ HW_SPINS > 0 /\ HEIGHT \in Nat /\ WIDTH \in Nat
  /\ HEIGHT = HW_SPINS + 5 /\ WIDTH = HW_SPINS + 6
  /\ \A i \in Spin : i \in Nat /\ i < HW_SPINS
BY QuboSizeAssumption DEF HW_SPINS, HEIGHT, WIDTH, Spin

LEMMA ControlSettings ==
  Settings \in Seq(UInt16) /\ LEAD \in Nat
BY ProblemAssumption

LEMMA SettingsInt == UInt16 \subseteq Int /\ 255 \in UInt16 /\ 0 .. 5 \subseteq UInt16
BY DEF UInt16

(* The nibble after a given number of others is one of a number's four.    *)
LEMMA NibbleInside ==
  ASSUME NEW v \in Int, NEW b \in 0 .. 3
  PROVE  Nibble(v, b) \in 0 .. 15
<1>1. PICK m \in Int : m > 0 /\ Nibble(v, b) = (v \div m) % 16
  <2>1. CASE b = 0
    BY <2>1 DEF Nibble
  <2>2. CASE b = 1
    BY <2>2 DEF Nibble
  <2>3. CASE b = 2
    BY <2>3 DEF Nibble
  <2>4. CASE b = 3
    BY <2>4 DEF Nibble
  <2> QED BY <2>1, <2>2, <2>3, <2>4
<1>2. v \div m \in Int
  BY <1>1
<1> QED BY <1>1, <1>2, Divided

(* The control nibbles are nibbles.                                        *)
LEMMA ControlNibble ==
  ASSUME prob_num \in 0 .. 5, NEW k \in 0 .. WIDTH - 1
  PROVE  control_nibbles[k] \in 0 .. 15
<1>1. PICK n \in Nat : n = Len(Settings)
  BY ControlSettings
<1>2. k \in Int /\ WIDTH \in Int /\ LEAD \in Int /\ k < WIDTH /\ LEAD = WIDTH - 4 * (n + 1)
  BY <1>1, Sizes, ControlSettings DEF LEAD
<1>3. CASE k < LEAD
  BY <1>3 DEF control_nibbles
<1>4. CASE ~(k < LEAD)
  <2>1. PICK d \in Nat : d = k - LEAD /\ d < 4 * (n + 1)
    BY <1>2, <1>4
  <2>2. PICK a \in Int : a = d \div 4 /\ 4 * a <= d /\ d < 4 * a + 4
    BY Divided
  <2>3. PICK b \in 0 .. 3 : b = d % 4
    OBVIOUS
  <2>4. a + 1 \in 1 .. n + 1
    BY <2>1, <2>2
  <2>5. PICK first \in UInt16 : first = IF client = "isd" THEN 255 ELSE prob_num
    BY SettingsInt, Zenon
  <2>6. (<<first>> \o Settings)[a + 1] \in UInt16
    <3>1. <<first>> \in Seq(UInt16) /\ Len(<<first>>) = 1
      OBVIOUS
    <3>2. <<first>> \o Settings \in Seq(UInt16) /\ Len(<<first>> \o Settings) = n + 1
      BY <1>1, <3>1, ControlSettings
    <3> QED BY <2>4, <3>2
  <2>7. PICK v \in UInt16 : v = (<<first>> \o Settings)[a + 1]
    BY <2>6
  <2>8. control_nibbles[k] = Nibble(v, b)
    BY <1>4, <2>1, <2>2, <2>3, <2>5, <2>7 DEF control_nibbles
  <2>9. v \in Int
    BY <2>7, SettingsInt
  <2> QED BY <2>8, <2>9, NibbleInside
<1> QED BY <1>2, <1>3, <1>4

(* So is everything in the matrix of programmable weights.                 *)
LEMMA MatrixNibbles ==
  ASSUME prob_num \in 0 .. 5, NEW norm \in [Spin \X Spin -> Int], Programmable(norm)
  PROVE  prepare_weights(norm) \in [Cell -> Nibbles]
<1>1. PICK at : at = [c \in Spin \X Spin |-> <<Row(c[1]), Col(c[2])>>]
  OBVIOUS
<1>2. PICK cellOf : cellOf = [cell \in Cell |-> CHOOSE c \in Spin \X Spin : at[c] = cell]
  OBVIOUS
<1>3. PICK m : m = prepare_weights(norm)
  OBVIOUS
<1>4. ASSUME NEW c \in Spin \X Spin PROVE (IF c[1] = c[2] THEN 0 ELSE hex_mapping(norm[c])) \in 0 .. 15
  <2>1. PICK i \in Spin, j \in Spin : c = <<i, j>>
    OBVIOUS
  <2>2. CASE i # j
    <3>1. PICK w \in -7 .. 7 : w = norm[c]
      BY <2>1, <2>2 DEF Programmable
    <3>2. hex_mapping(w) \in 0 .. 15
      BY DEF hex_mapping
    <3> QED BY <3>1, <3>2
  <2> QED BY <2>1, <2>2
<1>5. ASSUME NEW cell \in Cell PROVE m[cell] \in Nibbles
  <2>1. CASE \E c \in Spin \X Spin : at[c] = cell
    <3>1. PICK c \in Spin \X Spin : c = (CHOOSE d \in Spin \X Spin : at[d] = cell)
      BY <2>1
    <3>2. m[cell] = [kind |-> "weight", value |-> IF c[1] = c[2] THEN 0 ELSE hex_mapping(norm[c])]
      BY <1>1, <1>3, <2>1, <3>1 DEF prepare_weights
    <3> QED BY <1>4, <3>2 DEF Nibbles
  <2>2. CASE ~\E c \in Spin \X Spin : at[c] = cell
    <3>1. CASE cell \in ShilCells
      <4>1. hex_mapping(shil_val) \in 0 .. 15
        BY DEF Programmable, hex_mapping
      <4>2. m[cell] = [kind |-> "shil", value |-> hex_mapping(shil_val)]
        BY <1>1, <1>3, <2>2, <3>1 DEF prepare_weights
      <4> QED BY <4>1, <4>2 DEF Nibbles
    <3>2. CASE cell \notin ShilCells /\ cell \in ControlCells
      <4>1. cell[2] \in 0 .. WIDTH - 1
        BY <3>2 DEF ControlCells
      <4>2. control_nibbles[cell[2]] \in 0 .. 15
        BY <4>1, ControlNibble
      <4> QED BY <1>1, <1>3, <2>2, <3>2, <4>2 DEF prepare_weights, Nibbles
    <3>3. CASE cell \notin ShilCells /\ cell \notin ControlCells
      BY <1>1, <1>3, <2>2, <3>3 DEF prepare_weights, Nibbles, Empty
    <3> QED BY <3>1, <3>2, <3>3
  <2> QED BY <2>1, <2>2
<1>6. m = [cell \in Cell |-> m[cell]]
  BY <1>3 DEF prepare_weights
<1> QED BY <1>3, <1>5, <1>6
------------------------------------------------------------------------------
(* What holds of every program of a call between two steps.                *)
Buffer ==
  client = "cobisolv" /\ (stage = "convert" \/ FitsInt) =>
    /\ norm_ising \in [Spin \X Spin -> -7 .. 7]
    /\ \A p \in UpperPair : stage = "convert" \/ p \notin Written =>
         norm_ising[Near(p)] = 0 /\ norm_ising[Far(p)] = 0
Ahead ==
  /\ client \in {"cobisolv", "isd"} /\ Programs \in {1, 5}
  /\ client = "isd" => stage \notin {"convert", "normalise"}
  /\ client = "cobisolv" /\ FitsInt /\ shil_val <= 7 => stage # "exit"
  /\ prob_num \in 0 .. Programs
  /\ stage \in {"convert", "normalise", "prepare", "serialize", "sent"} => prob_num < Programs
ProblemInv ==
  /\ qubo \in [UpperPair -> Int] /\ ising \in [UpperPair -> Int]
  /\ norm_ising \in [Spin \X Spin -> Int] /\ shil_val \in 0 .. 255
  /\ program_array \in [Cell -> Nibbles]
  /\ stage \in {"convert", "normalise", "prepare", "serialize", "sent", "read", "answer", "exit"}
  /\ Ahead /\ Buffer /\ OrderKept

LEMMA EmptyMatrix == [cell \in Cell |-> Empty] \in [Cell -> Nibbles]
BY DEF Empty, Nibbles

LEMMA ProblemInitInv == ASSUME ProblemInit PROVE ProblemInv
<1>1. [p \in UpperPair |-> 0] \in [UpperPair -> Int]
  OBVIOUS
<1>2. ising \in [UpperPair -> Int] /\ prob_num = 0 /\ program_array \in [Cell -> Nibbles]
  BY <1>1, EmptyMatrix DEF ProblemInit
<1>3. /\ Qubos \subseteq [UpperPair -> Int] /\ Weights \subseteq [Spin \X Spin -> Int]
      /\ shil_val \in 0 .. 255
  <2>1. ShilVals \subseteq 0 .. 255 /\ 0 \in 0 .. 255
    BY ProblemAssumption
  <2>2. shil_val \in ShilVals \/ shil_val = 0
    BY DEF ProblemInit
  <2> QED BY <2>1, <2>2, ProblemAssumption
<1>4. Programs \in {1, 5} /\ Programs > 0
  BY DEF Programs
<1>5. CASE client = "cobisolv"
  <2>1. qubo \in Qubos /\ stage = "convert" /\ norm_ising = [c \in Spin \X Spin |-> 0]
    BY <1>5 DEF ProblemInit
  <2>2. norm_ising \in [Spin \X Spin -> -7 .. 7] /\ \A c \in Spin \X Spin : norm_ising[c] = 0
    BY <2>1
  <2>3. norm_ising \in [Spin \X Spin -> Int]
    BY <2>1
  <2>4. Buffer
    BY <2>2, CellsOfPairs DEF Buffer
  <2>5. Ahead /\ OrderKept
    BY <1>2, <1>4, <1>5, <2>1 DEF Ahead, OrderKept
  <2> QED BY <1>2, <1>3, <2>1, <2>3, <2>4, <2>5 DEF ProblemInv
<1>6. CASE client = "isd"
  <2>1. qubo = [p \in UpperPair |-> 0] /\ stage = "prepare" /\ norm_ising \in Weights
    BY <1>6 DEF ProblemInit
  <2>2. Ahead
    BY <1>2, <1>4, <1>6, <2>1 DEF Ahead
  <2> QED BY <1>1, <1>2, <1>3, <1>6, <2>1, <2>2 DEF ProblemInv, Buffer, OrderKept
<1> QED BY <1>5, <1>6 DEF ProblemInit

(* The sums of the QUBO's terms are numbers.                               *)
LEMMA IsingStep == ASSUME ProblemInv, ising_from_qubo PROVE ProblemInv'
<1>1. ASSUME NEW p \in UpperPair
      PROVE  (IF p[1] = p[2]
                THEN 2 * qubo[p] + SumFunction([j \in p[1] + 1 .. qubo_size - 1 |-> qubo[<<p[1], j>>]])
              ELSE qubo[p]) \in Int
  <2>1. qubo[p] \in Int /\ qubo \in [UpperPair -> Int] /\ p[1] \in Var
    BY DEF ProblemInv, UpperPair
  <2>2. PICK i \in Var : i = p[1]
    BY <2>1
  <2>3. PICK S : S = i + 1 .. qubo_size - 1 /\ IsFiniteSet(S)
    BY QuboFinite
  <2>4. PICK f : f = [j \in S |-> qubo[<<i, j>>]]
    OBVIOUS
  <2>5. \A j \in S : f[j] \in Int
    <3>1. \A j \in S : <<i, j>> \in UpperPair
      BY <2>3, QuboSizeAssumption DEF UpperPair, Var
    <3> QED BY <2>1, <2>4, <3>1
  <2>6. SumFunctionOnSet(f, S) \in Int
    BY <2>3, <2>5, SumInt
  <2>7. SumFunction(f) \in Int
    BY <2>4, <2>6 DEF SumFunction
  <2>8. SumFunction([j \in p[1] + 1 .. qubo_size - 1 |-> qubo[<<p[1], j>>]]) \in Int
    BY <2>2, <2>3, <2>4, <2>7
  <2> QED BY <2>1, <2>8
<1>2. ising' \in [UpperPair -> Int]
  BY <1>1 DEF ising_from_qubo
<1>3. /\ stage = "convert" /\ stage' = "normalise"
      /\ UNCHANGED <<client, qubo, eval_strat, shil_val, norm_ising, prob_num, program_array>>
  BY DEF ising_from_qubo
<1>4. client = "cobisolv"
  BY <1>3 DEF ProblemInv, Ahead
<1>5. Ahead'
  BY <1>3 DEF ProblemInv, Ahead, Programs
<1>6. Buffer'
  <2>1. norm_ising \in [Spin \X Spin -> -7 .. 7]
        /\ \A p \in UpperPair : norm_ising[Near(p)] = 0 /\ norm_ising[Far(p)] = 0
    BY <1>3, <1>4 DEF ProblemInv, Buffer
  <2>2. norm_ising' = norm_ising /\ client' = client
    BY <1>3
  <2> QED BY <2>1, <2>2 DEF Buffer
<1>7. OrderKept'
  BY <1>3 DEF OrderKept
<1> QED BY <1>2, <1>3, <1>5, <1>6, <1>7 DEF ProblemInv

(* The weights of the program are ordered as the Ising values, and two     *)
(* halves add up to a weight.                                              *)
LEMMA NormStep == ASSUME ProblemInv, cobi_norm_val PROVE ProblemInv'
<1>1. /\ stage = "normalise" /\ stage' = "prepare"
      /\ UNCHANGED <<client, qubo, eval_strat, shil_val, ising, prob_num, program_array>>
      /\ client = "cobisolv" /\ prob_num \in 0 .. 4 /\ prob_num < Programs
  BY DEF cobi_norm_val, ProblemInv, Ahead
<1>2. PICK w : w = norm_val(eval_strat, prob_num, ising) /\ norm_ising' = Halved(norm_ising, w)
  BY DEF cobi_norm_val
<1>3. Written' = Written /\ (FitsInt' <=> FitsInt) /\ (LinearNorm' <=> LinearNorm)
  BY <1>1 DEF Written, FitsInt, Steepest, LinearNorm
<1>4. Buffer' /\ OrderKept'
  <2> SUFFICES ASSUME FitsInt PROVE Buffer' /\ OrderKept'
    BY <1>1, <1>3 DEF Buffer, OrderKept
  <2>1. Ordered(ising, w) /\ (LinearNorm \/ Monotone(ising, w))
    BY <1>1, <1>2, NormOrdered DEF ProblemInv
  <2>2. w \in [UpperPair -> -14 .. 14] /\ norm_ising \in [Spin \X Spin -> -7 .. 7]
    BY <1>1, <2>1 DEF Ordered, ProblemInv, Buffer
  <2>3. /\ norm_ising' \in [Spin \X Spin -> -7 .. 7]
        /\ \A p \in Written : norm_ising'[Near(p)] + norm_ising'[Far(p)] = w[p]
        /\ \A p \in UpperPair \ Written :
             norm_ising'[Near(p)] = norm_ising[Near(p)] /\ norm_ising'[Far(p)] = norm_ising[Far(p)]
    BY <1>2, <2>2, HalvesWritten
  <2>4. \A p \in UpperPair \ Written : norm_ising'[Near(p)] = 0 /\ norm_ising'[Far(p)] = 0
    BY <1>1, <2>3 DEF ProblemInv, Buffer
  <2>5. Buffer'
    BY <1>1, <1>3, <2>3, <2>4 DEF Buffer
  <2>6. \A p \in UpperPair : Coupling(p)' = IF p \in Written THEN w[p] ELSE 0
    BY <2>3, <2>4 DEF Coupling
  <2>7. \A p \in UpperPair : (ising[p] # 0 => p \in Written) /\ (ising[p] = 0 => w[p] = 0)
    BY <2>1 DEF Written, Ordered
  <2>8. \A p \in UpperPair : Coupling(p)' = w[p]
    BY <2>6, <2>7
  <2>9. ASSUME NEW p \in UpperPair, NEW r \in UpperPair, ising[p] <= ising[r],
               LinearNorm => ising[p] # 0 /\ ising[r] # 0
        PROVE  Coupling(p)' <= Coupling(r)'
    <3>1. CASE LinearNorm
      BY <2>1, <2>8, <2>9, <3>1 DEF Ordered
    <3>2. CASE ~LinearNorm
      BY <2>1, <2>8, <2>9, <3>2 DEF Monotone
    <3> QED BY <3>1, <3>2
  <2>10. ising' = ising
    BY <1>1
  <2>11. OrderKept'
    BY <1>3, <2>7, <2>8, <2>9, <2>10 DEF OrderKept
  <2> QED BY <2>5, <2>11
<1>5. norm_ising' \in [Spin \X Spin -> Int]
  BY <1>1, <1>2, NormInt, HalvesInt DEF ProblemInv
<1>6. Ahead'
  BY <1>1 DEF ProblemInv, Ahead, Programs
<1> QED BY <1>1, <1>4, <1>5, <1>6 DEF ProblemInv

(* Weights the chip has are programmable, whatever the library is given.   *)
LEMMA PrepareStep == ASSUME ProblemInv, cobi_prepare_weights PROVE ProblemInv'
<1>1. /\ stage = "prepare" /\ UNCHANGED <<client, qubo, eval_strat, shil_val, ising, norm_ising, prob_num>>
      /\ \/ Programmable(norm_ising) /\ program_array' = prepare_weights(norm_ising) /\ stage' = "serialize"
         \/ ~Programmable(norm_ising) /\ UNCHANGED program_array /\ stage' = "exit"
  BY DEF cobi_prepare_weights
<1>2. norm_ising \in [Spin \X Spin -> Int] /\ prob_num \in 0 .. 5 /\ program_array \in [Cell -> Nibbles]
  BY DEF ProblemInv, Ahead
<1>3. program_array' \in [Cell -> Nibbles]
  BY <1>1, <1>2, MatrixNibbles
<1>4. client = "cobisolv" /\ FitsInt /\ shil_val <= 7 => Programmable(norm_ising)
  BY DEF ProblemInv, Buffer, Programmable
<1>5. Ahead'
  <2>1. FitsInt' <=> FitsInt
    BY <1>1 DEF FitsInt, Steepest
  <2> QED BY <1>1, <1>4, <2>1 DEF ProblemInv, Ahead, Programs
<1>6. Buffer'
  <2>1. Written' = Written /\ (FitsInt' <=> FitsInt)
    BY <1>1 DEF Written, FitsInt, Steepest
  <2> QED BY <1>1, <2>1 DEF ProblemInv, Buffer
<1>7. OrderKept'
  BY <1>1 DEF OrderKept
<1> QED BY <1>1, <1>3, <1>5, <1>6, <1>7 DEF ProblemInv

(* The steps after that leave the weights alone.                           *)
LEMMA OtherStep ==
  ASSUME ProblemInv, WriteProgram \/ NextProgram \/ ReadAnswer \/ ProblemDone \/ UNCHANGED problem
  PROVE  ProblemInv'
<1>1. UNCHANGED <<client, qubo, eval_strat, shil_val, ising, norm_ising>> /\ (FitsInt' <=> FitsInt)
  BY DEF WriteProgram, NextProgram, ReadAnswer, ProblemDone, problem, FitsInt, Steepest
<1>2. program_array' \in [Cell -> Nibbles]
  BY EmptyMatrix DEF ProblemInv, WriteProgram, NextProgram, ReadAnswer, ProblemDone, problem
<1>3. Ahead' /\ stage' \in {"convert", "normalise", "prepare", "serialize", "sent", "read", "answer", "exit"}
  <2>1. CASE WriteProgram
    BY <1>1, <2>1 DEF ProblemInv, Ahead, Programs, WriteProgram
  <2>2. CASE NextProgram
    <3>1. Programs' = Programs /\ Programs \in {1, 5} /\ prob_num \in 0 .. Programs /\ prob_num < Programs
      BY <1>1, <2>2 DEF ProblemInv, Ahead, Programs, NextProgram
    <3>2. prob_num' = prob_num + 1 /\ stage' = IF prob_num' = Programs THEN "read" ELSE "normalise"
      BY <2>2, <3>1 DEF NextProgram
    <3>3. prob_num' \in 0 .. Programs /\ (stage' = "normalise" => prob_num' < Programs)
      BY <3>1, <3>2
    <3>4. client = "isd" => stage' = "read"
      BY <3>1, <3>2 DEF Programs
    <3> QED BY <1>1, <3>1, <3>2, <3>3, <3>4 DEF ProblemInv, Ahead
  <2>3. CASE ReadAnswer
    BY <1>1, <2>3 DEF ProblemInv, Ahead, Programs, ReadAnswer
  <2>4. CASE ProblemDone \/ UNCHANGED problem
    BY <1>1, <2>4 DEF ProblemInv, Ahead, Programs, ProblemDone, problem
  <2> QED BY <2>1, <2>2, <2>3, <2>4
<1>4. (stage' = stage \/ stage' \notin {"convert", "prepare"}) /\ (stage = "convert" => stage' = "convert")
  BY DEF WriteProgram, NextProgram, ReadAnswer, ProblemDone, problem
<1>5. Buffer'
  <2>1. Written' = Written
    BY <1>1 DEF Written
  <2> QED BY <1>1, <1>4, <2>1 DEF ProblemInv, Buffer
<1>6. OrderKept'
  <2>1. CASE UNCHANGED problem
    BY <1>1, <2>1 DEF ProblemInv, OrderKept, Coupling, LinearNorm, problem
  <2>2. CASE WriteProgram \/ NextProgram \/ ReadAnswer \/ ProblemDone
    <3>1. stage' # "prepare"
      BY <2>2 DEF WriteProgram, NextProgram, ReadAnswer, ProblemDone, problem
    <3> QED BY <3>1 DEF OrderKept
  <2> QED BY <2>1, <2>2
<1> QED BY <1>1, <1>2, <1>3, <1>5, <1>6 DEF ProblemInv

LEMMA ProblemStep == ASSUME ProblemInv, [ProblemNext]_problem PROVE ProblemInv'
BY IsingStep, NormStep, PrepareStep, OtherStep DEF ProblemNext

LEMMA ProblemSafe == ProblemSpec => []ProblemInv
BY ProblemInitInv, ProblemStep, PTL DEF ProblemSpec

(* Every variable of a conversion keeps its type, and no program of a      *)
(* sub-problem ends the run whose values fit an int and whose SHIL value   *)
(* the chip has, for every strategy and every sub-problem: the weights     *)
(* cobi_norm_val() makes are all ones hex_mapping() knows                  *)
(* (cobi.cc:349-386, 520, 833).                                            *)
THEOREM ProblemTypeCorrect == ProblemSpec => []TypeOK
<1>1. ProblemInv => TypeOK
  BY DEF ProblemInv, TypeOK, Ahead, Buffer, Nibbles
<1> QED BY <1>1, ProblemSafe, PTL

(* The couplers the chip gets are in the order of the Ising values, and    *)
(* zero where there is none, for every sub-problem whose values fit an int *)
(* and every program of a call; with the linear normalisation this holds   *)
(* among the values that are not zero (cobi.cc:818-1018).                  *)
THEOREM CouplersInOrder == ProblemSpec => []OrderKept
<1>1. ProblemInv => OrderKept
  BY DEF ProblemInv
<1> QED BY <1>1, ProblemSafe, PTL
------------------------------------------------------------------------------
(* What is left is the remainder.                                          *)
LEMMA DividedAs ==
  ASSUME NEW b \in Int, b > 0, NEW q \in Int, NEW r \in 0 .. b - 1, NEW a \in Int, a = b * q + r
  PROVE  a \div b = q /\ a % b = r
<1>1. PICK d \in Int : d = a \div b /\ b * d <= a /\ a < b * d + b /\ a % b = a - b * d
  BY Divided
<1>2. PICK x \in Int : x = q - d
  <2>1. q - d \in Int
    OBVIOUS
  <2> QED BY <2>1
<1>3. PICK bq \in Int, bd \in Int, bx \in Int : bq = b * q /\ bd = b * d /\ bx = b * x
  OBVIOUS
<1>4. bx = bq - bd
  BY <1>2, <1>3
<1>5. bx < b /\ -b < bx
  BY <1>1, <1>3, <1>4
<1>6. x < 1
  BY <1>3, <1>5
<1>7. -1 < x
  BY <1>3, <1>5
<1>8. q = d
  BY <1>2, <1>6, <1>7
<1> QED BY <1>1, <1>8

(* To exchange the bytes twice changes nothing.                            *)
SwappedAt(k) == IF (k - 1) % 4 < 2 THEN k + 2 ELSE k - 2
LEMMA SwapTwice ==
  ASSUME NEW k \in 1 .. 16
  PROVE  SwappedAt(k) \in 1 .. 16 /\ SwappedAt(SwappedAt(k)) = k
<1>1. PICK q \in 0 .. 3, r \in 0 .. 3 : q = (k - 1) \div 4 /\ r = (k - 1) % 4 /\ k = 4 * q + r + 1
  OBVIOUS
<1>2. CASE r < 2
  <2>1. SwappedAt(k) = 4 * q + (r + 2) + 1
    BY <1>1, <1>2 DEF SwappedAt
  <2>2. (SwappedAt(k) - 1) % 4 = r + 2
    BY <1>2, <2>1, DividedAs
  <2> QED BY <1>1, <1>2, <2>1, <2>2 DEF SwappedAt
<1>3. CASE r >= 2
  <2>1. SwappedAt(k) = 4 * q + (r - 2) + 1
    BY <1>1, <1>3 DEF SwappedAt
  <2>2. (SwappedAt(k) - 1) % 4 = r - 2
    BY <1>3, <2>1, DividedAs
  <2> QED BY <1>1, <1>3, <2>1, <2>2 DEF SwappedAt
<1> QED BY <1>1, <1>2, <1>3

(* The padding fills the words.                                            *)
LEMMA Words ==
  /\ PAD \in Nat /\ HEIGHT * WIDTH \in Nat
  /\ PROGRAM_LEN \in Nat /\ 16 * PROGRAM_LEN = PAD + HEIGHT * WIDTH
<1>1. PICK a \in Nat : a = HEIGHT * WIDTH
  BY Sizes
<1>2. PAD \in 0 .. 15 /\ (PAD + a) % 16 = 0
  BY <1>1, ProblemAssumption
<1>3. PICK b \in Nat : b = PAD + a
  BY <1>2
<1>4. PROGRAM_LEN = b \div 16
  BY <1>1, <1>3 DEF PROGRAM_LEN
<1>5. PICK q \in Int : q = b \div 16 /\ b % 16 = b - 16 * q
  BY <1>3, Divided
<1>6. 16 * q = b
  BY <1>2, <1>3, <1>5
<1> QED BY <1>1, <1>2, <1>3, <1>4, <1>5, <1>6

(* The nibbles in the order they are sent in.                              *)
LEMMA StreamAt ==
  ASSUME NEW array \in [Cell -> Nibbles]
  PROVE  /\ Stream(array) \in Seq(Nibbles) /\ Len(Stream(array)) = 16 * PROGRAM_LEN
         /\ \A row \in 0 .. HEIGHT - 1, col \in 0 .. WIDTH - 1 :
              LET n == PAD + (HEIGHT - 1 - row) * WIDTH + col
              IN  n \in 0 .. 16 * PROGRAM_LEN - 1 /\ Stream(array)[n + 1] = array[<<row, col>>]
<1>1. PICK P \in Nat, A \in Nat : P = PAD /\ A = HEIGHT * WIDTH /\ 16 * PROGRAM_LEN = P + A
  BY Words
<1>2. PICK H \in Nat, W \in Nat : H = HEIGHT /\ W = WIDTH /\ H > 0 /\ W > 0 /\ A = H * W
  BY <1>1, Sizes
<1>3. ASSUME NEW k \in 1 .. A
      PROVE  (k - 1) \div W \in 0 .. H - 1 /\ (k - 1) % W \in 0 .. W - 1
  <2>1. PICK q \in Int : q = (k - 1) \div W /\ W * q <= k - 1 /\ k - 1 < W * q + W /\ (k - 1) % W \in 0 .. W - 1
    BY <1>2, Divided
  <2>2. q >= 0
    BY <1>2, <2>1, AtMostDivided
  <2>3. q < H
    <3>1. W * q < H * W
      BY <1>2, <2>1
    <3> QED BY <1>2, <3>1
  <2> QED BY <2>1, <2>2, <2>3
<1>4. PICK pad : pad = [k \in 1 .. P |-> Empty]
  OBVIOUS
<1>5. PICK cells : cells = [k \in 1 .. A |-> array[<<H - 1 - ((k - 1) \div W), (k - 1) % W>>]]
  OBVIOUS
<1>6. pad \in Seq(Nibbles) /\ Len(pad) = P
  BY <1>4 DEF Empty, Nibbles
<1>7. cells \in Seq(Nibbles) /\ Len(cells) = A
  <2>1. \A k \in 1 .. A : <<H - 1 - ((k - 1) \div W), (k - 1) % W>> \in Cell
    <3> TAKE k \in 1 .. A
    <3>1. PICK q \in 0 .. H - 1, r \in 0 .. W - 1 : q = (k - 1) \div W /\ r = (k - 1) % W
      BY <1>3
    <3> QED BY <1>2, <3>1 DEF Cell
  <2>2. \A k \in 1 .. A : cells[k] \in Nibbles
    BY <1>5, <2>1
  <2> QED BY <1>5, <2>2
<1>8. PICK s : s = Stream(array) /\ s = pad \o cells
  BY <1>1, <1>2, <1>4, <1>5 DEF Stream
<1>9. s \in Seq(Nibbles) /\ Len(s) = P + A /\ \A k \in 1 .. A : s[P + k] = cells[k]
  <2>1. /\ pad \o cells \in Seq(Nibbles) /\ Len(pad \o cells) = P + A
        /\ \A i \in 1 .. P + A : (pad \o cells)[i] = IF i <= P THEN pad[i] ELSE cells[i - P]
    BY <1>6, <1>7, ConcatProperties
  <2>2. ASSUME NEW k \in 1 .. A PROVE s[P + k] = cells[k]
    <3>1. P + k \in 1 .. P + A /\ ~(P + k <= P) /\ (P + k) - P = k
      OBVIOUS
    <3> QED BY <1>8, <2>1, <3>1
  <2> QED BY <1>8, <2>1, <2>2
<1>10. ASSUME NEW row \in 0 .. HEIGHT - 1, NEW col \in 0 .. WIDTH - 1
       PROVE  /\ PAD + (HEIGHT - 1 - row) * WIDTH + col \in 0 .. 16 * PROGRAM_LEN - 1
              /\ Stream(array)[PAD + (HEIGHT - 1 - row) * WIDTH + col + 1] = array[<<row, col>>]
  <2>1. PICK h \in 0 .. H - 1 : h = H - 1 - row
    <3>1. H - 1 - row \in 0 .. H - 1
      BY <1>2
    <3> QED BY <3>1
  <2>2. PICK hW \in Nat : hW = h * W
    <3>1. h * W \in Nat
      OBVIOUS
    <3> QED BY <3>1
  <2>3. hW + W <= A
    <3>1. (h + 1) * W <= H * W
      BY <1>2
    <3> QED BY <1>2, <2>2, <3>1
  <2>4. PICK m \in Nat : m = hW + col /\ m < A
    BY <1>2, <2>3
  <2>5. m \div W = h /\ m % W = col
    BY <1>2, <2>2, <2>4, DividedAs
  <2>6. cells[m + 1] = array[<<H - 1 - h, col>>]
    <3>1. m + 1 \in 1 .. A /\ (m + 1) - 1 = m
      BY <2>4
    <3> QED BY <1>5, <2>5, <3>1
  <2>7. H - 1 - h = row
    BY <1>2, <2>1
  <2>8. PAD + (HEIGHT - 1 - row) * WIDTH + col = P + m
    BY <1>1, <1>2, <2>1, <2>2, <2>4
  <2>9. s[P + (m + 1)] = array[<<row, col>>]
    BY <1>9, <2>4, <2>6, <2>7
  <2>10. PICK n \in 0 .. P + A - 1 : n = P + m /\ n + 1 = P + (m + 1)
    BY <2>4
  <2>11. PAD + (HEIGHT - 1 - row) * WIDTH + col = n
    BY <2>8, <2>10
  <2>12. 16 * PROGRAM_LEN = P + A
    BY <1>1
  <2>13. n \in 0 .. 16 * PROGRAM_LEN - 1
    BY <2>12
  <2>14. Stream(array)[n + 1] = array[<<row, col>>]
    BY <1>8, <2>9, <2>10, Zenon
  <2> QED BY <2>11, <2>13, <2>14, Zenon
<1>11. 16 * PROGRAM_LEN = P + A
  BY <1>1
<1>12. /\ Stream(array) \in Seq(Nibbles) /\ Len(Stream(array)) = 16 * PROGRAM_LEN
  BY <1>8, <1>9, <1>11
<1> QED BY <1>10, <1>12, Zenon

(* Every cell of the matrix is where Sent looks for it.                    *)
Transmitted(array) ==
  LET words == serialize(array) IN [w \in DOMAIN words |-> swap_bytes(words[w])]

LEMMA CellSent ==
  ASSUME NEW array \in [Cell -> Nibbles], sent = Transmitted(array)
  PROVE  /\ Len(sent) = PROGRAM_LEN
         /\ \A row \in 0 .. HEIGHT - 1, col \in 0 .. WIDTH - 1 : Sent(row, col) = array[<<row, col>>]
<1>1. PICK L \in Nat : L = PROGRAM_LEN
  BY Words
<1>2. PICK s : s = Stream(array)
  OBVIOUS
<1>3. s \in Seq(Nibbles) /\ Len(s) = 16 * L
  BY <1>1, <1>2, StreamAt
<1>4. PICK words : words = serialize(array)
  OBVIOUS
<1>5. words = [w \in 1 .. L |-> SubSeq(s, 16 * Offset(w) + 1, 16 * Offset(w) + 16)]
  BY <1>1, <1>2, <1>4 DEF serialize
<1>6. sent = [w \in 1 .. L |-> swap_bytes(words[w])]
  BY <1>4, <1>5 DEF Transmitted
<1>7. Len(sent) = L
  BY <1>6
<1>8. ASSUME NEW q \in 0 .. L - 1, NEW k \in 1 .. 16
      PROVE  sent[L - q][SwappedAt(k)] = s[16 * q + k]
  <2>1. L - q \in 1 .. L /\ Offset(L - q) = q
    BY <1>1 DEF Offset
  <2>2. PICK word : word = words[L - q] /\ word = SubSeq(s, 16 * q + 1, 16 * q + 16)
    BY <1>5, <2>1
  <2>3. ASSUME NEW i \in 16 * q + 1 .. 16 * q + 16 PROVE s[i] \in Nibbles
    BY <1>3
  <2>4. \A i \in 1 .. 16 : word[i] = s[16 * q + i]
    <3>1. 16 * q + 1 \in Int /\ 16 * q + 16 \in Int /\ (16 * q + 16) - (16 * q + 1) + 1 = 16
      OBVIOUS
    <3>2. \A i \in 1 .. 16 : SubSeq(s, 16 * q + 1, 16 * q + 16)[i] = s[(16 * q + 1) + i - 1]
      BY <2>3, <3>1, SubSeqProperties
    <3>3. \A i \in 1 .. 16 : (16 * q + 1) + i - 1 = 16 * q + i
      OBVIOUS
    <3> QED BY <2>2, <3>2, <3>3
  <2>5. swap_bytes(word) = [i \in 1 .. 16 |-> word[SwappedAt(i)]]
    BY DEF swap_bytes, SwappedAt
  <2>6. PICK j \in 1 .. 16 : j = SwappedAt(k) /\ SwappedAt(j) = k
    BY SwapTwice
  <2>7. swap_bytes(word)[j] = word[k]
    BY <2>5, <2>6
  <2>8. sent[L - q] = swap_bytes(word)
    BY <1>6, <2>1, <2>2
  <2> QED BY <2>4, <2>6, <2>7, <2>8
<1>9. ASSUME NEW row \in 0 .. HEIGHT - 1, NEW col \in 0 .. WIDTH - 1
      PROVE  Sent(row, col) = array[<<row, col>>]
  <2>1. PICK n \in 0 .. 16 * L - 1 : n = PAD + (HEIGHT - 1 - row) * WIDTH + col /\ s[n + 1] = array[<<row, col>>]
    BY <1>1, <1>2, StreamAt
  <2>2. PICK q \in Int, r \in 0 .. 15 : q = n \div 16 /\ r = n % 16 /\ n = 16 * q + r
    OBVIOUS
  <2>3. q \in 0 .. L - 1
    <3>1. PICK x \in Int : x = 16 * q + r /\ 0 <= x /\ x < 16 * L
      BY <2>1, <2>2
    <3> QED BY <3>1
  <2>4. r + 1 \in 1 .. 16 /\ 16 * q + (r + 1) = n + 1
    BY <2>2
  <2>5. sent[L - q][SwappedAt(r + 1)] = s[n + 1]
    BY <1>8, <2>3, <2>4
  <2>6. Sent(row, col) = sent[L - q][SwappedAt(r + 1)]
    BY <1>1, <2>1, <2>2 DEF Sent, SwappedAt
  <2> QED BY <2>1, <2>5, <2>6
<1> QED BY <1>1, <1>7, <1>9

(* The weights have cells of their own, away from the SHIL rows and columns*)
(* and from the row of the control nibbles.                                *)
LEMMA WeightCells ==
  /\ \A i, j \in Spin : Row(i) \in 0 .. HEIGHT - 1 /\ Col(j) \in 0 .. WIDTH - 1
  /\ \A i, j \in Spin : Row(i) = Row(j) \/ Col(i) = Col(j) => i = j
  /\ \A i, j \in Spin : <<Row(i), Col(j)>> \notin ShilCells /\ <<Row(i), Col(j)>> \notin ControlCells
  /\ ShilCells \cap ControlCells = {}
  /\ ShilCells \subseteq Cell /\ ControlCells \subseteq Cell
<1>1. PICK S \in Nat, W \in Nat, H \in Nat :
        /\ S = SHIL_INDEX /\ W = WIDTH /\ H = HEIGHT /\ HW_SPINS = 2 * S + 2
        /\ H = 2 * S + 7 /\ W = 2 * S + 8
  <2>1. SHIL_INDEX \in Nat /\ qubo_size = 2 * SHIL_INDEX + 1
    BY ProblemAssumption
  <2> QED BY <2>1 DEF WIDTH, HEIGHT, HW_SPINS
<1>2. \A i \in Spin : /\ i \in 0 .. 2 * S + 1
                      /\ Row(i) = IF i < S + 2 THEN i + 1 ELSE i + 3
                      /\ Col(i) = IF i < S + 2 THEN W - 2 - i ELSE W - 4 - i
  BY <1>1 DEF Spin, Row, Col
<1>3. ASSUME NEW i \in Spin
      PROVE  /\ Row(i) \in 1 .. H - 2 /\ Row(i) # S + 3 /\ Row(i) # S + 4
             /\ Col(i) \in 3 .. W - 2 /\ Col(i) # S + 3 /\ Col(i) # S + 4
             /\ Row(i) \in 0 .. H - 1 /\ Col(i) \in 0 .. W - 1
  BY <1>1, <1>2
<1>4. ASSUME NEW i \in Spin, NEW j \in Spin, Row(i) = Row(j) \/ Col(i) = Col(j) PROVE i = j
  BY <1>1, <1>2, <1>4
<1>5. ShilCells = ((1 .. H - 3) \X {S + 3, S + 4}) \cup ({S + 4, S + 3} \X (3 .. W - 2))
  <2>1. H - S - 3 = S + 4 /\ H - S - 4 = S + 3
    BY <1>1
  <2> QED BY <1>1, <2>1 DEF ShilCells
<1>6. ControlCells = {H - 1} \X (0 .. W - 1)
  BY <1>1 DEF ControlCells
<1>7. \A i, j \in Spin : <<Row(i), Col(j)>> \notin ShilCells /\ <<Row(i), Col(j)>> \notin ControlCells
  BY <1>1, <1>3, <1>5, <1>6
<1>8. ShilCells \cap ControlCells = {}
  BY <1>1, <1>5, <1>6
<1>9. ShilCells \subseteq Cell /\ ControlCells \subseteq Cell
  BY <1>1, <1>5, <1>6 DEF Cell
<1> QED BY <1>1, <1>3, <1>4, <1>7, <1>8, <1>9

(* What the matrix holds where.                                            *)
LEMMA MatrixHolds ==
  ASSUME NEW norm
  PROVE  /\ \A i, j \in Spin :
              /\ prepare_weights(norm)[<<Row(i), Col(j)>>].kind = "weight"
              /\ i # j => prepare_weights(norm)[<<Row(i), Col(j)>>].value = hex_mapping(norm[<<i, j>>])
         /\ \A cell \in ShilCells :
              prepare_weights(norm)[cell] = [kind |-> "shil", value |-> hex_mapping(shil_val)]
         /\ \A cell \in ControlCells :
              /\ prepare_weights(norm)[cell].kind = "control"
              /\ prepare_weights(norm)[cell].value = control_nibbles[cell[2]]
<1>1. PICK at : at = [c \in Spin \X Spin |-> <<Row(c[1]), Col(c[2])>>]
  OBVIOUS
<1>2. PICK m : m = prepare_weights(norm)
  OBVIOUS
<1>3. ASSUME NEW i \in Spin, NEW j \in Spin
      PROVE  /\ m[<<Row(i), Col(j)>>].kind = "weight"
             /\ i # j => m[<<Row(i), Col(j)>>].value = hex_mapping(norm[<<i, j>>])
  <2>1. PICK cell \in Cell : cell = <<Row(i), Col(j)>>
    BY WeightCells DEF Cell
  <2>2. <<i, j>> \in Spin \X Spin /\ at[<<i, j>>] = cell
    BY <1>1, <2>1
  <2>3. ASSUME NEW c \in Spin \X Spin, at[c] = cell PROVE c = <<i, j>>
    <3>1. PICK k \in Spin, l \in Spin : c = <<k, l>>
      OBVIOUS
    <3>2. Row(k) = Row(i) /\ Col(l) = Col(j)
      BY <1>1, <2>1, <2>3, <3>1
    <3> QED BY <3>1, <3>2, WeightCells
  <2>4. PICK c : c = (CHOOSE d \in Spin \X Spin : at[d] = cell) /\ c = <<i, j>>
    BY <2>2, <2>3
  <2>5. m[cell] = [kind |-> "weight", value |-> IF c[1] = c[2] THEN 0 ELSE hex_mapping(norm[c])]
    BY <1>1, <1>2, <2>2, <2>4 DEF prepare_weights
  <2> QED BY <2>1, <2>4, <2>5
<1>4. ASSUME NEW cell, cell \in ShilCells \/ cell \in ControlCells
      PROVE  cell \in Cell /\ ~\E c \in Spin \X Spin : at[c] = cell
  BY <1>1, <1>4, WeightCells
<1>5. ASSUME NEW cell \in ShilCells
      PROVE  m[cell] = [kind |-> "shil", value |-> hex_mapping(shil_val)]
  <2>1. cell \in Cell /\ ~\E c \in Spin \X Spin : at[c] = cell
    BY <1>4
  <2> QED BY <1>1, <1>2, <2>1 DEF prepare_weights
<1>6. ASSUME NEW cell \in ControlCells
      PROVE  m[cell].kind = "control" /\ m[cell].value = control_nibbles[cell[2]]
  <2>1. cell \in Cell /\ ~\E c \in Spin \X Spin : at[c] = cell
    BY <1>4
  <2>2. cell \notin ShilCells
    BY WeightCells
  <2> QED BY <1>1, <1>2, <2>1, <2>2 DEF prepare_weights
<1> QED BY <1>2, <1>3, <1>5, <1>6

(* The first control nibbles after the lead spell the number.              *)
LEMMA NumberSpelt ==
  ASSUME client = "cobisolv", prob_num \in 0 .. 4
  PROVE  /\ \A k \in 0 .. 3 : LEAD + k \in 0 .. WIDTH - 1
         /\ control_nibbles[LEAD] = 0 /\ control_nibbles[LEAD + 1] = 0
         /\ control_nibbles[LEAD + 2] = 0 /\ control_nibbles[LEAD + 3] = prob_num
<1>1. PICK n \in Nat : n = Len(Settings)
  BY ControlSettings
<1>2. PICK lead \in Nat : lead = LEAD
  BY ControlSettings
<1>3. WIDTH \in Nat /\ lead = WIDTH - 4 * (n + 1)
  BY <1>1, <1>2, Sizes DEF LEAD
<1>4. ASSUME NEW k \in 0 .. 3 PROVE lead + k \in 0 .. WIDTH - 1 /\ control_nibbles[lead + k] = Nibble(prob_num, k)
  <2>1. lead + k \in 0 .. WIDTH - 1 /\ ~(lead + k < lead) /\ (lead + k) - lead = k
    BY <1>3
  <2>2. k \div 4 = 0 /\ k % 4 = k
    OBVIOUS
  <2>3. PICK first \in UInt16 : first = prob_num
    <3>1. prob_num \in 0 .. 5
      OBVIOUS
    <3> QED BY <3>1, SettingsInt, Zenon
  <2>4. <<first>> \in Seq(UInt16) /\ Len(<<first>>) = 1 /\ <<first>>[1] = first
    OBVIOUS
  <2>5. (<<first>> \o Settings)[1] = first
    BY <1>1, <2>4, ControlSettings, ConcatProperties
  <2>6. control_nibbles[lead + k] = Nibble((<<first>> \o Settings)[k \div 4 + 1], k % 4)
    BY <1>2, <2>1, <2>3 DEF control_nibbles
  <2>7. k \div 4 + 1 = 1
    BY <2>2
  <2> QED BY <2>1, <2>2, <2>3, <2>5, <2>6, <2>7
<1>5. PICK v \in 0 .. 4 : v = prob_num
  OBVIOUS
<1>6. ASSUME NEW m \in Int, m > 4 PROVE (v \div m) % 16 = 0
  <2>1. v \div m = 0
    BY <1>6, DividedAs
  <2>2. 0 % 16 = 0
    OBVIOUS
  <2> QED BY <2>1, <2>2
<1>7. Nibble(v, 0) = 0 /\ Nibble(v, 1) = 0 /\ Nibble(v, 2) = 0
  <2>1. Nibble(v, 0) = (v \div 4096) % 16 /\ Nibble(v, 1) = (v \div 256) % 16 /\ Nibble(v, 2) = (v \div 16) % 16
    BY DEF Nibble
  <2>2. (v \div 4096) % 16 = 0
    BY <1>6
  <2>3. (v \div 256) % 16 = 0
    BY <1>6
  <2>4. (v \div 16) % 16 = 0
    BY <1>6
  <2> QED BY <2>1, <2>2, <2>3, <2>4
<1>8. Nibble(v, 3) = v
  <2>1. Nibble(v, 3) = (v \div 1) % 16
    BY DEF Nibble
  <2>2. v \div 1 = v /\ v % 16 = v
    BY DividedAs
  <2> QED BY <2>1, <2>2
<1>9. lead + 0 = lead
  OBVIOUS
<1> QED BY <1>2, <1>4, <1>5, <1>7, <1>8, <1>9

(* As many cells as pairs of spins.                                        *)
LEMMA CellsOf ==
  ASSUME NEW T, \A t : t \in T <=> \E i, j \in Spin : t = <<Row(i), Col(j)>>
  PROVE  Cardinality(T) = HW_SPINS * HW_SPINS
<1>2. PICK f : f = [c \in Spin \X Spin |-> <<Row(c[1]), Col(c[2])>>]
  OBVIOUS
<1>3. PICK N \in Nat : N = HW_SPINS
  BY Sizes
<1>4. IsFiniteSet(Spin) /\ Cardinality(Spin) = N
  <2>1. Spin = 0 .. N - 1 /\ 0 \in Int /\ N - 1 \in Int
    BY <1>3 DEF Spin
  <2>2. IsFiniteSet(0 .. N - 1) /\ Cardinality(0 .. N - 1) = IF 0 > N - 1 THEN 0 ELSE (N - 1) - 0 + 1
    BY <2>1, FS_Interval
  <2>3. (IF 0 > N - 1 THEN 0 ELSE (N - 1) - 0 + 1) = N
    OBVIOUS
  <2> QED BY <2>1, <2>2, <2>3
<1>5. IsFiniteSet(Spin \X Spin) /\ Cardinality(Spin \X Spin) = N * N
  BY <1>4, FS_Product
<1>6. f \in Bijection(Spin \X Spin, T)
  <2>1. \A c \in Spin \X Spin : f[c] \in T
    BY <1>2
  <2>2. f \in [Spin \X Spin -> T]
    BY <1>2, <2>1
  <2>3. ASSUME NEW c \in Spin \X Spin, NEW d \in Spin \X Spin, f[c] = f[d] PROVE c = d
    <3>1. PICK i \in Spin, j \in Spin : c = <<i, j>>
      OBVIOUS
    <3>2. PICK k \in Spin, l \in Spin : d = <<k, l>>
      OBVIOUS
    <3>3. Row(i) = Row(k) /\ Col(j) = Col(l)
      BY <1>2, <2>3, <3>1, <3>2
    <3> QED BY <3>1, <3>2, <3>3, WeightCells
  <2>4. \A t \in T : \E c \in Spin \X Spin : f[c] = t
    <3> TAKE t \in T
    <3>1. PICK i \in Spin, j \in Spin : t = <<Row(i), Col(j)>>
      OBVIOUS
    <3>2. <<i, j>> \in Spin \X Spin /\ f[<<i, j>>] = t
      BY <1>2, <3>1
    <3> QED BY <3>2
  <2> QED BY <2>2, <2>3, <2>4 DEF Bijection, Injection, Surjection, IsInjective
<1>7. Cardinality(T) = N * N
  BY <1>5, <1>6, FS_Bijection DEF ExistsBijection
<1> QED BY <1>3, <1>7

LEMMA CellsCounted == Cardinality({<<Row(i), Col(j)>> : i, j \in Spin}) = HW_SPINS * HW_SPINS
<1> DEFINE T == {<<Row(i), Col(j)>> : i, j \in Spin}
<1>1. \A t : t \in T <=> \E i, j \in Spin : t = <<Row(i), Col(j)>>
  OBVIOUS
<1> HIDE DEF T
<1>2. Cardinality(T) = HW_SPINS * HW_SPINS
  BY <1>1, CellsOf
<1> QED BY <1>2 DEF T

(* The matrix is that of the weights, and what is sent is the matrix.      *)
Followed ==
  /\ stage = "serialize" => program_array = prepare_weights(norm_ising)
  /\ stage = "sent" => sent = Transmitted(prepare_weights(norm_ising))

LEMMA FollowedInit == ASSUME ProblemInit PROVE Followed
BY DEF ProblemInit, Followed

LEMMA FollowedStep == ASSUME Followed, [ProblemNext]_problem PROVE Followed'
<1>1. CASE ising_from_qubo \/ cobi_norm_val \/ NextProgram \/ ReadAnswer
  BY <1>1 DEF ising_from_qubo, cobi_norm_val, NextProgram, ReadAnswer, Followed
<1>2. CASE cobi_prepare_weights
  <2>1. /\ UNCHANGED <<client, shil_val, norm_ising, prob_num>>
        /\ stage' = "exit" \/ (stage' = "serialize" /\ program_array' = prepare_weights(norm_ising))
    BY <1>2 DEF cobi_prepare_weights
  <2>2. prepare_weights(norm_ising)' = prepare_weights(norm_ising)
    BY <2>1 DEF prepare_weights, control_nibbles
  <2> QED BY <2>1, <2>2 DEF Followed
<1>3. CASE WriteProgram
  <2>1. /\ UNCHANGED <<client, shil_val, norm_ising, prob_num>> /\ stage = "serialize" /\ stage' = "sent"
        /\ sent' = Transmitted(program_array)
    BY <1>3 DEF WriteProgram, Transmitted
  <2>2. prepare_weights(norm_ising)' = prepare_weights(norm_ising)
    BY <2>1 DEF prepare_weights, control_nibbles
  <2>3. sent' = Transmitted(prepare_weights(norm_ising))
    BY <2>1 DEF Followed
  <2>4. Transmitted(prepare_weights(norm_ising))' = Transmitted(prepare_weights(norm_ising))
    BY <2>2 DEF Transmitted, serialize, Stream
  <2> QED BY <2>1, <2>3, <2>4 DEF Followed
<1>4. CASE ProblemDone \/ UNCHANGED problem
  <2>1. UNCHANGED problem
    BY <1>4 DEF ProblemDone
  <2>2. UNCHANGED <<client, shil_val, norm_ising, prob_num, stage, sent, program_array>>
    BY <2>1 DEF problem
  <2>3. prepare_weights(norm_ising)' = prepare_weights(norm_ising)
    BY <2>2 DEF prepare_weights, control_nibbles
  <2>4. Transmitted(prepare_weights(norm_ising))' = Transmitted(prepare_weights(norm_ising))
    BY <2>3 DEF Transmitted, serialize, Stream
  <2> QED BY <2>2, <2>3, <2>4 DEF Followed
<1> QED BY <1>1, <1>2, <1>3, <1>4 DEF ProblemNext

(* Only a matrix of known weights is sent.                                 *)
ProgramsKnown == stage \in {"serialize", "sent"} => Programmable(norm_ising)

LEMMA KnownInit == ASSUME ProblemInit PROVE ProgramsKnown
BY DEF ProblemInit, ProgramsKnown

LEMMA KnownStep == ASSUME ProgramsKnown, [ProblemNext]_problem PROVE ProgramsKnown'
BY DEF ProgramsKnown, Programmable, ProblemNext, ising_from_qubo, cobi_norm_val, cobi_prepare_weights,
       WriteProgram, NextProgram, ReadAnswer, ProblemDone, problem

LEMMA WholeNow == ASSUME ProblemInv, Followed, ProgramsKnown PROVE ProgramWhole
<1> SUFFICES ASSUME stage = "sent" PROVE ProgramWhole
  BY DEF ProgramWhole
<1>1. PICK m : m = prepare_weights(norm_ising) /\ sent = Transmitted(m)
  BY DEF Followed
<1>2. m \in [Cell -> Nibbles]
  <2>1. prob_num \in 0 .. 5 /\ norm_ising \in [Spin \X Spin -> Int] /\ Programmable(norm_ising)
    BY DEF ProblemInv, Ahead, ProgramsKnown
  <2> QED BY <1>1, <2>1, MatrixNibbles
<1>3. /\ Len(sent) = PROGRAM_LEN
      /\ \A row \in 0 .. HEIGHT - 1, col \in 0 .. WIDTH - 1 : Sent(row, col) = m[<<row, col>>]
  BY <1>1, <1>2, CellSent
<1>4. ASSUME NEW cell \in ShilCells
      PROVE  Sent(cell[1], cell[2]) = [kind |-> "shil", value |-> hex_mapping(shil_val)]
  <2>1. PICK row \in 0 .. HEIGHT - 1, col \in 0 .. WIDTH - 1 : cell = <<row, col>>
    BY WeightCells DEF Cell
  <2>2. m[cell] = [kind |-> "shil", value |-> hex_mapping(shil_val)]
    BY <1>1, MatrixHolds
  <2> QED BY <1>3, <2>1, <2>2
<1>5. ASSUME NEW k \in 0 .. WIDTH - 1
      PROVE  /\ Sent(HEIGHT - 1, k).kind = "control"
             /\ Sent(HEIGHT - 1, k).value = control_nibbles[k]
  <2>1. <<HEIGHT - 1, k>> \in ControlCells /\ HEIGHT - 1 \in 0 .. HEIGHT - 1
    BY Sizes DEF ControlCells
  <2>2. m[<<HEIGHT - 1, k>>].kind = "control" /\ m[<<HEIGHT - 1, k>>].value = control_nibbles[k]
    BY <1>1, <2>1, MatrixHolds
  <2> QED BY <1>3, <2>1, <2>2
<1>6. ASSUME NEW i \in Spin, NEW j \in Spin
      PROVE  /\ Sent(Row(i), Col(j)).kind = "weight"
             /\ i # j => Sent(Row(i), Col(j)).value = hex_mapping(norm_ising[<<i, j>>])
  <2>1. Row(i) \in 0 .. HEIGHT - 1 /\ Col(j) \in 0 .. WIDTH - 1
    BY WeightCells
  <2>2. Sent(Row(i), Col(j)) = m[<<Row(i), Col(j)>>]
    BY <1>3, <2>1
  <2>3. /\ m[<<Row(i), Col(j)>>].kind = "weight"
        /\ i # j => m[<<Row(i), Col(j)>>].value = hex_mapping(norm_ising[<<i, j>>])
    BY <1>1, MatrixHolds
  <2> QED BY <2>2, <2>3
<1>7. ASSUME client = "cobisolv"
      PROVE  LET digit(k) == Sent(HEIGHT - 1, LEAD + k).value
             IN  prob_num = ((digit(0) * 16 + digit(1)) * 16 + digit(2)) * 16 + digit(3)
  <2>1. prob_num \in 0 .. 4
    BY DEF ProblemInv, Ahead
  <2>2. /\ \A k \in 0 .. 3 : LEAD + k \in 0 .. WIDTH - 1
        /\ control_nibbles[LEAD] = 0 /\ control_nibbles[LEAD + 1] = 0
        /\ control_nibbles[LEAD + 2] = 0 /\ control_nibbles[LEAD + 3] = prob_num
    BY <1>7, <2>1, NumberSpelt
  <2>3. LEAD + 0 = LEAD
    BY ControlSettings
  <2>4. \A k \in 0 .. 3 : Sent(HEIGHT - 1, LEAD + k).value = control_nibbles[LEAD + k]
    BY <1>5, <2>2
  <2>5. /\ Sent(HEIGHT - 1, LEAD + 0).value = 0 /\ Sent(HEIGHT - 1, LEAD + 1).value = 0
        /\ Sent(HEIGHT - 1, LEAD + 2).value = 0 /\ Sent(HEIGHT - 1, LEAD + 3).value = prob_num
    BY <2>2, <2>3, <2>4
  <2>6. prob_num = ((0 * 16 + 0) * 16 + 0) * 16 + prob_num
    BY <2>1
  <2> QED BY <2>5, <2>6
<1>8. \A k \in 0 .. WIDTH - 1 : Sent(HEIGHT - 1, k).kind = "control"
  BY <1>5
<1>9. \A i, j \in Spin : /\ Sent(Row(i), Col(j)).kind = "weight"
                         /\ i # j => Sent(Row(i), Col(j)).value = hex_mapping(norm_ising[<<i, j>>])
  BY <1>6
<1> QED BY <1>3, <1>4, <1>7, <1>8, <1>9, CellsCounted DEF ProgramWhole

(* Every program reaches the FPGA whole, for every size of the chip whose  *)
(* padding fills the words: no cell is written twice, none is lost between *)
(* the matrix and the words, and the last row spells the program's number  *)
(* (cobi.cc:81, 482-580, 640-663; isd/cobi.c:376-456).                     *)
THEOREM ProgramsArriveWhole == ProblemSpec => []ProgramWhole
<1>1. ProblemSpec => []Followed
  BY FollowedInit, FollowedStep, PTL DEF ProblemSpec
<1>2. ProblemSpec => []ProgramsKnown
  BY KnownInit, KnownStep, PTL DEF ProblemSpec
<1> QED BY <1>1, <1>2, ProblemSafe, WholeNow, PTL
------------------------------------------------------------------------------
(* The answers of the chip.  A number is spelt in bits, and bits are read  *)
(* back with div and mod by powers of two, of which the library knows the  *)
(* sizes of sets of subsets.                                               *)

(* What holds of zero, and of the next number whenever it holds of one,    *)
(* holds of all natural numbers.                                           *)
LEMMA AllNaturals ==
  ASSUME NEW T, 0 \in T, \A n \in Nat : n \in T => n + 1 \in T
  PROVE  \A n \in Nat : n \in T
<1> SUFFICES ASSUME NEW n \in Nat, n \notin T PROVE FALSE
  OBVIOUS
<1> DEFINE S == {k \in 0 .. n : k \notin T}
<1>1. IsFiniteSet(S) /\ (\A i \in S : i \in Int) /\ S # {}
  <2>1. IsFiniteSet(0 .. n)
    BY FS_Interval
  <2>2. IsFiniteSet(S)
    BY <2>1, FS_Subset
  <2>3. n \in S
    OBVIOUS
  <2> QED BY <2>2, <2>3
<1>2. PICK m \in S : \A i \in S : m <= i
  <2> HIDE DEF S
  <2> QED BY <1>1, Extremes
<1>3. m \in 0 .. n /\ m \notin T /\ m # 0
  BY <1>2
<1>4. m - 1 \in Nat /\ m - 1 \in 0 .. n /\ m - 1 \notin S
  BY <1>2, <1>3
<1> QED BY <1>3, <1>4

(* The powers of two: those of the library's theorem on the subsets of a   *)
(* finite set.                                                             *)
LEMMA SubsetsOf ==
  ASSUME NEW n \in Nat
  PROVE  IsFiniteSet(SUBSET (1 .. n)) /\ Cardinality(SUBSET (1 .. n)) = 2 ^ n
<1>1. IsFiniteSet(1 .. n) /\ Cardinality(1 .. n) = n
  BY FS_Interval
<1> QED BY <1>1, FS_SUBSET

(* A power of two is positive and twice the one below it.                  *)
LEMMA Powers ==
  /\ 2 ^ 0 = 1
  /\ \A n \in Nat : 2 ^ n \in Nat /\ 2 ^ n > 0 /\ 2 ^ (n + 1) = 2 * 2 ^ n
<1>1. 2 ^ 0 = 1
  <2>1. SUBSET (1 .. 0) = {{}}
    OBVIOUS
  <2>2. Cardinality({{}}) = 1
    BY FS_Singleton
  <2> QED BY <2>1, <2>2, SubsetsOf
<1>2. ASSUME NEW n \in Nat
      PROVE  2 ^ n \in Nat /\ 2 ^ n > 0 /\ 2 ^ (n + 1) = 2 * 2 ^ n
  <2> DEFINE A == SUBSET (1 .. n)
             with == [B \in A |-> B \cup {n + 1}]
             W == {with[B] : B \in A}
  <2>1. IsFiniteSet(A) /\ Cardinality(A) = 2 ^ n /\ {} \in A
    BY SubsetsOf
  <2>2. 2 ^ n \in Nat /\ 2 ^ n > 0
    <3>1. Cardinality(A) \in Nat /\ Cardinality(A) # 0
      <4> HIDE DEF A
      <4> QED BY <2>1, FS_CardinalityType, FS_EmptySet
    <3> QED BY <2>1, <3>1
  <2>3. \A B, C \in A : with[B] = with[C] => B = C
    <3> SUFFICES ASSUME NEW B \in A, NEW C \in A, B \cup {n + 1} = C \cup {n + 1} PROVE B = C
      OBVIOUS
    <3>1. n + 1 \notin B /\ n + 1 \notin C
      OBVIOUS
    <3> QED BY <3>1
  <2>4. IsFiniteSet(W) /\ Cardinality(W) = Cardinality(A)
    <3> HIDE DEF A, with
    <3> QED BY <2>1, <2>3, RenamedSize
  <2>5. A \cap W = {}
    <3>1. \A B \in A : n + 1 \notin B /\ n + 1 \in with[B]
      OBVIOUS
    <3> HIDE DEF A, with
    <3> QED BY <3>1
  <2>6. SUBSET (1 .. n + 1) = A \cup W
    <3>1. ASSUME NEW D \in SUBSET (1 .. n + 1), n + 1 \in D PROVE D \in W
      <4>1. D \ {n + 1} \in A
        OBVIOUS
      <4>2. with[D \ {n + 1}] = (D \ {n + 1}) \cup {n + 1}
        BY <4>1, Zenon
      <4>3. (D \ {n + 1}) \cup {n + 1} = D
        BY <3>1
      <4> HIDE DEF with
      <4> QED BY <4>1, <4>2, <4>3
    <3>2. ASSUME NEW D \in SUBSET (1 .. n + 1), n + 1 \notin D PROVE D \in A
      BY <3>2
    <3>3. \A B \in A : B \subseteq 1 .. n + 1 /\ with[B] \subseteq 1 .. n + 1
      OBVIOUS
    <3> HIDE DEF A, with
    <3> QED BY <3>1, <3>2, <3>3
  <2>7. Cardinality(A \cup W) = Cardinality(A) + Cardinality(W) - 0
    <3> HIDE DEF A, W
    <3>1. Cardinality(A \cap W) = 0
      BY <2>5, FS_EmptySet
    <3> QED BY <2>1, <2>4, <3>1, FS_Union
  <2>8. Cardinality(SUBSET (1 .. n + 1)) = 2 ^ (n + 1)
    BY SubsetsOf
  <2>9. 2 ^ (n + 1) = 2 ^ n + 2 ^ n - 0
    <3> HIDE DEF A, W
    <3> QED BY <2>1, <2>4, <2>6, <2>7, <2>8, Zenon
  <2> HIDE DEF A, W
  <2>10. PICK p \in Nat : p = 2 ^ n
    BY <2>2
  <2> QED BY <2>2, <2>9, <2>10
<1> QED BY <1>1, <1>2

(* One power is a multiple of a smaller one.                               *)
LEMMA PowerOf ==
  ASSUME NEW j \in Nat
  PROVE  \A d \in Nat : \E c \in Nat : 2 ^ (j + d) = 2 ^ j * c
<1> DEFINE T == {d \in Nat : \E c \in Nat : 2 ^ (j + d) = 2 ^ j * c}
<1>0. PICK q \in Nat : q = 2 ^ j
  BY Powers
<1>1. 0 \in T
  <2>1. 2 ^ (j + 0) = 2 ^ j * 1
    <3>1. j + 0 = j
      OBVIOUS
    <3>2. q * 1 = q
      OBVIOUS
    <3> QED BY <1>0, <3>1, <3>2
  <2> QED BY <2>1
<1>2. ASSUME NEW d \in Nat, d \in T PROVE d + 1 \in T
  <2>1. PICK c \in Nat : 2 ^ (j + d) = 2 ^ j * c
    BY <1>2
  <2>2. 2 ^ ((j + d) + 1) = 2 * 2 ^ (j + d)
    <3>1. j + d \in Nat
      OBVIOUS
    <3> QED BY <3>1, Powers
  <2>3. (j + d) + 1 = j + (d + 1)
    OBVIOUS
  <2>4. 2 * (q * c) = q * (2 * c)
    OBVIOUS
  <2>5. 2 ^ (j + (d + 1)) = 2 ^ j * (2 * c)
    BY <1>0, <2>1, <2>2, <2>3, <2>4, Zenon
  <2>6. 2 * c \in Nat /\ d + 1 \in Nat
    OBVIOUS
  <2>7. \E k \in Nat : 2 ^ (j + (d + 1)) = 2 ^ j * k
    BY <2>5, <2>6, Zenon
  <2> QED BY <2>6, <2>7, Zenon
<1>3. \A d \in Nat : d \in T
  <2> HIDE DEF T
  <2> QED BY <1>1, <1>2, AllNaturals
<1> SUFFICES ASSUME NEW d \in Nat PROVE \E c \in Nat : 2 ^ (j + d) = 2 ^ j * c
  OBVIOUS
<1>4. d \in T
  BY <1>3
<1> QED BY <1>4, Zenon

(* What lies above a bit does not change it.                               *)
LEMMA HighIgnored ==
  ASSUME NEW v \in Int, NEW q \in Nat, q > 0, NEW k \in Int
  PROVE  ((v + q * (2 * k)) \div q) % 2 = (v \div q) % 2
<1>1. PICK d \in Int, r \in 0 .. q - 1 : d = v \div q /\ v = q * d + r
  <2>1. PICK d \in Int : d = v \div q /\ q * d <= v /\ v < q * d + q
    BY Divided
  <2>2. PICK qd \in Int : qd = q * d
    OBVIOUS
  <2>3. v - qd \in 0 .. q - 1 /\ v = qd + (v - qd)
    BY <2>1, <2>2
  <2> QED BY <2>1, <2>2, <2>3, Zenon
<1>2. PICK e \in Int, s \in 0 .. 1 : d = 2 * e + s /\ d % 2 = s
  <2>1. d % 2 = d - 2 * (d \div 2) /\ d \div 2 \in Int /\ d % 2 \in 0 .. 1
    BY Divided
  <2> QED BY <2>1
<1>3. v + q * (2 * k) = q * (d + 2 * k) + r /\ d + 2 * k \in Int /\ v + q * (2 * k) \in Int
  BY <1>1
<1>4. (v + q * (2 * k)) \div q = d + 2 * k
  BY <1>3, DividedAs
<1>5. d + 2 * k = 2 * (e + k) + s /\ e + k \in Int
  BY <1>2
<1>6. (d + 2 * k) % 2 = s
  <2>1. s \in 0 .. 2 - 1 /\ 2 > 0
    OBVIOUS
  <2> QED BY <1>3, <1>5, <2>1, DividedAs
<1> QED BY <1>1, <1>2, <1>4, <1>6, Zenon

(* The number the first m of the bits b spell, the lowest first.           *)
Places(b, m) == [i \in 0 .. m - 1 |-> b[i] * 2 ^ i]
Value(b, m)  == SumFunction(Places(b, m))

(* No bits spell zero, and each further bit adds its power of two.         *)
LEMMA ValueNone == ASSUME NEW b PROVE Value(b, 0) = 0
<1>1. DOMAIN Places(b, 0) = {}
  BY DEF Places
<1> QED BY <1>1, SumEmpty DEF Value, SumFunction

LEMMA ValueNext ==
  ASSUME NEW m \in Nat, NEW b, \A i \in 0 .. m : b[i] \in {0, 1}
  PROVE  Value(b, m) \in Int /\ Value(b, m + 1) = Value(b, m) + b[m] * 2 ^ m
<1> DEFINE f == Places(b, m)
           g == Places(b, m + 1)
           S == 0 .. m - 1
           U == 0 .. (m + 1) - 1
<1>1. IsFiniteSet(S) /\ IsFiniteSet(U) /\ m \in U /\ U \ {m} = S
  <2>1. m - 1 \in Int /\ (m + 1) - 1 \in Int /\ (m + 1) - 1 = m
    OBVIOUS
  <2>2. IsFiniteSet(S) /\ IsFiniteSet(U)
    BY <2>1, FS_Interval
  <2>3. U = 0 .. m /\ m \in 0 .. m /\ (0 .. m) \ {m} = S
    BY <2>1
  <2> HIDE DEF U, S
  <2> QED BY <2>2, <2>3, Zenon
<1>2. \A i \in U : g[i] = b[i] * 2 ^ i /\ g[i] \in Int
  <2> SUFFICES ASSUME NEW i \in U PROVE g[i] = b[i] * 2 ^ i /\ g[i] \in Int
    OBVIOUS
  <2>1. PICK p \in Nat : p = 2 ^ i
    BY Powers
  <2>2. b[i] = 0 \/ b[i] = 1
    OBVIOUS
  <2>3. b[i] * p \in Int
    BY <2>2
  <2>4. g[i] = b[i] * 2 ^ i
    BY DEF Places
  <2> QED BY <2>1, <2>3, <2>4, Zenon
<1>3. \A i \in S : f[i] = g[i] /\ f[i] \in Int
  <2> SUFFICES ASSUME NEW i \in S PROVE f[i] = g[i] /\ f[i] \in Int
    OBVIOUS
  <2>1. f[i] = b[i] * 2 ^ i
    BY DEF Places
  <2> QED BY <1>1, <1>2, <2>1
<1>4. DOMAIN f = S /\ DOMAIN g = U
  BY DEF Places
<1>5. Value(b, m) = SumFunctionOnSet(f, S) /\ Value(b, m + 1) = SumFunctionOnSet(g, U)
  BY <1>4 DEF Value, SumFunction
<1> HIDE DEF f, g, S, U
<1>6. SumFunctionOnSet(f, S) \in Int
  BY <1>1, <1>3, SumInt
<1>7. SumFunctionOnSet(g, U) = g[m] + SumFunctionOnSet(g, U \ {m})
  BY <1>1, <1>2, SumElement
<1>8. SumFunctionOnSet(g, S) = SumFunctionOnSet(f, S)
  BY <1>1, <1>3, SumEqual
<1>9. g[m] = b[m] * 2 ^ m /\ g[m] \in Int
  BY <1>1, <1>2
<1> QED BY <1>1, <1>5, <1>6, <1>7, <1>8, <1>9

(* Bits can be read back from the number they spell.                       *)
LEMMA BitsOfValue ==
  ASSUME NEW M \in Nat, NEW b, \A i \in 0 .. M - 1 : b[i] \in {0, 1}
  PROVE  /\ Value(b, M) \in 0 .. 2 ^ M - 1
         /\ \A j \in 0 .. M - 1 : Bit(Value(b, M), j) = b[j]
<1> DEFINE Spelt(m) == /\ Value(b, m) \in 0 .. 2 ^ m - 1
                      /\ \A j \in 0 .. m - 1 : Bit(Value(b, m), j) = b[j]
           T == {m \in Nat : m <= M => Spelt(m)}
<1>1. 0 \in T
  <2>1. Value(b, 0) \in 0 .. 2 ^ 0 - 1
    BY ValueNone, Powers
  <2> QED BY <2>1
<1>2. ASSUME NEW m \in Nat, m \in T PROVE m + 1 \in T
  <2> SUFFICES ASSUME m + 1 <= M PROVE Spelt(m + 1)
    OBVIOUS
  <2>1. Spelt(m)
    BY <1>2
  <2>2. PICK p \in Nat : p = 2 ^ m /\ p > 0 /\ 2 ^ (m + 1) = 2 * p
    BY Powers
  <2>3. PICK t \in {0, 1} : t = b[m]
    OBVIOUS
  <2>4. PICK v \in 0 .. p - 1 : v = Value(b, m)
    BY <2>1, <2>2
  <2>5. PICK w \in Int : w = Value(b, m + 1) /\ w = v + t * p
    <3>1. \A i \in 0 .. m : b[i] \in {0, 1}
      OBVIOUS
    <3>2. Value(b, m + 1) = v + t * p
      BY <3>1, <2>2, <2>3, <2>4, ValueNext
    <3>3. v + t * p \in Int
      BY <2>3
    <3> QED BY <3>2, <3>3
  <2>6. w \in 0 .. 2 * p - 1
    BY <2>3, <2>4, <2>5
  <2>7. Bit(w, m) = b[m]
    <3>1. w \div p = t
      <4>1. w = p * t + v
        BY <2>5
      <4> QED BY <4>1, <2>2, DividedAs
    <3>2. t % 2 = t
      BY <2>3
    <3> QED BY <3>1, <3>2, <2>2, <2>3 DEF Bit
  <2>8. ASSUME NEW j \in 0 .. m - 1 PROVE Bit(w, j) = b[j]
    <3>1. PICK q \in Nat : q = 2 ^ j /\ q > 0
      BY Powers
    <3>2. PICK c \in Nat : p = 2 * (q * c)
      <4>1. m - 1 \in Nat /\ (m - 1) + 1 = m
        OBVIOUS
      <4>2. PICK c \in Nat : 2 ^ (m - 1) = q * c
        <5>1. PICK d \in Nat : j + d = m - 1
          <6>1. (m - 1) - j \in Nat /\ j + ((m - 1) - j) = m - 1
            OBVIOUS
          <6> QED BY <6>1
        <5>2. PICK c \in Nat : 2 ^ (j + d) = 2 ^ j * c
          <6>1. j \in Nat
            OBVIOUS
          <6> QED BY <6>1, PowerOf
        <5>3. 2 ^ (m - 1) = q * c
          BY <5>1, <5>2, <3>1, Zenon
        <5> QED BY <5>3
      <4>3. 2 ^ m = 2 * 2 ^ (m - 1)
        BY <4>1, Powers
      <4> QED BY <4>2, <4>3, <2>2
    <3>3. w = v + q * (2 * (t * c))
      BY <2>3, <2>5, <3>2
    <3>4. t * c \in Int
      BY <2>3
    <3>5. (w \div q) % 2 = (v \div q) % 2
      <4>1. v \in Int
        OBVIOUS
      <4> QED BY <3>1, <3>3, <3>4, <4>1, HighIgnored
    <3>6. Bit(v, j) = b[j]
      BY <2>1, <2>4
    <3> QED BY <3>1, <3>5, <3>6 DEF Bit
  <2> QED BY <2>2, <2>5, <2>6, <2>7, <2>8
<1>3. \A m \in Nat : m \in T
  <2> HIDE DEF T
  <2> QED BY <1>1, <1>2, AllNaturals
<1> QED BY <1>3

(* A number is spelt by its bits.                                          *)
LEMMA ValueOfBits ==
  ASSUME NEW n \in Nat, NEW M \in Nat, NEW b, \A i \in 0 .. M - 1 : b[i] = Bit(n, i)
  PROVE  /\ \A i \in 0 .. M - 1 : b[i] \in {0, 1}
         /\ n < 2 ^ M => Value(b, M) = n
<1>1. \A i \in 0 .. M - 1 : b[i] \in {0, 1}
  <2> SUFFICES ASSUME NEW i \in 0 .. M - 1 PROVE Bit(n, i) \in {0, 1}
    OBVIOUS
  <2>1. PICK p \in Nat : p = 2 ^ i /\ p > 0
    BY Powers
  <2>2. n \div p \in Int
    BY <2>1, Divided
  <2>3. (n \div p) % 2 \in 0 .. 1
    BY <2>2, Divided
  <2> QED BY <2>1, <2>3 DEF Bit
<1> DEFINE T == {m \in Nat : m <= M => Value(b, m) \in Int /\ Value(b, m) + 2 ^ m * (n \div 2 ^ m) = n}
<1>2. 0 \in T
  <2>1. n \div 1 = n
    OBVIOUS
  <2>2. 2 ^ 0 = 1 /\ Value(b, 0) = 0
    BY ValueNone, Powers
  <2> QED BY <2>1, <2>2
<1>3. ASSUME NEW m \in Nat, m \in T PROVE m + 1 \in T
  <2> SUFFICES ASSUME m + 1 <= M
               PROVE  Value(b, m + 1) \in Int /\ Value(b, m + 1) + 2 ^ (m + 1) * (n \div 2 ^ (m + 1)) = n
    OBVIOUS
  <2>1. PICK p \in Nat : p = 2 ^ m /\ p > 0 /\ 2 ^ (m + 1) = 2 * p
    BY Powers
  <2>2. PICK d \in Int : d = n \div p /\ p * d <= n /\ n < p * d + p
    BY <2>1, Divided
  <2>3. PICK v \in Int : v = Value(b, m) /\ v + p * d = n
    BY <1>3, <2>1, <2>2
  <2>4. PICK e \in Int, t \in 0 .. 1 : d = 2 * e + t /\ t = d % 2
    <3>1. d % 2 = d - 2 * (d \div 2) /\ d \div 2 \in Int /\ d % 2 \in 0 .. 1
      BY Divided
    <3> QED BY <3>1
  <2>5. b[m] = t
    BY <2>1, <2>2, <2>4 DEF Bit
  <2>6. Value(b, m + 1) = v + t * p
    <3>1. \A i \in 0 .. m : b[i] \in {0, 1}
      BY <1>1
    <3> QED BY <3>1, <2>1, <2>3, <2>5, ValueNext
  <2>7. n \div (2 * p) = e
    <3>1. PICK r \in Int : r = n - p * d /\ r \in 0 .. p - 1
      <4>1. p * d \in Int
        OBVIOUS
      <4> QED BY <4>1, <2>2
    <3>2. t * p + r \in 0 .. 2 * p - 1
      <4>1. t = 0 \/ t = 1
        BY <2>4
      <4> QED BY <4>1, <3>1
    <3>3. n = (2 * p) * e + (t * p + r)
      BY <3>1, <2>4
    <3>4. 2 * p \in Int /\ 2 * p > 0
      BY <2>1
    <3> QED BY <3>2, <3>3, <3>4, DividedAs
  <2>8. v + t * p + (2 * p) * e = n
    BY <2>3, <2>4
  <2>9. v + t * p \in Int
    BY <2>3, <2>4
  <2> QED BY <2>1, <2>6, <2>7, <2>8, <2>9
<1>4. \A m \in Nat : m \in T
  <2> HIDE DEF T
  <2> QED BY <1>2, <1>3, AllNaturals
<1>5. ASSUME n < 2 ^ M PROVE Value(b, M) = n
  <2>1. Value(b, M) \in Int /\ Value(b, M) + 2 ^ M * (n \div 2 ^ M) = n
    BY <1>4
  <2>2. PICK p \in Nat : p = 2 ^ M /\ p > 0
    BY Powers
  <2>3. n \div p = 0
    <3>1. n \in 0 .. p - 1 /\ n = p * 0 + n
      BY <1>5, <2>2
    <3> QED BY <3>1, <2>2, DividedAs
  <2> QED BY <2>1, <2>2, <2>3
<1> QED BY <1>1, <1>5

(* Number() of the bits of n, the highest first, is n.                     *)
LEMMA NumberOfBits ==
  ASSUME NEW len \in Nat, NEW n \in Nat, n < 2 ^ len,
         NEW bits, DOMAIN bits = 1 .. len, Len(bits) = len,
         \A k \in 1 .. len : bits[k] = Bit(n, len - k)
  PROVE  Number(bits) = n
<1> DEFINE b  == [i \in 0 .. len - 1 |-> Bit(n, i)]
           f  == [k \in 1 .. len |-> bits[k] * 2 ^ (len - k)]
           g  == Places(b, len)
           to == [k \in 1 .. len |-> len - k]
           S  == 1 .. len
           U  == 0 .. len - 1
<1>1. (\A i \in 0 .. len - 1 : b[i] \in {0, 1}) /\ Value(b, len) = n
  <2>1. \A i \in 0 .. len - 1 : b[i] = Bit(n, i)
    OBVIOUS
  <2> HIDE DEF b
  <2> QED BY <2>1, ValueOfBits
<1>2. Number(bits) = SumFunctionOnSet(f, S)
  <2>1. Number(bits) = SumFunction(f)
    BY DEF Number
  <2>2. DOMAIN f = S
    OBVIOUS
  <2> HIDE DEF f
  <2> QED BY <2>1, <2>2 DEF SumFunction
<1>3. Value(b, len) = SumFunctionOnSet(g, U)
  <2>1. DOMAIN g = U
    BY DEF Places
  <2> HIDE DEF g
  <2> QED BY <2>1 DEF Value, SumFunction, g
<1>4. ASSUME NEW k \in S
      PROVE  to[k] = len - k /\ to[k] \in U /\ g[to[k]] = f[k] /\ f[k] \in Int
  <2>1. to[k] = len - k /\ to[k] \in U
    OBVIOUS
  <2>2. PICK i \in 0 .. len - 1 : i = len - k
    BY <2>1
  <2>3. bits[k] = b[i] /\ b[i] \in {0, 1}
    BY <1>1, <2>2
  <2>4. f[k] = b[i] * 2 ^ i
    BY <2>2, <2>3
  <2>5. g[i] = b[i] * 2 ^ i
    <3> HIDE DEF b
    <3> QED BY DEF Places
  <2>6. b[i] * 2 ^ i \in Int
    <3>1. PICK p \in Nat : p = 2 ^ i
      BY Powers
    <3>2. b[i] = 0 \/ b[i] = 1
      BY <2>3
    <3>3. b[i] * p \in Int
      <4> HIDE DEF b
      <4> QED BY <3>2
    <3> QED BY <3>1, <3>3, Zenon
  <2> HIDE DEF b, f, g, to
  <2> QED BY <2>1, <2>2, <2>4, <2>5, <2>6
<1>5. \A u \in U : \E k \in S : u = to[k]
  <2> SUFFICES ASSUME NEW u \in U PROVE \E k \in S : u = to[k]
    OBVIOUS
  <2>1. len - u \in S /\ len - (len - u) = u
    OBVIOUS
  <2>2. to[len - u] = len - (len - u)
    BY <2>1, Zenon
  <2> HIDE DEF to, S
  <2> QED BY <2>1, <2>2
<1>6. IsFiniteSet(S)
  BY FS_Interval
<1>7. \A k, l \in S : to[k] = to[l] => k = l
  BY <1>4
<1>8. (\A k \in S : f[k] \in Int) /\ (\A k \in S : to[k] \in U /\ g[to[k]] = f[k])
  BY <1>4, Zenon
<1>9. SumFunctionOnSet(g, U) = SumFunctionOnSet(f, S)
  <2> HIDE DEF b, f, g, to, S, U
  <2> QED BY <1>5, <1>6, <1>7, <1>8, SumRename
<1> HIDE DEF b, f, g, to, S, U
<1> QED BY <1>1, <1>2, <1>3, <1>9

LEMMA SmallPowers == 2 ^ 4 = 16 /\ 2 ^ 15 = 2 ^ 14 + 2 ^ 14
<1>1. 2 ^ (0 + 1) = 2 * 2 ^ 0 /\ 2 ^ (1 + 1) = 2 * 2 ^ 1 /\ 2 ^ (2 + 1) = 2 * 2 ^ 2 /\ 2 ^ (3 + 1) = 2 * 2 ^ 3
  BY Powers
<1>2. 2 ^ (14 + 1) = 2 * 2 ^ 14 /\ 2 ^ 14 \in Nat
  BY Powers
<1>3. 0 + 1 = 1 /\ 1 + 1 = 2 /\ 2 + 1 = 3 /\ 3 + 1 = 4 /\ 14 + 1 = 15
  OBVIOUS
<1>4. 2 ^ 1 = 2
  BY <1>1, <1>3, Powers
<1>5. 2 ^ 2 = 4
  BY <1>1, <1>3, <1>4
<1>6. 2 ^ 3 = 8
  BY <1>1, <1>3, <1>5
<1>7. 2 ^ 4 = 16
  BY <1>1, <1>3, <1>6
<1>8. PICK p \in Nat : p = 2 ^ 14
  BY <1>2
<1>9. 2 ^ 15 = 2 * p
  BY <1>2, <1>3, <1>8
<1> QED BY <1>7, <1>8, <1>9

(* The energy in two's complement.                                         *)
LEMMA EnergyOfBits ==
  ASSUME NEW e \in Int15, NEW bits, DOMAIN bits = 1 .. 15, Len(bits) = 15,
         \A k \in 1 .. 15 : bits[k] = Bit(IF e < 0 THEN e + 2 ^ 15 ELSE e, 15 - k)
  PROVE  bits_to_signed_int(bits) = e
<1>1. PICK p \in Nat : p = 2 ^ 14 /\ p > 0 /\ 2 ^ 15 = 2 * p
  <2>1. 14 \in Nat
    OBVIOUS
  <2>2. PICK p \in Nat : p = 2 ^ 14 /\ p > 0
    BY <2>1, Powers
  <2> QED BY <2>2, SmallPowers
<1>2. e \in Int /\ -p <= e /\ e < p
  <2>1. e \in -p .. p - 1
    BY <1>1 DEF Int15
  <2> QED BY <2>1, <1>1
<1>3. PICK n \in Int : n = IF e < 0 THEN e + 2 ^ 15 ELSE e
  <2>1. e + 2 * p \in Int
    BY <1>2
  <2> QED BY <1>1, <1>2, <2>1
<1>4. n = (IF e < 0 THEN e + 2 * p ELSE e) /\ n \in Nat /\ n < 2 * p
  BY <1>1, <1>2, <1>3
<1>5. Number(bits) = n
  <2>1. \A k \in 1 .. 15 : bits[k] = Bit(n, 15 - k)
    BY <1>3
  <2>2. 15 \in Nat /\ n \in Nat /\ n < 2 ^ 15
    BY <1>1, <1>4
  <2> QED BY <2>1, <2>2, NumberOfBits
<1>6. bits_to_signed_int(bits) = (n % p) - p * (n \div p)
  <2>1. Len(bits) - 1 = 14
    OBVIOUS
  <2> QED BY <1>1, <1>5, <2>1, Zenon DEF bits_to_signed_int
<1>7. CASE e < 0
  <2>1. n = p * 1 + (e + p) /\ e + p \in 0 .. p - 1
    BY <1>2, <1>4, <1>7
  <2>2. n \div p = 1 /\ n % p = e + p
    BY <1>1, <2>1, DividedAs
  <2> QED BY <1>2, <1>6, <2>2
<1>8. CASE e >= 0
  <2>1. n = p * 0 + e /\ e \in 0 .. p - 1
    BY <1>2, <1>4, <1>8
  <2>2. n \div p = 0 /\ n % p = e
    BY <1>1, <2>1, DividedAs
  <2> QED BY <1>2, <1>6, <2>2
<1> QED BY <1>2, <1>7, <1>8

(* The bits of a result as the chip sends them, and as they are received.  *)
Message(a) ==
  Bits_of(a.problem_id, 4) \o Bits_of(a.core_id, 4)
    \o [k \in 1 .. HW_SPINS |-> IF a.spins[HW_SPINS - k] = 1 THEN 0 ELSE 1]
    \o Bits_of(a.energy, 15)

Received(words) ==
  [k \in 1 .. OUTPUT_LEN |-> Bit(words[(k - 1) \div CHIP_WORD], (k - 1) % CHIP_WORD)]

(* The parts of an answer are bits, and fill its words.                    *)
LEMMA BitRange == ASSUME NEW n \in Nat, NEW k \in Nat PROVE Bit(n, k) \in {0, 1}
<1>1. PICK p \in Nat : p = 2 ^ k /\ p > 0
  BY Powers
<1>2. n \div p \in Int
  BY <1>1, Divided
<1>3. (n \div p) % 2 \in 0 .. 1
  BY <1>2, Divided
<1> QED BY <1>1, <1>3 DEF Bit

LEMMA BitsOfType ==
  ASSUME NEW n \in Int, NEW len \in Nat, n < 0 => n + 2 ^ len \in Nat
  PROVE  /\ Bits_of(n, len) \in Seq({0, 1}) /\ Len(Bits_of(n, len)) = len
         /\ \A k \in 1 .. len : Bits_of(n, len)[k] = Bit(IF n < 0 THEN n + 2 ^ len ELSE n, len - k)
<1>1. PICK m \in Nat : m = IF n < 0 THEN n + 2 ^ len ELSE n
  OBVIOUS
<1>2. \A k \in 1 .. len : Bit(m, len - k) \in {0, 1}
  <2> SUFFICES ASSUME NEW k \in 1 .. len PROVE Bit(m, len - k) \in {0, 1}
    OBVIOUS
  <2>1. len - k \in Nat
    OBVIOUS
  <2> QED BY <2>1, BitRange
<1>3. Bits_of(n, len) = [k \in 1 .. len |-> Bit(m, len - k)]
  BY <1>1 DEF Bits_of
<1>4. [k \in 1 .. len |-> Bit(m, len - k)] \in [1 .. len -> {0, 1}]
  BY <1>2
<1> QED BY <1>1, <1>3, <1>4

LEMMA AnswerTypes ==
  ASSUME NEW a \in Answer
  PROVE  /\ a.problem_id \in Nat /\ a.problem_id < 2 ^ 4 /\ a.core_id \in Nat /\ a.core_id < 2 ^ 4
         /\ a.energy \in Int15 /\ a.energy \in Int /\ a.energy + 2 ^ 15 \in Nat
         /\ a.spins \in [Spin -> {-1, 1}]
<1>1. a.problem_id \in 0 .. 15 /\ a.core_id \in 0 .. 15 /\ a.energy \in Int15 /\ a.spins \in [Spin -> {-1, 1}]
  BY DEF Answer
<1>2. PICK p \in Nat : p = 2 ^ 14 /\ 2 ^ 15 = p + p
  <2>1. 14 \in Nat
    OBVIOUS
  <2> QED BY <2>1, Powers, SmallPowers
<1>3. a.energy \in -p .. p - 1
  BY <1>1, <1>2 DEF Int15
<1>4. a.energy \in Int /\ a.energy + (p + p) \in Nat
  BY <1>3
<1> QED BY <1>1, <1>2, <1>4, SmallPowers

LEMMA OutputSizes ==
  /\ HW_SPINS \in Nat /\ HW_SPINS = qubo_size + 1 /\ qubo_size \in Nat
  /\ OUTPUT_LEN \in Nat /\ OUTPUT_LEN = 8 + HW_SPINS + 15
  /\ CHIP_WORD \in Nat /\ CHIP_WORD > 0 /\ OUTPUT_LEN <= 3 * CHIP_WORD
BY Sizes, ProblemAssumption, QuboSizeAssumption DEF HW_SPINS, OUTPUT_LEN

(* The parts of a message put together, each at its offset.                *)
LEMMA JoinedTwo ==
  ASSUME NEW S, NEW m \in Nat, NEW n \in Nat, NEW s \in Seq(S), NEW t \in Seq(S), Len(s) = m, Len(t) = n
  PROVE  /\ s \o t \in Seq(S) /\ Len(s \o t) = m + n
         /\ \A k \in 1 .. m : (s \o t)[k] = s[k]
OBVIOUS

LEMMA JoinedSecond ==
  ASSUME NEW S, NEW m \in Nat, NEW n \in Nat, NEW s \in Seq(S), NEW t \in Seq(S), Len(s) = m, Len(t) = n,
         NEW k \in 1 .. n
  PROVE  (s \o t)[m + k] = t[k]
OBVIOUS

Chain(P, C, T, E) == ((P \o C) \o T) \o E

LEMMA Joined ==
  ASSUME NEW S, NEW P \in Seq(S), NEW C \in Seq(S), NEW T \in Seq(S), NEW E \in Seq(S),
         NEW a \in Nat, NEW h \in Nat, NEW e \in Nat, Len(P) = a, Len(C) = a, Len(T) = h, Len(E) = e
  PROVE  /\ Chain(P, C, T, E) \in Seq(S) /\ Len(Chain(P, C, T, E)) = (a + a) + h + e
         /\ \A k \in 1 .. a : Chain(P, C, T, E)[k] = P[k] /\ Chain(P, C, T, E)[a + k] = C[k]
         /\ \A k \in 1 .. h : Chain(P, C, T, E)[a + a + k] = T[k]
         /\ \A k \in 1 .. e : Chain(P, C, T, E)[a + a + h + k] = E[k]
<1> DEFINE m == Chain(P, C, T, E)
<1>1. P \o C \in Seq(S) /\ Len(P \o C) = a + a
  BY JoinedTwo
<1>2. \A k \in 1 .. a : (P \o C)[k] = P[k]
  BY JoinedTwo
<1>3. \A k \in 1 .. a : (P \o C)[a + k] = C[k]
  BY JoinedSecond
<1>4. PICK ids : ids = P \o C
  OBVIOUS
<1>5. PICK l : l = a + a
  OBVIOUS
<1>6. ids \in Seq(S) /\ l \in Nat /\ Len(ids) = l
  BY <1>1, <1>4, <1>5
<1>7. ids \o T \in Seq(S) /\ Len(ids \o T) = l + h
  BY <1>6, JoinedTwo
<1>8. \A k \in 1 .. l : (ids \o T)[k] = ids[k]
  BY <1>6, JoinedTwo
<1>9. \A k \in 1 .. h : (ids \o T)[l + k] = T[k]
  BY <1>6, JoinedSecond
<1>10. PICK ids_spins : ids_spins = ids \o T
  OBVIOUS
<1>11. PICK g : g = l + h
  OBVIOUS
<1>12. ids_spins \in Seq(S) /\ g \in Nat /\ Len(ids_spins) = g
  BY <1>6, <1>7, <1>10, <1>11
<1>13. ids_spins \o E \in Seq(S) /\ Len(ids_spins \o E) = g + e
  BY <1>12, JoinedTwo
<1>14. \A k \in 1 .. g : (ids_spins \o E)[k] = ids_spins[k]
  BY <1>12, JoinedTwo
<1>15. \A k \in 1 .. e : (ids_spins \o E)[g + k] = E[k]
  BY <1>12, JoinedSecond
<1>16. m = ids_spins \o E
  BY <1>4, <1>10, Zenon DEF Chain
<1> HIDE DEF m
<1>17. ASSUME NEW k \in 1 .. a PROVE m[k] = P[k] /\ m[a + k] = C[k]
  <2>1. k \in 1 .. g /\ a + k \in 1 .. g /\ k \in 1 .. l /\ a + k \in 1 .. l
    BY <1>5, <1>11
  <2>2. m[k] = ids_spins[k] /\ m[a + k] = ids_spins[a + k]
    BY <1>14, <1>16, <2>1, Zenon
  <2>3. ids_spins[k] = ids[k] /\ ids_spins[a + k] = ids[a + k]
    BY <1>8, <1>10, <2>1, Zenon
  <2> QED BY <1>2, <1>3, <1>4, <2>2, <2>3, Zenon
<1>18. ASSUME NEW k \in 1 .. h PROVE m[a + a + k] = T[k]
  <2>1. l + k \in 1 .. g
    BY <1>5, <1>6, <1>11
  <2> QED BY <1>5, <1>9, <1>10, <1>14, <1>16, <2>1, Zenon
<1>19. \A k \in 1 .. e : m[a + a + h + k] = E[k]
  BY <1>5, <1>11, <1>15, <1>16, Zenon
<1>20. m \in Seq(S) /\ Len(m) = a + a + h + e
  BY <1>5, <1>11, <1>13, <1>16, Zenon
<1> QED BY <1>17, <1>18, <1>19, <1>20, Zenon DEF m

(* Where the parts of a result lie.                                        *)
LEMMA MessageParts ==
  ASSUME NEW a \in Answer
  PROVE  /\ Message(a) \in Seq({0, 1}) /\ Len(Message(a)) = OUTPUT_LEN
         /\ \A k \in 1 .. 4 : Message(a)[k] = Bit(a.problem_id, 4 - k)
         /\ \A k \in 1 .. 4 : Message(a)[4 + k] = Bit(a.core_id, 4 - k)
         /\ \A k \in 1 .. HW_SPINS : Message(a)[8 + k] = IF a.spins[HW_SPINS - k] = 1 THEN 0 ELSE 1
         /\ \A k \in 1 .. 15 : Message(a)[8 + HW_SPINS + k] =
              Bit(IF a.energy < 0 THEN a.energy + 2 ^ 15 ELSE a.energy, 15 - k)
<1> DEFINE P == Bits_of(a.problem_id, 4)
           C == Bits_of(a.core_id, 4)
           S == [k \in 1 .. HW_SPINS |-> IF a.spins[HW_SPINS - k] = 1 THEN 0 ELSE 1]
           E == Bits_of(a.energy, 15)
<1>1. /\ P \in Seq({0, 1}) /\ Len(P) = 4
      /\ \A k \in 1 .. 4 : P[k] = Bit(a.problem_id, 4 - k)
  <2>1. a.problem_id \in Int /\ 4 \in Nat /\ ~(a.problem_id < 0)
    BY AnswerTypes
  <2> QED BY <2>1, BitsOfType
<1>2. /\ C \in Seq({0, 1}) /\ Len(C) = 4
      /\ \A k \in 1 .. 4 : C[k] = Bit(a.core_id, 4 - k)
  <2>1. a.core_id \in Int /\ 4 \in Nat /\ ~(a.core_id < 0)
    BY AnswerTypes
  <2> QED BY <2>1, BitsOfType
<1>3. /\ E \in Seq({0, 1}) /\ Len(E) = 15
      /\ \A k \in 1 .. 15 : E[k] = Bit(IF a.energy < 0 THEN a.energy + 2 ^ 15 ELSE a.energy, 15 - k)
  <2>1. a.energy \in Int /\ 15 \in Nat /\ a.energy + 2 ^ 15 \in Nat
    BY AnswerTypes
  <2> QED BY <2>1, BitsOfType
<1>4. S \in Seq({0, 1}) /\ Len(S) = HW_SPINS
  <2>1. S \in [1 .. HW_SPINS -> {0, 1}]
    OBVIOUS
  <2> QED BY <2>1, OutputSizes
<1>5. \A k \in 1 .. HW_SPINS : S[k] = IF a.spins[HW_SPINS - k] = 1 THEN 0 ELSE 1
  OBVIOUS
<1>6. Message(a) = ((P \o C) \o S) \o E
  BY DEF Message
<1> HIDE DEF P, C, S, E
<1>7. /\ Message(a) \in Seq({0, 1}) /\ Len(Message(a)) = 8 + HW_SPINS + 15
      /\ \A k \in 1 .. 4 : Message(a)[k] = P[k] /\ Message(a)[4 + k] = C[k]
      /\ \A k \in 1 .. HW_SPINS : Message(a)[8 + k] = S[k]
      /\ \A k \in 1 .. 15 : Message(a)[8 + HW_SPINS + k] = E[k]
  <2>1. PICK q \in Nat : q = 4
    OBVIOUS
  <2>2. PICK f \in Nat : f = 15
    OBVIOUS
  <2>3. PICK B : B = {0, 1}
    OBVIOUS
  <2>4. PICK h \in Nat : h = HW_SPINS
    BY OutputSizes
  <2>5. /\ P \in Seq(B) /\ C \in Seq(B) /\ S \in Seq(B) /\ E \in Seq(B)
        /\ h \in Nat /\ q \in Nat /\ f \in Nat /\ Len(P) = q /\ Len(C) = q /\ Len(S) = h /\ Len(E) = f
    BY <1>1, <1>2, <1>3, <1>4, <2>1, <2>2, <2>3, <2>4
  <2> DEFINE m == Chain(P, C, S, E)
  <2>6. Message(a) = m
    BY <1>6 DEF Chain
  <2>7. m \in Seq(B) /\ Len(m) = q + q + h + f
    <3>1. m \in Seq(B)
      BY <2>5, Joined
    <3>2. Len(m) = q + q + h + f
      BY <2>5, Joined
    <3> QED BY <3>1, <3>2
  <2>8. \A k \in 1 .. q : m[k] = P[k] /\ m[q + k] = C[k]
    BY <2>5, Joined
  <2>9. \A k \in 1 .. h : m[q + q + k] = S[k]
    BY <2>5, Joined
  <2>10. \A k \in 1 .. f : m[q + q + h + k] = E[k]
    BY <2>5, Joined
  <2> HIDE DEF m
  <2>11. q + q = 8
    BY <2>1
  <2>12. m \in Seq({0, 1}) /\ Len(m) = 8 + HW_SPINS + 15
    BY <2>2, <2>3, <2>7, <2>11, <2>4, Zenon
  <2>13. \A k \in 1 .. 4 : m[k] = P[k] /\ m[4 + k] = C[k]
    BY <2>1, <2>8, Zenon
  <2>14. \A k \in 1 .. HW_SPINS : m[8 + k] = S[k]
    BY <2>9, <2>11, <2>4, Zenon
  <2>15. \A k \in 1 .. 15 : m[8 + HW_SPINS + k] = E[k]
    BY <2>2, <2>10, <2>11, <2>4, Zenon
  <2> QED BY <2>6, <2>12, <2>13, <2>14, <2>15, Zenon
<1>8. OUTPUT_LEN = 8 + HW_SPINS + 15
  BY OutputSizes
<1> HIDE DEF Message
<1> QED BY <1>1, <1>2, <1>3, <1>5, <1>7, <1>8, Zenon

(* The bits received are those that were sent.                             *)
LEMMA MessageReceived ==
  ASSUME NEW a \in Answer
  PROVE  Received(chip_output(a)) = Message(a)
<1> DEFINE m == Message(a)
           b(i) == [k \in 0 .. CHIP_WORD - 1 |->
                      IF i * CHIP_WORD + k + 1 <= OUTPUT_LEN THEN m[i * CHIP_WORD + k + 1] ELSE 0]
<1>1. m \in Seq({0, 1}) /\ Len(m) = OUTPUT_LEN /\ \A n \in 1 .. OUTPUT_LEN : m[n] \in {0, 1}
  <2>1. m \in Seq({0, 1}) /\ Len(m) = OUTPUT_LEN
    BY MessageParts
  <2> HIDE DEF m
  <2> QED BY <2>1
<1> HIDE DEF m
<1>2. ASSUME NEW i \in 0 .. 2 PROVE chip_output(a)[i] = Value(b(i), CHIP_WORD)
  <2> DEFINE word == [k \in 0 .. CHIP_WORD - 1 |->
                        LET n == i * CHIP_WORD + k + 1
                        IN  (IF n <= OUTPUT_LEN THEN m[n] ELSE 0) * 2 ^ k]
  <2>1. chip_output(a)[i] = SumFunction(word)
    BY DEF chip_output, Message, m
  <2>2. word = Places(b(i), CHIP_WORD)
    BY DEF Places
  <2> QED BY <2>1, <2>2 DEF Value
<1>3. ASSUME NEW n \in 1 .. OUTPUT_LEN
      PROVE  Bit(chip_output(a)[(n - 1) \div CHIP_WORD], (n - 1) % CHIP_WORD) = m[n]
  <2>1. PICK i \in Int, k \in 0 .. CHIP_WORD - 1 :
          i = (n - 1) \div CHIP_WORD /\ k = (n - 1) % CHIP_WORD /\ n - 1 = CHIP_WORD * i + k
    <3>1. n - 1 \in Int /\ CHIP_WORD \in Int /\ CHIP_WORD > 0
      BY OutputSizes
    <3>2. /\ (n - 1) \div CHIP_WORD \in Int
          /\ (n - 1) % CHIP_WORD = (n - 1) - CHIP_WORD * ((n - 1) \div CHIP_WORD)
          /\ (n - 1) % CHIP_WORD \in 0 .. CHIP_WORD - 1
      BY <3>1, Divided
    <3> QED BY <3>1, <3>2
  <2>2. i \in 0 .. 2
    <3>1. n - 1 < 3 * CHIP_WORD /\ n - 1 >= 0 /\ CHIP_WORD \in Nat
      BY OutputSizes
    <3>2. i < 3
      BY <2>1, <3>1
    <3>3. i > -1
      BY <2>1, <3>1
    <3> QED BY <3>2, <3>3
  <2>3. i * CHIP_WORD + k + 1 = n /\ n <= OUTPUT_LEN
    BY <2>1, OutputSizes
  <2>4. b(i)[k] = m[n]
    BY <2>3
  <2>5. \A l \in 0 .. CHIP_WORD - 1 : b(i)[l] \in {0, 1}
    <3> SUFFICES ASSUME NEW l \in 0 .. CHIP_WORD - 1,
                        NEW x \in Int, x = i * CHIP_WORD + l + 1, x <= OUTPUT_LEN
                 PROVE  m[x] \in {0, 1}
      <4>1. i * CHIP_WORD \in Int
        BY <2>2, OutputSizes
      <4> QED BY <4>1
    <3>1. i * CHIP_WORD >= 0
      BY <2>2, OutputSizes
    <3>2. x >= 1
      BY <3>1, <2>2, OutputSizes
    <3> QED BY <1>1, <3>2, OutputSizes
  <2>6. \A l \in 0 .. CHIP_WORD - 1 : Bit(Value(b(i), CHIP_WORD), l) = b(i)[l]
    <3> HIDE DEF b
    <3> QED BY <2>5, OutputSizes, BitsOfValue
  <2> HIDE DEF b
  <2> QED BY <1>2, <2>1, <2>2, <2>4, <2>6
<1>4. Received(chip_output(a)) = [n \in 1 .. OUTPUT_LEN |-> m[n]]
  BY <1>3 DEF Received
<1>5. m = [n \in 1 .. OUTPUT_LEN |-> m[n]]
  BY <1>1
<1> QED BY <1>4, <1>5 DEF m

(* What is made of a result, by cobisolv and by the library.               *)
LEMMA Decoded ==
  ASSUME NEW a \in Answer, NEW n \in {qubo_size, HW_SPINS}
  PROVE  LET o == decode(chip_output(a), n)
         IN  /\ o.problem_id = a.problem_id /\ o.core_id = a.core_id /\ o.energy = a.energy
             /\ o.spins \in [0 .. n - 1 -> {-1, 1}]
             /\ \A i \in 0 .. n - 1 : o.spins[i] = a.spins[HW_SPINS - n + i]
<1> DEFINE m == Message(a)
           o == decode(chip_output(a), n)
<1>0. n \in Nat /\ HW_SPINS - n \in {0, 1} /\ n + (HW_SPINS - n) = HW_SPINS
  BY OutputSizes
<1>1. o = [problem_id |-> Number(SubSeq(m, 1, 4)),
           core_id    |-> Number(SubSeq(m, 5, 8)),
           spins      |-> [i \in 0 .. n - 1 |-> IF m[8 + n - i] = 0 THEN 1 ELSE -1],
           energy     |-> bits_to_signed_int(SubSeq(m, 8 + HW_SPINS + 1, 8 + HW_SPINS + 15))]
  <2>1. 8 + n + Skipped(n) = 8 + HW_SPINS
    BY <1>0, OutputSizes DEF Skipped
  <2>2. Received(chip_output(a)) = m
    BY MessageReceived
  <2>3. o = [problem_id |-> Number(SubSeq(Received(chip_output(a)), 1, 4)),
             core_id    |-> Number(SubSeq(Received(chip_output(a)), 5, 8)),
             spins      |-> [i \in 0 .. n - 1 |-> IF Received(chip_output(a))[8 + n - i] = 0 THEN 1 ELSE -1],
             energy     |-> bits_to_signed_int(SubSeq(Received(chip_output(a)), 8 + n + Skipped(n) + 1, 8 + n + Skipped(n) + 15))]
    BY DEF decode, Received
  <2> HIDE DEF m, o
  <2> QED BY <2>1, <2>2, <2>3, Zenon
<1>2. m \in Seq({0, 1}) /\ Len(m) = OUTPUT_LEN /\ \A k \in 1 .. OUTPUT_LEN : m[k] \in {0, 1}
  <2>1. m \in Seq({0, 1}) /\ Len(m) = OUTPUT_LEN
    BY MessageParts
  <2> HIDE DEF m
  <2> QED BY <2>1
<1>3. /\ \A k \in 1 .. 4 : m[k] = Bit(a.problem_id, 4 - k)
      /\ \A k \in 1 .. 4 : m[4 + k] = Bit(a.core_id, 4 - k)
      /\ \A k \in 1 .. HW_SPINS : m[8 + k] = IF a.spins[HW_SPINS - k] = 1 THEN 0 ELSE 1
      /\ \A k \in 1 .. 15 : m[8 + HW_SPINS + k] =
           Bit(IF a.energy < 0 THEN a.energy + 2 ^ 15 ELSE a.energy, 15 - k)
  BY MessageParts
<1> HIDE DEF m
<1>4. o.problem_id = a.problem_id
  <2> DEFINE s == SubSeq(m, 1, 4)
  <2>1. s \in Seq({0, 1}) /\ Len(s) = 4 /\ \A k \in 1 .. 4 : s[k] = m[k]
    <3>1. \A i \in 1 .. 4 : m[i] \in {0, 1}
      BY <1>2, OutputSizes
    <3>2. /\ s \in Seq({0, 1}) /\ Len(s) = IF 1 <= 4 THEN 4 - 1 + 1 ELSE 0
          /\ \A i \in 1 .. 4 - 1 + 1 : s[i] = m[1 + i - 1]
      BY <3>1, SubSeqProperties
    <3> HIDE DEF s
    <3> QED BY <3>2
  <2> HIDE DEF s
  <2>2. DOMAIN s = 1 .. 4 /\ \A k \in 1 .. 4 : s[k] = Bit(a.problem_id, 4 - k)
    BY <2>1, <1>3
  <2>3. 4 \in Nat /\ a.problem_id \in Nat /\ a.problem_id < 2 ^ 4
    BY AnswerTypes
  <2>4. Number(s) = a.problem_id
    BY <2>1, <2>2, <2>3, NumberOfBits
  <2> QED BY <1>1, <2>4 DEF s
<1>5. o.core_id = a.core_id
  <2> DEFINE s == SubSeq(m, 5, 8)
  <2>1. s \in Seq({0, 1}) /\ Len(s) = 4 /\ \A k \in 1 .. 4 : s[k] = m[4 + k]
    <3>1. \A i \in 5 .. 8 : m[i] \in {0, 1}
      BY <1>2, OutputSizes
    <3>2. /\ s \in Seq({0, 1}) /\ Len(s) = IF 5 <= 8 THEN 8 - 5 + 1 ELSE 0
          /\ \A i \in 1 .. 8 - 5 + 1 : s[i] = m[5 + i - 1]
      BY <3>1, SubSeqProperties
    <3> HIDE DEF s
    <3> QED BY <3>2
  <2> HIDE DEF s
  <2>2. DOMAIN s = 1 .. 4 /\ \A k \in 1 .. 4 : s[k] = Bit(a.core_id, 4 - k)
    BY <2>1, <1>3
  <2>3. 4 \in Nat /\ a.core_id \in Nat /\ a.core_id < 2 ^ 4
    BY AnswerTypes
  <2>4. Number(s) = a.core_id
    BY <2>1, <2>2, <2>3, NumberOfBits
  <2> QED BY <1>1, <2>4 DEF s
<1>6. o.energy = a.energy
  <2>0. PICK u \in Int, w \in Int : u = 8 + HW_SPINS + 1 /\ w = 8 + HW_SPINS + 15
    BY OutputSizes
  <2> DEFINE s == SubSeq(m, u, w)
  <2>1. s \in Seq({0, 1}) /\ Len(s) = 15 /\ \A k \in 1 .. 15 : s[k] = m[8 + HW_SPINS + k]
    <3>1. \A i \in u .. w : m[i] \in {0, 1}
      BY <1>2, <2>0, OutputSizes
    <3>2. /\ s \in Seq({0, 1}) /\ Len(s) = IF u <= w THEN w - u + 1 ELSE 0
          /\ \A i \in 1 .. w - u + 1 : s[i] = m[u + i - 1]
      BY <3>1, SubSeqProperties
    <3>3. w - u + 1 = 15 /\ u <= w /\ \A i \in 1 .. 15 : u + i - 1 = 8 + HW_SPINS + i
      BY <2>0, OutputSizes
    <3> HIDE DEF s
    <3> QED BY <3>2, <3>3
  <2> HIDE DEF s
  <2>2. /\ DOMAIN s = 1 .. 15
        /\ \A k \in 1 .. 15 : s[k] = Bit(IF a.energy < 0 THEN a.energy + 2 ^ 15 ELSE a.energy, 15 - k)
    BY <2>1, <1>3
  <2>3. a.energy \in Int15
    BY AnswerTypes
  <2>4. bits_to_signed_int(s) = a.energy
    BY <2>1, <2>2, <2>3, EnergyOfBits
  <2> QED BY <1>1, <2>0, <2>4 DEF s
<1>7. o.spins = [i \in 0 .. n - 1 |-> IF m[8 + n - i] = 0 THEN 1 ELSE -1]
  BY <1>1
<1>8. ASSUME NEW i \in 0 .. n - 1 PROVE o.spins[i] = a.spins[HW_SPINS - n + i]
  <2>1. PICK k \in Int : k = n - i
    <3>1. n - i \in Int
      BY <1>0
    <3> QED BY <3>1
  <2>2. k \in 1 .. HW_SPINS /\ 8 + n - i = 8 + k /\ HW_SPINS - k = HW_SPINS - n + i /\ HW_SPINS - k \in Spin
    BY <1>0, <2>1, OutputSizes DEF Spin
  <2>3. m[8 + k] = IF a.spins[HW_SPINS - k] = 1 THEN 0 ELSE 1
    BY <1>3, <2>2
  <2>4. a.spins[HW_SPINS - k] \in {-1, 1}
    BY <2>2, AnswerTypes
  <2>5. o.spins[i] = IF m[8 + n - i] = 0 THEN 1 ELSE -1
    BY <1>7
  <2> HIDE DEF o
  <2> QED BY <2>2, <2>3, <2>4, <2>5
<1> HIDE DEF o
<1>9. o.spins \in [0 .. n - 1 -> {-1, 1}]
  BY <1>7
<1> QED BY <1>4, <1>5, <1>6, <1>8, <1>9 DEF o

(* What is read is one of the chip's answers, and what is made of it is    *)
(* made of that one.                                                       *)
AnswerRead ==
  \/ chip_answer = {} /\ output = {}
  \/ \E a \in Answers :
       /\ chip_answer = {a}
       /\ output = {decode(chip_output(a), IF client = "isd" THEN HW_SPINS ELSE qubo_size)}

LEMMA AnswerReadInit == ASSUME ProblemInit PROVE AnswerRead
BY DEF ProblemInit, AnswerRead

LEMMA AnswerReadStep == ASSUME AnswerRead, [ProblemNext]_problem PROVE AnswerRead'
<1>1. CASE ReadAnswer
  <2>1. client' = client
    BY <1>1 DEF ReadAnswer
  <2> QED BY <1>1, <2>1 DEF ReadAnswer, AnswerRead
<1>2. CASE UNCHANGED <<client, chip_answer, output>>
  BY <1>2 DEF AnswerRead
<1> QED BY <1>1, <1>2 DEF ProblemNext, ising_from_qubo, cobi_norm_val, cobi_prepare_weights,
      WriteProgram, NextProgram, ProblemDone, problem

LEMMA DecodedNow == ASSUME AnswerRead PROVE AnswerDecoded
<1> SUFFICES ASSUME NEW a \in Answers, chip_answer = {a},
                    NEW n, n = (IF client = "isd" THEN HW_SPINS ELSE qubo_size),
                    NEW o, o = decode(chip_output(a), n), output = {o}
             PROVE  AnswerDecoded
  BY DEF AnswerRead, AnswerDecoded
<1>1. a \in Answer /\ n \in {qubo_size, HW_SPINS}
  BY ProblemAssumption
<1>2. /\ o.problem_id = a.problem_id /\ o.core_id = a.core_id /\ o.energy = a.energy
      /\ o.spins \in [0 .. n - 1 -> {-1, 1}]
      /\ \A i \in 0 .. n - 1 : o.spins[i] = a.spins[HW_SPINS - n + i]
  BY <1>1, Decoded
<1>3. ASSUME client = "isd" PROVE o.spins = a.spins
  <2>1. n = HW_SPINS /\ HW_SPINS \in Nat
    BY <1>3, OutputSizes
  <2>2. \A i \in Spin : o.spins[i] = a.spins[i]
    BY <1>2, <2>1 DEF Spin
  <2>3. a.spins \in [Spin -> {-1, 1}]
    BY <1>1, AnswerTypes
  <2>4. o.spins \in [Spin -> {-1, 1}]
    BY <1>2, <2>1 DEF Spin
  <2> QED BY <2>2, <2>3, <2>4
<1>4. ASSUME client # "isd", NEW i \in Var
      PROVE  qubo_solution(o.spins)[i] = 1 <=> a.spins[i + 1] = 1
  <2>1. n = qubo_size /\ HW_SPINS - n + i = i + 1 /\ i \in 0 .. n - 1
    BY <1>4, OutputSizes DEF Var
  <2>2. o.spins[i] = a.spins[i + 1]
    BY <1>2, <2>1
  <2> QED BY <2>2 DEF qubo_solution
<1> QED BY <1>2, <1>3, <1>4 DEF AnswerDecoded

(* What cobisolv and the library make of a result is what the chip sent:   *)
(* its numbers, its energy with its sign, and for every variable the bit   *)
(* of the spin its weights were given to; for every size of the chip and   *)
(* every width of its words (cobi_read_result, cobi_read).                 *)
THEOREM AnswersUnderstood == ProblemSpec => []AnswerDecoded
<1>1. ProblemInit => AnswerRead
  BY AnswerReadInit
<1>2. AnswerRead /\ [ProblemNext]_problem => AnswerRead'
  BY AnswerReadStep
<1>3. AnswerRead => AnswerDecoded
  BY DecodedNow
<1> QED BY <1>1, <1>2, <1>3, PTL DEF ProblemSpec
------------------------------------------------------------------------------
(* The formulas of the k-SAT driver.                                       *)

(* A finite set of integers in ascending order, from 1 on.                 *)
LEMMA AscendingFacts ==
  ASSUME NEW S, IsFiniteSet(S), S \subseteq Int
  PROVE  /\ Cardinality(S) \in Nat
         /\ Ascending(S) \in [1 .. Cardinality(S) -> S]
         /\ \A a, b \in 1 .. Cardinality(S) : a < b => Ascending(S)[a] < Ascending(S)[b]
         /\ \A a, b \in 1 .. Cardinality(S) : Ascending(S)[a] = Ascending(S)[b] => a = b
         /\ \A i \in S : \E k \in 1 .. Cardinality(S) : Ascending(S)[k] = i
<1>1. PICK n : n = Cardinality(S)
  OBVIOUS
<1>2. PICK s : s = InOrder(S)
  OBVIOUS
<1>3. PICK t : t = Ascending(S)
  OBVIOUS
<1>4. /\ n \in Nat /\ s \in [0 .. n - 1 -> S]
      /\ \A a, b \in 0 .. n - 1 : a < b => s[a] < s[b]
      /\ \A i \in S : \E k \in 0 .. n - 1 : s[k] = i
  BY <1>1, <1>2, InOrderFacts, Zenon
<1>5. t = [k \in 1 .. n |-> t[k]] /\ \A k \in 1 .. n : t[k] = s[k - 1]
  <2> DEFINE At(m) == CHOOSE i \in S : Cardinality({j \in S : j < i}) = m
  <2>1. t = [k \in 1 .. n |-> At(k - 1)]
    BY <1>1, <1>3, Zenon DEF Ascending
  <2>2. s = [k \in 0 .. n - 1 |-> At(k)]
    BY <1>1, <1>2, Zenon DEF InOrder
  <2> HIDE DEF At
  <2>3. ASSUME NEW k \in 1 .. n PROVE t[k] = s[k - 1]
    <3>1. k - 1 \in 0 .. n - 1
      BY <1>4
    <3> QED BY <2>1, <2>2, <3>1
  <2> QED BY <2>1, <2>3
<1>6. \A k \in 1 .. n : t[k] \in S
  BY <1>4, <1>5
<1>7. \A a, b \in 1 .. n : a < b => t[a] < t[b]
  <2> SUFFICES ASSUME NEW a \in 1 .. n, NEW b \in 1 .. n, a < b PROVE t[a] < t[b]
    OBVIOUS
  <2>1. a - 1 \in 0 .. n - 1 /\ b - 1 \in 0 .. n - 1 /\ a - 1 < b - 1
    BY <1>4
  <2>2. s[a - 1] < s[b - 1]
    BY <1>4, <2>1
  <2> QED BY <1>5, <2>2
<1>8. \A i \in S : \E k \in 1 .. n : t[k] = i
  <2> TAKE i \in S
  <2>1. PICK k \in 0 .. n - 1 : s[k] = i
    BY <1>4
  <2>2. k + 1 \in 1 .. n /\ t[k + 1] = i
    BY <1>4, <1>5, <2>1
  <2> QED BY <2>2
<1>9. t \in [1 .. n -> S]
  BY <1>5, <1>6
<1>10. \A a, b \in 1 .. n : t[a] = t[b] => a = b
  <2> SUFFICES ASSUME NEW a \in 1 .. n, NEW b \in 1 .. n, t[a] = t[b], a # b PROVE FALSE
    OBVIOUS
  <2>1. PICK c \in Int : c = t[a] /\ c = t[b]
    BY <1>6
  <2>2. t[a] < t[b] \/ t[b] < t[a]
    BY <1>7
  <2>3. c < c
    BY <2>1, <2>2
  <2> QED BY <2>3
<1> QED BY <1>1, <1>3, <1>4, <1>7, <1>8, <1>9, <1>10

(* The entries kept of a sequence are those at the places given.           *)
LEMMA KeptFacts ==
  ASSUME NEW T, NEW s \in Seq(T), NEW S, S \subseteq DOMAIN s
  PROVE  /\ IsFiniteSet(S) /\ Cardinality(S) \in Nat
         /\ Kept(s, S) \in Seq(T) /\ DOMAIN Kept(s, S) = 1 .. Cardinality(S)
         /\ \A k \in 1 .. Cardinality(S) : Ascending(S)[k] \in S /\ Kept(s, S)[k] = s[Ascending(S)[k]]
         /\ \A i \in S : \E k \in 1 .. Cardinality(S) : Kept(s, S)[k] = s[i]
<1>1. S \subseteq 1 .. Len(s) /\ Len(s) \in Nat /\ S \subseteq Int
  OBVIOUS
<1>2. IsFiniteSet(S)
  BY <1>1, FS_Interval, FS_Subset
<1>3. PICK n : n = Cardinality(S)
  OBVIOUS
<1>4. PICK t : t = Ascending(S)
  OBVIOUS
<1>5. /\ n \in Nat /\ t \in [1 .. n -> S]
      /\ \A i \in S : \E k \in 1 .. n : t[k] = i
  BY <1>1, <1>2, <1>3, <1>4, AscendingFacts, Zenon
<1>6. PICK r : r = Kept(s, S)
  OBVIOUS
<1>7. r = [k \in 1 .. n |-> s[t[k]]]
  BY <1>3, <1>4, <1>6 DEF Kept
<1>8. \A k \in 1 .. n : t[k] \in S /\ s[t[k]] \in T
  BY <1>5
<1>9. r \in Seq(T) /\ DOMAIN r = 1 .. n
  BY <1>5, <1>7, <1>8
<1>10. \A i \in S : \E k \in 1 .. n : r[k] = s[i]
  BY <1>5, <1>7
<1>11. \A k \in 1 .. n : t[k] \in S /\ r[k] = s[t[k]]
  BY <1>7, <1>8
<1>12. \A k \in 1 .. Cardinality(S) : Ascending(S)[k] \in S /\ Kept(s, S)[k] = s[Ascending(S)[k]]
  BY <1>3, <1>4, <1>6, <1>11, Zenon
<1>13. \A i \in S : \E k \in 1 .. Cardinality(S) : Kept(s, S)[k] = s[i]
  BY <1>3, <1>6, <1>10, Zenon
<1> QED BY <1>2, <1>3, <1>5, <1>6, <1>9, <1>12, <1>13, Zenon

(* As many of the entries kept are in a set as at the places they had.     *)
PlacesOf(s, S, P) == {i \in S : s[i] \in P}

LEMMA KeptCounted ==
  ASSUME NEW T, NEW s \in Seq(T), NEW S, S \subseteq DOMAIN s, NEW P
  PROVE  /\ IsFiniteSet(PlacesOf(s, S, P))
         /\ Cardinality(PlacesOf(s, S, P)) = Cardinality(PlacesOf(Kept(s, S), DOMAIN Kept(s, S), P))
<1> DEFINE A == {i \in S : s[i] \in P}
           B == {k \in DOMAIN Kept(s, S) : Kept(s, S)[k] \in P}
<1>1. PICK n : n = Cardinality(S)
  OBVIOUS
<1>2. PICK t : t = Ascending(S)
  OBVIOUS
<1>3. PICK r : r = Kept(s, S)
  OBVIOUS
<1>4. IsFiniteSet(S) /\ S \subseteq Int
  BY KeptFacts
<1>5. /\ n \in Nat /\ t \in [1 .. n -> S]
      /\ \A a, b \in 1 .. n : t[a] = t[b] => a = b
      /\ \A i \in S : \E k \in 1 .. n : t[k] = i
  BY <1>1, <1>2, <1>4, AscendingFacts, Zenon
<1>6. DOMAIN r = 1 .. n /\ \A k \in 1 .. n : r[k] = s[t[k]]
  BY <1>1, <1>2, <1>3, KeptFacts
<1>7. B = {k \in 1 .. n : r[k] \in P}
  BY <1>3, <1>6
<1>8. IsFiniteSet(B)
  BY <1>5, <1>7, FS_Interval, FS_Subset
<1>9. A = {t[k] : k \in B}
  BY <1>5, <1>6, <1>7
<1>10. \A a, b \in B : t[a] = t[b] => a = b
  BY <1>5, <1>7
<1>11. IsFiniteSet(A) /\ Cardinality(A) = Cardinality(B)
  <2> HIDE DEF A, B
  <2> QED BY <1>8, <1>9, <1>10, RenamedSize
<1> QED BY <1>11, Zenon DEF PlacesOf

(* Formulas, and the clauses an assignment satisfies.                      *)
Formula == Seq(Seq(Literal))
Satisfying(x) == {c \in Seq(Literal) : \E l \in Literals(c) : True(l, x)}

(* Sets of places are finite; sets without a common element add up.        *)
LEMMA PlacesFinite ==
  ASSUME NEW n \in Nat, NEW S, S \subseteq 1 .. n
  PROVE  IsFiniteSet(S) /\ Cardinality(S) \in Nat
<1>1. IsFiniteSet(1 .. n)
  BY FS_Interval
<1> QED BY <1>1, FS_Subset, FS_CardinalityType

LEMMA DisjointSize ==
  ASSUME NEW A, NEW B, IsFiniteSet(A), IsFiniteSet(B), A \cap B = {}
  PROVE  /\ IsFiniteSet(A \cup B) /\ Cardinality(A) \in Nat /\ Cardinality(B) \in Nat
         /\ Cardinality(A \cup B) = Cardinality(A) + Cardinality(B)
<1>1. Cardinality({}) = 0 /\ Cardinality(A) \in Nat /\ Cardinality(B) \in Nat
  BY FS_EmptySet, FS_CardinalityType
<1>2. IsFiniteSet(A \cup B) /\ Cardinality(A \cup B) = Cardinality(A) + Cardinality(B) - Cardinality(A \cap B)
  BY FS_Union
<1>3. Cardinality(A \cap B) = 0
  BY <1>1, Zenon
<1> QED BY <1>1, <1>2, <1>3

LEMMA SatisfiedCounts ==
  ASSUME NEW formula \in Formula, NEW x
  PROVE  /\ Satisfied(formula, x) = Cardinality({k \in DOMAIN formula : formula[k] \in Satisfying(x)})
         /\ IsFiniteSet({k \in DOMAIN formula : formula[k] \in Satisfying(x)})
         /\ Satisfied(formula, x) \in Nat
<1>1. \A k \in DOMAIN formula : formula[k] \in Seq(Literal)
  BY DEF Formula
<1>2. {k \in DOMAIN formula : formula[k] \in Satisfying(x)} =
        {k \in DOMAIN formula : \E l \in Literals(formula[k]) : True(l, x)}
  BY <1>1 DEF Satisfying
<1>3. DOMAIN formula = 1 .. Len(formula) /\ Len(formula) \in Nat
  BY DEF Formula
<1>4. IsFiniteSet({k \in DOMAIN formula : formula[k] \in Satisfying(x)})
  BY <1>3, PlacesFinite
<1>5. Satisfied(formula, x) = Cardinality({k \in DOMAIN formula : formula[k] \in Satisfying(x)})
  BY <1>2 DEF Satisfied
<1> QED BY <1>4, <1>5, FS_CardinalityType

(* What is left of a clause without a literal, in the order of a set if it *)
(* had the literal.                                                        *)
Without(clause, lit, order) ==
  IF lit \in Literals(clause) THEN Listed(order, Literals(clause) \ {lit}) ELSE clause

LEMMA WithoutLiteral ==
  ASSUME NEW clause \in Seq(Literal), NEW lit, NEW order \in Orders
  PROVE  /\ Without(clause, lit, order) \in Seq(Literal)
         /\ Literals(Without(clause, lit, order)) = Literals(clause) \ {lit}
<1>1. Literals(clause) \ {lit} \in SUBSET Literal
  BY DEF Literals
<1>2. CASE lit \in Literals(clause)
  <2>1. Without(clause, lit, order) = Listed(order, Literals(clause) \ {lit})
    BY <1>2 DEF Without
  <2> QED BY <1>1, <2>1, OrderAssumption
<1>3. CASE lit \notin Literals(clause)
  BY <1>3 DEF Without
<1> QED BY <1>2, <1>3

(* The clauses a true literal settles.                                     *)
Settled(formula, true) == {k \in DOMAIN formula : true \in Literals(formula[k])}

(* What a value leaves of a formula counts, for every assignment that has  *)
(* the value, the satisfied clauses but those that went.                   *)
LEMMA Propagated ==
  ASSUME NEW formula \in Formula, NEW index \in 1 .. maxvar, NEW value \in {0, 1}, NEW order \in Orders
  PROVE  /\ unitProp2(formula, index, value, order) \in Formula
         /\ \E d \in Nat : \A x \in [1 .. maxvar -> {0, 1}] :
              x[index] = value =>
                Satisfied(formula, x) = d + Satisfied(unitProp2(formula, index, value, order), x)
<1>1. PICK true : true = IF value = 1 THEN index ELSE -index
  OBVIOUS
<1>2. PICK left : left = [k \in DOMAIN formula |-> Without(formula[k], -true, order)]
  OBVIOUS
<1>3. PICK S : S = {k \in DOMAIN formula : true \notin Literals(formula[k]) /\ left[k] # <<>>}
  OBVIOUS
<1>4. unitProp2(formula, index, value, order) = Kept(left, S)
  BY <1>1, <1>2, <1>3, Zenon DEF unitProp2, Without
<1>5. DOMAIN formula = 1 .. Len(formula) /\ Len(formula) \in Nat /\ \A k \in DOMAIN formula : formula[k] \in Seq(Literal)
  BY DEF Formula
<1>6. \A k \in DOMAIN formula : left[k] \in Seq(Literal) /\ Literals(left[k]) = Literals(formula[k]) \ {-true}
  BY <1>2, <1>5, WithoutLiteral
<1>7. left \in Formula /\ DOMAIN left = DOMAIN formula
  BY <1>2, <1>5, <1>6 DEF Formula
<1>8. S \subseteq DOMAIN left
  BY <1>3, <1>7
<1>9. Kept(left, S) \in Formula
  BY <1>7, <1>8, KeptFacts DEF Formula
<1>10. IsFiniteSet(Settled(formula, true))
  <2>1. Settled(formula, true) \subseteq 1 .. Len(formula)
    BY <1>5 DEF Settled
  <2> QED BY <1>5, <2>1, PlacesFinite
<1>11. ASSUME NEW x \in [1 .. maxvar -> {0, 1}], x[index] = value
       PROVE  Satisfied(formula, x) = Cardinality(Settled(formula, true)) + Satisfied(Kept(left, S), x)
  <2>1. PICK P : P = Satisfying(x)
    OBVIOUS
  <2>2. PICK A : A = {k \in DOMAIN formula : formula[k] \in P}
    OBVIOUS
  <2>3. PICK B : B = {k \in S : left[k] \in P}
    OBVIOUS
  <2>4. PICK C : C = {k \in DOMAIN Kept(left, S) : Kept(left, S)[k] \in P}
    OBVIOUS
  <2>5. Satisfied(formula, x) = Cardinality(A)
    BY <2>1, <2>2, SatisfiedCounts
  <2>6. Satisfied(Kept(left, S), x) = Cardinality(C)
    BY <1>9, <2>1, <2>4, SatisfiedCounts
  <2>7. IsFiniteSet(B) /\ Cardinality(B) = Cardinality(C)
    <3>1. PICK T : left \in Seq(T)
      BY <1>7 DEF Formula
    <3>2. B = PlacesOf(left, S, P) /\ C = PlacesOf(Kept(left, S), DOMAIN Kept(left, S), P)
      BY <2>3, <2>4 DEF PlacesOf
    <3>3. IsFiniteSet(PlacesOf(left, S, P)) /\ Cardinality(PlacesOf(left, S, P)) = Cardinality(PlacesOf(Kept(left, S), DOMAIN Kept(left, S), P))
      BY <1>8, <3>1, KeptCounted
    <3> QED BY <3>2, <3>3
  <2>8. True(true, x) /\ ~True(-true, x)
    BY <1>1, <1>11, KsatAssumption DEF True, VariableOf
  <2>9. \A k \in DOMAIN formula : formula[k] \in P <=> \E l \in Literals(formula[k]) : True(l, x)
    BY <1>5, <2>1 DEF Satisfying
  <2>10. \A k \in DOMAIN formula : left[k] \in P <=> \E l \in Literals(left[k]) : True(l, x)
    BY <1>6, <2>1 DEF Satisfying
  <2>11. \A k \in DOMAIN formula : left[k] = <<>> => Literals(left[k]) = {}
    BY DEF Literals
  <2>12. A = Settled(formula, true) \cup B
    <3>1. ASSUME NEW k \in DOMAIN formula, true \in Literals(formula[k]) PROVE k \in A
      BY <2>2, <2>8, <2>9, <3>1
    <3>2. ASSUME NEW k \in DOMAIN formula, true \notin Literals(formula[k]) PROVE k \in A <=> k \in B
      <4>1. left[k] \in P <=> formula[k] \in P
        BY <1>6, <2>8, <2>9, <2>10
      <4>2. left[k] \in P => left[k] # <<>>
        BY <2>10, <2>11
      <4> QED BY <1>3, <2>2, <2>3, <3>2, <4>1, <4>2
    <3>3. \A k \in A : k \in DOMAIN formula
      BY <2>2
    <3>4. \A k \in B : k \in DOMAIN formula /\ true \notin Literals(formula[k])
      BY <1>3, <2>3
    <3> QED BY <3>1, <3>2, <3>3, <3>4 DEF Settled
  <2>13. Settled(formula, true) \cap B = {}
    BY <1>3, <2>3 DEF Settled
  <2>14. Cardinality(A) = Cardinality(Settled(formula, true)) + Cardinality(B)
    BY <1>10, <2>7, <2>12, <2>13, DisjointSize
  <2> QED BY <2>5, <2>6, <2>7, <2>14
<1>12. Cardinality(Settled(formula, true)) \in Nat
  BY <1>10, FS_CardinalityType
<1> QED BY <1>4, <1>9, <1>11, <1>12

(* The assignments with the frozen values.                                 *)
Agree == {x \in [1 .. maxvar -> {0, 1}] : \A v \in DOMAIN spins : x[v] = spins[v]}

FormulaTypes ==
  /\ cnf \in Formula /\ surrogate_cnf \in Formula
  /\ DOMAIN spins \subseteq 1 .. maxvar /\ \A v \in DOMAIN spins : spins[v] \in {0, 1}

(* Those that have gone were satisfied, the same number for each of them.  *)
KsatKept ==
  /\ FormulaTypes
  /\ \E d \in Nat : \A x \in Agree : Satisfied(cnf, x) = d + Satisfied(surrogate_cnf, x)

LEMMA KsatKeptInit == ASSUME KsatInit PROVE KsatKept
<1>1. cnf \in Formula /\ surrogate_cnf = cnf
  BY KsatAssumption DEF KsatInit, Formula
<1>2. FormulaTypes
  BY <1>1 DEF KsatInit, FormulaTypes
<1>3. \A x \in Agree : Satisfied(cnf, x) = 0 + Satisfied(surrogate_cnf, x)
  <2> TAKE x \in Agree
  <2>1. Satisfied(cnf, x) \in Nat
    BY <1>1, SatisfiedCounts
  <2> QED BY <1>1, <2>1
<1> QED BY <1>2, <1>3 DEF KsatKept

(* The variables of a formula have the numbers of its literals.            *)
LEMMA FormulaVariables ==
  ASSUME NEW formula \in Formula PROVE AllVariables(formula) \subseteq 1 .. maxvar
<1> SUFFICES ASSUME NEW k \in DOMAIN formula, NEW i \in DOMAIN formula[k]
             PROVE  VariableOf(formula[k][i]) \in 1 .. maxvar
  BY DEF AllVariables, Variables, Literals
<1>1. formula[k] \in Seq(Literal)
  BY DEF Formula
<1>2. PICK lit \in Literal : lit = formula[k][i]
  BY <1>1
<1> QED BY <1>2, KsatAssumption DEF Literal, VariableOf

LEMMA KsatKeptFreeze ==
  ASSUME KsatKept, NEW node \in nodes, NEW value \in {0, 1}, Freeze(node, value) PROVE KsatKept'
<1>1. node \in 1 .. maxvar /\ node \notin DOMAIN spins
  BY FormulaVariables DEF KsatKept, FormulaTypes, nodes
<1>2. surrogate_cnf \in Formula /\ cnf \in Formula /\ cnf' = cnf
  BY DEF KsatKept, FormulaTypes, Freeze
<1>3. PICK order \in Orders : surrogate_cnf' = unitProp2(surrogate_cnf, node, value, order)
  BY DEF Freeze
<1>4. PICK d \in Nat : \A x \in Agree : Satisfied(cnf, x) = d + Satisfied(surrogate_cnf, x)
  BY DEF KsatKept
<1>5. surrogate_cnf' \in Formula
  BY <1>1, <1>2, <1>3, Propagated
<1>6. PICK e \in Nat : \A x \in [1 .. maxvar -> {0, 1}] :
        x[node] = value =>
          Satisfied(surrogate_cnf, x) = e + Satisfied(unitProp2(surrogate_cnf, node, value, order), x)
  BY <1>1, <1>2, Propagated
<1>7. DOMAIN spins' = DOMAIN spins \cup {node} /\ spins'[node] = value /\ \A v \in DOMAIN spins : spins'[v] = spins[v]
  BY <1>1 DEF Freeze
<1>8. FormulaTypes'
  BY <1>1, <1>2, <1>5, <1>7 DEF KsatKept, FormulaTypes
<1>9. ASSUME NEW x \in Agree' PROVE Satisfied(cnf', x) = (d + e) + Satisfied(surrogate_cnf', x)
  <2>1. x \in Agree /\ x \in [1 .. maxvar -> {0, 1}] /\ x[node] = value
    BY <1>7 DEF Agree
  <2>2. Satisfied(cnf, x) = d + Satisfied(surrogate_cnf, x)
    BY <1>4, <2>1
  <2>3. Satisfied(surrogate_cnf, x) = e + Satisfied(surrogate_cnf', x)
    BY <1>3, <1>6, <2>1
  <2>4. Satisfied(surrogate_cnf', x) \in Nat
    BY <1>5, SatisfiedCounts
  <2> QED BY <1>2, <2>2, <2>3, <2>4
<1> QED BY <1>8, <1>9 DEF KsatKept

LEMMA KsatKeptStep == ASSUME KsatKept, [KsatNext]_ksat PROVE KsatKept'
<1>1. ASSUME NEW node \in nodes, NEW value \in {0, 1}, Freeze(node, value) PROVE KsatKept'
  BY <1>1, KsatKeptFreeze
<1>2. ASSUME UNCHANGED <<cnf, spins, surrogate_cnf>> PROVE KsatKept'
  BY <1>2 DEF KsatKept, FormulaTypes, Agree
<1> QED BY <1>1, <1>2 DEF KsatNext, Encode, Sample, NameError, ksat

LEMMA KsatKeptShows == ASSUME KsatKept PROVE SurrogateExact
<1>1. PICK d \in Nat : \A x \in Agree : Satisfied(cnf, x) = d + Satisfied(surrogate_cnf, x)
  BY DEF KsatKept
<1>2. \A x \in Agree : Satisfied(cnf, x) - Satisfied(surrogate_cnf, x) = d
  <2> TAKE x \in Agree
  <2>1. Satisfied(surrogate_cnf, x) \in Nat
    BY SatisfiedCounts DEF KsatKept, FormulaTypes
  <2> QED BY <1>1, <2>1
<1>3. [v \in 1 .. maxvar |-> IF v \in DOMAIN spins THEN spins[v] ELSE 0] \in Agree
  BY DEF KsatKept, FormulaTypes, Agree
<1>4. {Satisfied(cnf, x) - Satisfied(surrogate_cnf, x) : x \in Agree} = {d}
  BY <1>2, <1>3
<1>5. Cardinality({Satisfied(cnf, x) - Satisfied(surrogate_cnf, x) : x \in Agree}) = 1
  BY <1>4, FS_Singleton
<1> QED BY <1>5 DEF SurrogateExact, Agree

(* Whatever variables are frozen, in whatever order and at whatever values,*)
(* what is left of the formula counts satisfied clauses as the formula     *)
(* does (unitProp2, main loop).                                            *)
THEOREM FreezingExact == KsatSpec => []SurrogateExact
<1>1. KsatInit => KsatKept
  BY KsatKeptInit
<1>2. KsatKept /\ [KsatNext]_ksat => KsatKept'
  BY KsatKeptStep
<1>3. KsatKept => SurrogateExact
  BY KsatKeptShows
<1> QED BY <1>1, <1>2, <1>3, PTL DEF KsatSpec

(* The clauses of three, each of which gets an ancilla.                    *)
Threes(formula) == {k \in DOMAIN formula : Len(formula[k]) = 3}
Clause == {c \in Seq(Int) : Len(c) <= 3}

(* A clause stays as it is, or is split into clauses of three with new     *)
(* variables from v on.                                                    *)
LEMMA LiteralInt == Literal \subseteq Int /\ maxvar \in Nat
BY KsatAssumption DEF Literal

LEMMA ClauseInt == ASSUME NEW f \in Seq(Literal) PROVE f \in Seq(Int)
<1>1. PICK L : L = Literal
  OBVIOUS
<1>2. f \in Seq(L) /\ L \subseteq Int
  BY <1>1, LiteralInt
<1>3. \A i \in 1 .. Len(f) : f[i] \in Int
  <2>1. \A i \in 1 .. Len(f) : f[i] \in L
    BY <1>2
  <2> QED BY <1>2, <2>1, Zenon
<1>4. f = [i \in 1 .. Len(f) |-> f[i]] /\ Len(f) \in Nat
  BY <1>2
<1> QED BY <1>3, <1>4

LEMMA ShortClause ==
  ASSUME NEW f \in Seq(Literal), NEW v \in Nat, NewVariables(f) = 0
  PROVE  /\ Clauses3(f, v) \in Seq(Clause) /\ DOMAIN Clauses3(f, v) = 1 .. 1
         /\ Clauses3(f, v)[1] = f /\ Len(f) <= 3
<1>1. Clauses3(f, v) = [k \in 1 .. 1 |-> f]
  BY DEF Clauses3
<1>2. Len(f) <= 3 /\ f \in Seq(Int)
  <2>1. PICK l \in Nat : l = Len(f)
    OBVIOUS
  <2>2. NewVariables(f) = IF l > 3 THEN l - 3 ELSE 0
    BY <2>1, Zenon DEF NewVariables
  <2>3. l <= 3
    BY <2>2
  <2>4. f \in Seq(Int)
    BY ClauseInt
  <2> QED BY <2>1, <2>3, <2>4
<1>3. f \in Clause
  BY <1>2 DEF Clause
<1> QED BY <1>1, <1>2, <1>3

LEMMA LongClause ==
  ASSUME NEW f \in Seq(Literal), NEW v \in Nat, NEW n \in Nat, n = NewVariables(f), n # 0,
         NEW k \in 1 .. n + 1
  PROVE  /\ Clauses3(f, v)[k] \in Seq(Int) /\ Len(Clauses3(f, v)[k]) = 3
         /\ Variables(Clauses3(f, v)[k]) \subseteq Variables(f) \cup (v .. v + n - 1)
<1> DEFINE New(i) == IF i = n /\ Len(f) \in {4, 8, 9} THEN v + i - 1 ELSE -(v + i - 1)
           Q(i)   == IF i <= Len(f) THEN f[i] ELSE -New(i - Len(f))
           Ours(l) == l \in Int /\ VariableOf(l) \in Variables(f) \cup (v .. v + n - 1)
<1>1. Len(f) = n + 3 /\ Len(f) \in Nat
  BY DEF NewVariables
<1>2. \A i \in 1 .. n : Ours(New(i)) /\ Ours(-New(i))
  BY DEF VariableOf
<1>3. \A i \in 1 .. Len(f) : Ours(f[i])
  BY LiteralInt DEF Variables, Literals
<1>4. \A i \in 1 .. 2 * n + 3 : Ours(Q(i))
  <2> TAKE i \in 1 .. 2 * n + 3
  <2>1. CASE i <= Len(f)
    BY <1>1, <1>3, <2>1
  <2>2. CASE ~(i <= Len(f))
    <3>1. i - Len(f) \in 1 .. n
      BY <1>1, <2>2
    <3> HIDE DEF New, Ours
    <3>2. Ours(-New(i - Len(f)))
      BY <1>2, <3>1
    <3> QED BY <2>2, <3>2
  <2> QED BY <2>1, <2>2
<1>5. PICK a, b, c : a = Q(2 * k - 1) /\ b = Q(2 * k) /\ c = IF k <= n THEN New(k) ELSE Q(2 * k + 1)
  OBVIOUS
<1>6. Clauses3(f, v)[k] = <<a, b, c>>
  BY <1>5 DEF Clauses3
<1>7. Ours(a) /\ Ours(b)
  <2>1. 2 * k - 1 \in 1 .. 2 * n + 3 /\ 2 * k \in 1 .. 2 * n + 3
    OBVIOUS
  <2> HIDE DEF Ours, Q
  <2> QED BY <1>4, <1>5, <2>1
<1>8. Ours(c)
  <2>1. CASE k <= n
    <3> HIDE DEF Ours, New
    <3> QED BY <1>2, <1>5, <2>1
  <2>2. CASE ~(k <= n)
    <3>1. 2 * k + 1 \in 1 .. 2 * n + 3
      BY <2>2
    <3> HIDE DEF Ours, Q
    <3> QED BY <1>4, <1>5, <2>2, <3>1
  <2> QED BY <2>1, <2>2
<1>9. <<a, b, c>> \in Seq(Int) /\ Len(<<a, b, c>>) = 3
  BY <1>7, <1>8
<1>10. \A l \in Literals(<<a, b, c>>) : l = a \/ l = b \/ l = c
  BY DEF Literals
<1>11. Variables(<<a, b, c>>) \subseteq Variables(f) \cup (v .. v + n - 1)
  <2> SUFFICES ASSUME NEW l \in Literals(<<a, b, c>>) PROVE VariableOf(l) \in Variables(f) \cup (v .. v + n - 1)
    BY DEF Variables
  <2> QED BY <1>7, <1>8, <1>10
<1> QED BY <1>6, <1>9, <1>11

(* What a clause is split into: short clauses with its variables and the   *)
(* new ones, and as many ancillas as were estimated for it.                *)
LEMMA ClauseSplit ==
  ASSUME NEW f \in Seq(Literal), NEW v \in Nat
  PROVE  /\ NewVariables(f) \in Nat /\ Clauses3(f, v) \in Seq(Clause)
         /\ AllVariables(Clauses3(f, v)) \subseteq Variables(f) \cup (v .. v + NewVariables(f) - 1)
         /\ ancillary_counter(f) \in Nat
         /\ ancillary_counter(f) = NewVariables(f) + Cardinality(Threes(Clauses3(f, v)))
<1>1. PICK n : n = NewVariables(f)
  OBVIOUS
<1>2. n \in Nat /\ Len(f) \in Nat
  BY <1>1 DEF NewVariables
<1>3. ancillary_counter(f) \in Nat
  BY <1>2 DEF ancillary_counter
<1>4. CASE n = 0
  <2>1. /\ Clauses3(f, v) \in Seq(Clause) /\ DOMAIN Clauses3(f, v) = 1 .. 1
        /\ Clauses3(f, v)[1] = f /\ Len(f) <= 3
    BY <1>1, <1>4, ShortClause
  <2>2. AllVariables(Clauses3(f, v)) \subseteq Variables(f)
    BY <2>1 DEF AllVariables
  <2>3. Threes(Clauses3(f, v)) = IF Len(f) = 3 THEN {1} ELSE {}
    BY <2>1 DEF Threes
  <2>4. Cardinality({1}) = 1 /\ Cardinality({}) = 0
    BY FS_Singleton, FS_EmptySet
  <2>5. Cardinality(Threes(Clauses3(f, v))) = IF Len(f) = 3 THEN 1 ELSE 0
    BY <2>3, <2>4
  <2>6. ancillary_counter(f) = IF Len(f) = 3 THEN 1 ELSE 0
    <3>1. PICK l \in Nat : l = Len(f)
      BY <1>2
    <3>2. l <= 3
      BY <2>1, <3>1
    <3>3. ancillary_counter(f) = IF l <= 2 THEN 0 ELSE (l - 2) * 2 - 1
      BY <3>1, Zenon DEF ancillary_counter
    <3>4. CASE l = 3
      BY <3>1, <3>3, <3>4
    <3>5. CASE l <= 2
      <4>1. ancillary_counter(f) = 0 /\ l # 3
        BY <3>3, <3>5
      <4> QED BY <3>1, <4>1, Zenon
    <3> QED BY <3>2, <3>4, <3>5
  <2> QED BY <1>1, <1>2, <1>3, <1>4, <2>1, <2>2, <2>5, <2>6
<1>5. CASE n # 0
  <2>1. PICK r : r = Clauses3(f, v)
    OBVIOUS
  <2>2. DOMAIN r = 1 .. n + 1 /\ r = [k \in 1 .. n + 1 |-> r[k]]
    BY <1>1, <2>1 DEF Clauses3
  <2>3. \A k \in 1 .. n + 1 : r[k] \in Seq(Int) /\ Len(r[k]) = 3
    BY <1>1, <1>2, <1>5, <2>1, LongClause
  <2>4. \A k \in 1 .. n + 1 : Variables(r[k]) \subseteq Variables(f) \cup (v .. v + n - 1)
    BY <1>1, <1>2, <1>5, <2>1, LongClause
  <2>5. \A k \in 1 .. n + 1 : r[k] \in Clause
    <3> SUFFICES ASSUME NEW k \in 1 .. n + 1 PROVE r[k] \in Clause
      OBVIOUS
    <3>1. PICK c : c = r[k]
      OBVIOUS
    <3>2. c \in Seq(Int) /\ Len(c) = 3
      BY <2>3, <3>1
    <3>3. Len(c) <= 3
      BY <3>2
    <3> QED BY <3>1, <3>2, <3>3 DEF Clause
  <2>6. r \in Seq(Clause)
    BY <1>2, <2>2, <2>5
  <2>7. AllVariables(r) \subseteq Variables(f) \cup (v .. v + n - 1)
    BY <2>2, <2>4 DEF AllVariables
  <2>8. Threes(r) = 1 .. n + 1
    BY <2>2, <2>3 DEF Threes
  <2>9. Cardinality(1 .. n + 1) = n + 1
    BY <1>2, FS_Interval
  <2>10. ancillary_counter(f) = n + (n + 1)
    BY <1>1, <1>2, <1>5 DEF ancillary_counter, NewVariables
  <2> QED BY <1>1, <1>2, <1>3, <2>1, <2>6, <2>7, <2>8, <2>9, <2>10
<1> QED BY <1>4, <1>5

(* Clauses put together: their variables, and the clauses of three.        *)
LEMMA ClausesJoined ==
  ASSUME NEW F \in Seq(Clause), NEW G \in Seq(Clause)
  PROVE  /\ F \o G \in Seq(Clause)
         /\ AllVariables(F \o G) \subseteq AllVariables(F) \cup AllVariables(G)
         /\ Cardinality(Threes(F)) \in Nat /\ Cardinality(Threes(G)) \in Nat
         /\ Cardinality(Threes(F \o G)) = Cardinality(Threes(F)) + Cardinality(Threes(G))
<1>1. PICK m, n : m = Len(F) /\ n = Len(G)
  OBVIOUS
<1>2. m \in Nat /\ n \in Nat /\ DOMAIN F = 1 .. m /\ DOMAIN G = 1 .. n
  BY <1>1
<1>3. PICK H : H = F \o G
  OBVIOUS
<1>4. H \in Seq(Clause) /\ DOMAIN H = 1 .. m + n
  BY <1>1, <1>3
<1>5. \A k \in 1 .. m : H[k] = F[k]
  BY <1>1, <1>3
<1>6. \A k \in 1 .. n : H[m + k] = G[k]
  BY <1>1, <1>2, <1>3, JoinedSecond
<1>7. \A k \in 1 .. m + n : k \in 1 .. m \/ \E j \in 1 .. n : k = m + j
  <2> TAKE k \in 1 .. m + n
  <2>1. k \in 1 .. m \/ (k - m \in 1 .. n /\ k = m + (k - m))
    BY <1>2
  <2> QED BY <2>1
<1>8. AllVariables(H) \subseteq AllVariables(F) \cup AllVariables(G)
  <2> SUFFICES ASSUME NEW k \in 1 .. m + n PROVE Variables(H[k]) \subseteq AllVariables(F) \cup AllVariables(G)
    BY <1>4 DEF AllVariables
  <2>1. CASE k \in 1 .. m
    BY <1>2, <1>5, <2>1 DEF AllVariables
  <2>2. ASSUME NEW j \in 1 .. n, k = m + j PROVE Variables(H[k]) \subseteq AllVariables(G)
    BY <1>2, <1>6, <2>2 DEF AllVariables
  <2> QED BY <1>7, <2>1, <2>2
<1>9. PICK B : B = {m + k : k \in Threes(G)}
  OBVIOUS
<1>10. Threes(F) \subseteq 1 .. m /\ Threes(G) \subseteq 1 .. n
  BY <1>2 DEF Threes
<1>11. IsFiniteSet(Threes(F)) /\ IsFiniteSet(Threes(G))
  BY <1>2, <1>10, PlacesFinite
<1>12. IsFiniteSet(B) /\ Cardinality(B) = Cardinality(Threes(G))
  <2>1. PICK f : f = [k \in Threes(G) |-> m + k]
    OBVIOUS
  <2>2. \A a, b \in Threes(G) : f[a] = f[b] => a = b
    BY <1>2, <1>10, <2>1
  <2>3. B = {f[a] : a \in Threes(G)}
    BY <1>9, <2>1
  <2> QED BY <1>11, <2>2, <2>3, RenamedSize
<1>13. Threes(H) = Threes(F) \cup B
  <2>1. \A k \in 1 .. m : k \in Threes(H) <=> k \in Threes(F)
    BY <1>2, <1>4, <1>5 DEF Threes
  <2>2. \A j \in 1 .. n : m + j \in Threes(H) <=> j \in Threes(G)
    BY <1>2, <1>4, <1>6 DEF Threes
  <2>3. \A j \in 1 .. n : j \in Threes(G) => m + j \in B
    BY <1>9
  <2>4. \A k \in B : \E j \in 1 .. n : k = m + j /\ j \in Threes(G)
    BY <1>9, <1>10
  <2>5. Threes(H) \subseteq 1 .. m + n
    BY <1>4 DEF Threes
  <2> QED BY <1>7, <1>10, <2>1, <2>2, <2>3, <2>4, <2>5
<1>14. Threes(F) \cap B = {}
  BY <1>2, <1>9, <1>10
<1> QED BY <1>3, <1>4, <1>8, <1>11, <1>12, <1>13, <1>14, DisjointSize

(* The recursion over the clauses has a solution, up to any of them.       *)
NextClause(formula, acc, k) ==
  [formula |-> acc.formula \o Clauses3(formula[k], acc.v),
   v       |-> acc.v + NewVariables(formula[k])]
SplitsTo(g, formula, V, n) ==
  g = [k \in 0 .. n |-> IF k = 0 THEN [formula |-> <<>>, v |-> V]
                        ELSE NextClause(formula, g[k - 1], k)]

LEMMA SplitExists ==
  ASSUME NEW formula, NEW V PROVE \A n \in Nat : \E g : SplitsTo(g, formula, V, n)
<1>1. PICK T : T = {n \in Nat : \E g : SplitsTo(g, formula, V, n)}
  OBVIOUS
<1>2. 0 \in T
  <2>1. PICK g : g = [k \in 0 .. 0 |-> [formula |-> <<>>, v |-> V]]
    OBVIOUS
  <2>2. SplitsTo(g, formula, V, 0)
    BY <2>1 DEF SplitsTo
  <2> QED BY <1>1, <2>2
<1>3. ASSUME NEW n \in Nat, n \in T PROVE n + 1 \in T
  <2>1. PICK g : SplitsTo(g, formula, V, n)
    BY <1>1, <1>3
  <2>2. PICK h : h = [k \in 0 .. n + 1 |-> IF k = n + 1 THEN NextClause(formula, g[n], n + 1) ELSE g[k]]
    OBVIOUS
  <2>3. \A k \in 0 .. n + 1 : h[k] = IF k = 0 THEN [formula |-> <<>>, v |-> V] ELSE NextClause(formula, h[k - 1], k)
    <3> TAKE k \in 0 .. n + 1
    <3>1. CASE k = n + 1
      <4>1. h[n] = g[n] /\ h[n + 1] = NextClause(formula, g[n], n + 1) /\ n + 1 # 0 /\ k - 1 = n
        BY <2>2, <3>1
      <4> QED BY <3>1, <4>1, Zenon
    <3>2. CASE k # n + 1 /\ k # 0
      <4>1. h[k] = g[k] /\ h[k - 1] = g[k - 1] /\ k \in 0 .. n
        BY <2>2, <3>2
      <4>2. g[k] = NextClause(formula, g[k - 1], k)
        <5>1. g = [j \in 0 .. n |-> IF j = 0 THEN [formula |-> <<>>, v |-> V] ELSE NextClause(formula, g[j - 1], j)]
          BY <2>1 DEF SplitsTo
        <5> HIDE DEF NextClause
        <5> QED BY <3>2, <4>1, <5>1
      <4> QED BY <3>2, <4>1, <4>2, Zenon
    <3>3. CASE k = 0
      <4>1. h[0] = g[0]
        BY <2>2
      <4>2. g[0] = [formula |-> <<>>, v |-> V]
        BY <2>1 DEF SplitsTo
      <4> QED BY <3>3, <4>1, <4>2
    <3> QED BY <3>1, <3>2, <3>3
  <2>4. h = [k \in 0 .. n + 1 |-> h[k]]
    BY <2>2
  <2>5. SplitsTo(h, formula, V, n + 1)
    BY <2>3, <2>4 DEF SplitsTo
  <2> QED BY <1>1, <2>5
<1>4. \A n \in Nat : n \in T
  BY <1>2, <1>3, AllNaturals
<1> QED BY <1>1, <1>4

LEMMA SplitChosen ==
  ASSUME NEW formula \in Formula, NEW V
  PROVE  \E g : SplitsTo(g, formula, V, Len(formula)) /\ sat_kN_to_k3(formula, V) = g[Len(formula)]
<1> DEFINE k3 == CHOOSE g : SplitsTo(g, formula, V, Len(formula))
<1>1. Len(formula) \in Nat
  BY DEF Formula
<1>2. SplitsTo(k3, formula, V, Len(formula))
  BY <1>1, SplitExists
<1>3. sat_kN_to_k3(formula, V) = k3[Len(formula)]
  BY Zenon DEF sat_kN_to_k3, SplitsTo, NextClause
<1> QED BY <1>2, <1>3

(* The estimates of the first clauses of a formula.                        *)
Estimates(formula) == [k \in DOMAIN formula |-> ancillary_counter(formula[k])]

LEMMA EstimateType == ASSUME NEW f \in Seq(Literal) PROVE ancillary_counter(f) \in Nat
<1>1. 0 \in Nat
  OBVIOUS
<1> QED BY <1>1, ClauseSplit, Zenon

LEMMA EstimateNext ==
  ASSUME NEW formula \in Formula, NEW n \in Nat, n + 1 <= Len(formula)
  PROVE  SumFunctionOnSet(Estimates(formula), 1 .. n + 1) =
           SumFunctionOnSet(Estimates(formula), 1 .. n) + ancillary_counter(formula[n + 1])
<1>1. PICK f : f = Estimates(formula)
  OBVIOUS
<1>2. \A k \in 1 .. n + 1 : f[k] = ancillary_counter(formula[k]) /\ formula[k] \in Seq(Literal)
  BY <1>1 DEF Estimates, Formula
<1>3. \A k \in 1 .. n + 1 : f[k] \in Int
  <2> SUFFICES ASSUME NEW k \in 1 .. n + 1 PROVE f[k] \in Int
    OBVIOUS
  <2>1. ancillary_counter(formula[k]) \in Nat
    BY <1>2, EstimateType
  <2> QED BY <1>2, <2>1
<1>4. IsFiniteSet(1 .. n + 1)
  BY FS_Interval
<1>5. n + 1 \in 1 .. n + 1
  OBVIOUS
<1>6. SumFunctionOnSet(f, 1 .. n + 1) = f[n + 1] + SumFunctionOnSet(f, (1 .. n + 1) \ {n + 1})
  BY <1>3, <1>4, <1>5, SumElement
<1>7. (1 .. n + 1) \ {n + 1} = 1 .. n
  OBVIOUS
<1>8. SumFunctionOnSet(f, 1 .. n) \in Int
  <2>1. IsFiniteSet(1 .. n) /\ \A k \in 1 .. n : f[k] \in Int
    BY <1>3, FS_Interval
  <2> QED BY <2>1, SumInt
<1>9. f[n + 1] = ancillary_counter(formula[n + 1]) /\ f[n + 1] \in Int
  BY <1>2, <1>3, <1>5
<1>10. PICK a \in Int, b \in Int : a = SumFunctionOnSet(f, 1 .. n) /\ b = f[n + 1]
  BY <1>8, <1>9
<1>11. SumFunctionOnSet(f, 1 .. n + 1) = b + a
  BY <1>6, <1>7, <1>10, Zenon
<1>12. SumFunctionOnSet(f, 1 .. n + 1) = a + b
  BY <1>10, <1>11
<1> QED BY <1>1, <1>9, <1>10, <1>12, Zenon

(* A clause of the formula at a time: what is split has the variables of   *)
(* the formula and the new ones, and the ancillas estimated.               *)
SplitTo(acc, formula, V, n) ==
  /\ acc.formula \in Seq(Clause) /\ acc.v \in Nat /\ V <= acc.v
  /\ AllVariables(acc.formula) \subseteq AllVariables(formula) \cup (V .. acc.v - 1)
  /\ (acc.v - V) + Cardinality(Threes(acc.formula)) = SumFunctionOnSet(Estimates(formula), 1 .. n)

LEMMA SplitNext ==
  ASSUME NEW formula \in Formula, NEW V \in Nat, NEW n \in Nat, n + 1 <= Len(formula),
         NEW acc, SplitTo(acc, formula, V, n)
  PROVE  SplitTo(NextClause(formula, acc, n + 1), formula, V, n + 1)
<1>1. PICK F, v, f, G, w : /\ F = acc.formula /\ v = acc.v /\ f = formula[n + 1]
                           /\ G = Clauses3(f, v) /\ w = NewVariables(f)
  OBVIOUS
<1>2. n + 1 \in DOMAIN formula /\ f \in Seq(Literal)
  BY <1>1 DEF Formula
<1>3. /\ F \in Seq(Clause) /\ v \in Nat /\ V <= v
      /\ AllVariables(F) \subseteq AllVariables(formula) \cup (V .. v - 1)
      /\ (v - V) + Cardinality(Threes(F)) = SumFunctionOnSet(Estimates(formula), 1 .. n)
  BY <1>1 DEF SplitTo
<1>4. /\ w \in Nat /\ G \in Seq(Clause)
      /\ AllVariables(G) \subseteq Variables(f) \cup (v .. v + w - 1)
      /\ ancillary_counter(f) \in Nat
      /\ ancillary_counter(f) = w + Cardinality(Threes(G))
  BY <1>1, <1>2, <1>3, ClauseSplit
<1>5. /\ F \o G \in Seq(Clause)
      /\ AllVariables(F \o G) \subseteq AllVariables(F) \cup AllVariables(G)
      /\ Cardinality(Threes(F)) \in Nat /\ Cardinality(Threes(G)) \in Nat
      /\ Cardinality(Threes(F \o G)) = Cardinality(Threes(F)) + Cardinality(Threes(G))
  BY <1>3, <1>4, ClausesJoined
<1>6. PICK r : r = NextClause(formula, acc, n + 1)
  OBVIOUS
<1>7. r.formula = F \o G /\ r.v = v + w
  BY <1>1, <1>6 DEF NextClause
<1>8. Variables(f) \subseteq AllVariables(formula)
  BY <1>1, <1>2 DEF AllVariables
<1>9. (V .. v - 1) \cup (v .. v + w - 1) \subseteq V .. (v + w) - 1
  BY <1>3, <1>4
<1>10. AllVariables(F \o G) \subseteq AllVariables(formula) \cup (V .. (v + w) - 1)
  BY <1>3, <1>4, <1>5, <1>8, <1>9
<1>11. SumFunctionOnSet(Estimates(formula), 1 .. n + 1) =
         SumFunctionOnSet(Estimates(formula), 1 .. n) + ancillary_counter(f)
  BY <1>1, EstimateNext
<1>12. ((v + w) - V) + Cardinality(Threes(F \o G)) = SumFunctionOnSet(Estimates(formula), 1 .. n + 1)
  BY <1>3, <1>4, <1>5, <1>11
<1>13. v + w \in Nat /\ V <= v + w
  BY <1>3, <1>4
<1>14. SplitTo(r, formula, V, n + 1)
  BY <1>5, <1>7, <1>10, <1>12, <1>13, Zenon DEF SplitTo
<1> QED BY <1>6, <1>14

LEMMA SplitFormula ==
  ASSUME NEW formula \in Formula, NEW V \in Nat
  PROVE  SplitTo(sat_kN_to_k3(formula, V), formula, V, Len(formula))
<1>1. PICK g : SplitsTo(g, formula, V, Len(formula)) /\ sat_kN_to_k3(formula, V) = g[Len(formula)]
  BY SplitChosen
<1>2. PICK L \in Nat : L = Len(formula)
  BY DEF Formula
<1>3. g = [k \in 0 .. L |-> IF k = 0 THEN [formula |-> <<>>, v |-> V] ELSE NextClause(formula, g[k - 1], k)]
  BY <1>1, <1>2 DEF SplitsTo
<1>4. PICK T : T = {n \in Nat : n <= L => SplitTo(g[n], formula, V, n)}
  OBVIOUS
<1>5. 0 \in T
  <2>1. g[0] = [formula |-> <<>>, v |-> V]
    BY <1>2, <1>3
  <2>2. g[0].formula = <<>> /\ g[0].v = V
    BY <2>1
  <2>3. <<>> \in Seq(Clause) /\ AllVariables(<<>>) = {} /\ Threes(<<>>) = {}
    BY DEF AllVariables, Threes
  <2>4. Cardinality({}) = 0 /\ 1 .. 0 = {}
    BY FS_EmptySet
  <2>5. SumFunctionOnSet(Estimates(formula), 1 .. 0) = 0
    BY <2>4, SumEmpty
  <2>6. Cardinality(Threes(g[0].formula)) = 0
    BY <2>2, <2>3, <2>4
  <2>7. SplitTo(g[0], formula, V, 0)
    BY <2>2, <2>3, <2>5, <2>6 DEF SplitTo
  <2> QED BY <1>4, <2>7
<1>6. ASSUME NEW n \in Nat, n \in T PROVE n + 1 \in T
  <2> SUFFICES ASSUME n + 1 <= L PROVE SplitTo(g[n + 1], formula, V, n + 1)
    BY <1>4
  <2>1. SplitTo(g[n], formula, V, n)
    BY <1>2, <1>4, <1>6
  <2>2. n + 1 \in 0 .. L /\ n + 1 # 0 /\ (n + 1) - 1 = n
    BY <1>2
  <2>3. g[n + 1] = NextClause(formula, g[n], n + 1)
    BY <1>3, <2>2, Zenon
  <2>4. SplitTo(NextClause(formula, g[n], n + 1), formula, V, n + 1)
    BY <1>2, <2>1, SplitNext
  <2> QED BY <2>3, <2>4
<1>7. L \in T
  BY <1>2, <1>5, <1>6, AllNaturals
<1> QED BY <1>1, <1>2, <1>4, <1>7

(* In clauses of three the estimate is exact.                              *)
LEMMA ThreesCounted ==
  ASSUME NEW F \in Seq(Clause)
  PROVE  /\ Cardinality(Threes(F)) \in Nat
         /\ SumFunction([k \in DOMAIN F |-> ancillary_counter(F[k])]) = Cardinality(Threes(F))
<1>1. PICK f : f = [k \in DOMAIN F |-> ancillary_counter(F[k])]
  OBVIOUS
<1>2. PICK n \in Nat : n = Len(F) /\ DOMAIN F = 1 .. n
  OBVIOUS
<1>3. \A k \in 1 .. n : f[k] = IF k \in Threes(F) THEN 1 ELSE 0
  <2> SUFFICES ASSUME NEW k \in 1 .. n PROVE f[k] = IF k \in Threes(F) THEN 1 ELSE 0
    OBVIOUS
  <2>1. PICK c : c = F[k]
    OBVIOUS
  <2>2. c \in Seq(Int) /\ Len(c) <= 3
    BY <1>2, <2>1 DEF Clause
  <2>3. PICK l \in Nat : l = Len(c)
    BY <2>2
  <2>4. f[k] = IF l <= 2 THEN 0 ELSE (l - 2) * 2 - 1
    BY <1>1, <1>2, <2>1, <2>3, Zenon DEF ancillary_counter
  <2>5. k \in Threes(F) <=> l = 3
    BY <1>2, <2>1, <2>3 DEF Threes
  <2>6. l <= 3
    BY <2>2, <2>3
  <2>7. CASE l = 3
    BY <2>4, <2>5, <2>7
  <2>8. CASE l <= 2
    BY <2>4, <2>5, <2>8
  <2> QED BY <2>6, <2>7, <2>8
<1>4. IsFiniteSet(1 .. n) /\ Threes(F) \in SUBSET (1 .. n)
  BY <1>2, FS_Interval DEF Threes
<1>5. IsFiniteSet(Threes(F)) /\ Cardinality(Threes(F)) \in Nat
  BY <1>4, PlacesFinite
<1>6. \A k \in 1 .. n : f[k] \in Int
  BY <1>3
<1>7. \A k \in (1 .. n) \ Threes(F) : f[k] = 0
  BY <1>3
<1>8. SumFunctionOnSet(f, 1 .. n) = SumFunctionOnSet(f, Threes(F))
  BY <1>4, <1>6, <1>7, SumSupport
<1>9. \A k \in Threes(F) : f[k] \in {0, 1} /\ f[k] = 1
  BY <1>3, <1>4
<1>10. SumFunctionOnSet(f, Threes(F)) = Cardinality(Threes(F))
  <2>1. \A k \in Threes(F) : f[k] \in {0, 1}
    BY <1>9
  <2>2. \A k \in Threes(F) : f[k] = 1
    BY <1>9
  <2> QED BY <1>5, <2>1, <2>2, SumBits
<1>11. SumFunction(f) = SumFunctionOnSet(f, 1 .. n)
  BY <1>1, <1>2 DEF SumFunction
<1> QED BY <1>1, <1>5, <1>8, <1>10, <1>11

(* The numbers of the program's variables: those of the formula, and one   *)
(* ancilla for each clause of three.                                       *)
Numbers(formula, v) ==
  {u - 1 : u \in AllVariables(formula)} \cup (v .. v + Cardinality(Threes(formula)) - 1)

LEMMA PlaceInside ==
  ASSUME NEW F \in Seq(Clause), NEW v \in Nat, NEW k \in DOMAIN F,
         NEW i \in IF Len(F[k]) = 3 THEN 1 .. 4 ELSE DOMAIN F[k]
  PROVE  NumberOf(F, v, k, i) \in Numbers(F, v)
<1>1. PICK n \in Nat : n = Len(F) /\ DOMAIN F = 1 .. n
  OBVIOUS
<1>2. PICK c : c = F[k]
  OBVIOUS
<1>3. c \in Seq(Int) /\ Len(c) <= 3
  BY <1>2 DEF Clause
<1>4. CASE i = 4
  <2>1. Len(c) = 3
    BY <1>2, <1>3, <1>4
  <2>2. PICK S : S = {m \in 1 .. k - 1 : Len(F[m]) = 3}
    OBVIOUS
  <2>3. NumberOf(F, v, k, i) = v + Cardinality(S)
    BY <1>4, <2>2 DEF NumberOf
  <2>4. S \subseteq Threes(F) /\ k \in Threes(F) /\ k \notin S /\ Threes(F) \subseteq 1 .. n
    BY <1>1, <1>2, <2>1, <2>2 DEF Threes
  <2>5. IsFiniteSet(Threes(F)) /\ Cardinality(Threes(F)) \in Nat
    BY <1>1, <2>4, PlacesFinite
  <2>6. IsFiniteSet(S) /\ Cardinality(S) \in Nat
    BY <1>1, <2>4, PlacesFinite
  <2>7. S \subseteq Threes(F) \ {k} /\ IsFiniteSet(Threes(F) \ {k})
         /\ Cardinality(Threes(F) \ {k}) = Cardinality(Threes(F)) - 1
    BY <2>4, <2>5, FS_RemoveElement
  <2>8. Cardinality(S) <= Cardinality(Threes(F)) - 1
    BY <2>7, FS_Subset
  <2> QED BY <2>3, <2>5, <2>6, <2>8 DEF Numbers
<1>5. CASE i # 4
  <2>1. i \in DOMAIN c
    BY <1>2, <1>3, <1>5
  <2>2. VariableOf(c[i]) \in AllVariables(F)
    BY <1>2, <2>1 DEF AllVariables, Variables, Literals
  <2>3. NumberOf(F, v, k, i) = VariableOf(c[i]) - 1
    BY <1>2, <1>5 DEF NumberOf
  <2> QED BY <2>2, <2>3 DEF Numbers
<1> QED BY <1>4, <1>5

LEMMA EntriesInside ==
  ASSUME NEW F \in Seq(Clause), NEW v \in Nat, NEW p \in DOMAIN get_idt(F, v)
  PROVE  p[1] \in Numbers(F, v) /\ p[2] \in Numbers(F, v)
<1>1. PICK terms : terms = {t \in Terms3(F) : t[2] <= t[3]}
  OBVIOUS
<1>2. PICK at : at = [t \in terms |-> LET a == NumberOf(F, v, t[1], t[2])
                                          b == NumberOf(F, v, t[1], t[3])
                                      IN  IF a <= b THEN <<a, b>> ELSE <<b, a>>]
  OBVIOUS
<1>3. DOMAIN get_idt(F, v) = Range(at)
  BY <1>1, <1>2 DEF get_idt
<1>4. PICK t \in terms : p = at[t]
  BY <1>2, <1>3 DEF Range
<1>5. PICK k, i, j : /\ t = <<k, i, j>> /\ k \in DOMAIN F
                     /\ i \in IF Len(F[k]) = 3 THEN 1 .. 4 ELSE DOMAIN F[k]
                     /\ j \in IF Len(F[k]) = 3 THEN 1 .. 4 ELSE DOMAIN F[k]
  BY <1>1 DEF Terms3
<1>6. PICK a, b : a = NumberOf(F, v, k, i) /\ b = NumberOf(F, v, k, j)
  OBVIOUS
<1>7. a \in Numbers(F, v) /\ b \in Numbers(F, v)
  BY <1>5, <1>6, PlaceInside
<1>8. p = IF a <= b THEN <<a, b>> ELSE <<b, a>>
  BY <1>2, <1>4, <1>5, <1>6
<1> QED BY <1>7, <1>8

LEMMA ProgramFits ==
  ASSUME NEW F \in Seq(Clause), NEW v \in Nat,
         IsFiniteSet(AllVariables(F)), AllVariables(F) \subseteq Int
  PROVE  /\ Len(ProgramVariables(AllVariables(F), get_idt(F, v))) \in Nat
         /\ Len(ProgramVariables(AllVariables(F), get_idt(F, v))) <=
              Cardinality(AllVariables(F)) + Cardinality(Threes(F))
<1>1. PICK V : V = AllVariables(F)
  OBVIOUS
<1>2. PICK Q : Q = get_idt(F, v)
  OBVIOUS
<1>3. PICK S : S = {u - 1 : u \in V} \cup UNION {{p[1], p[2]} : p \in {q \in DOMAIN Q : Q[q] # 0}}
  OBVIOUS
<1>4. ProgramVariables(V, Q) = Ascending(S)
  BY <1>3, Zenon DEF ProgramVariables
<1>5. \A p \in DOMAIN Q : p[1] \in Numbers(F, v) /\ p[2] \in Numbers(F, v)
  BY <1>2, EntriesInside
<1>6. PICK A : A = {u - 1 : u \in V}
  OBVIOUS
<1>7. PICK t : t = Cardinality(Threes(F))
  OBVIOUS
<1>8. t \in Nat
  BY <1>7, ThreesCounted
<1>9. Numbers(F, v) = A \cup (v .. v + t - 1)
  BY <1>1, <1>6, <1>7 DEF Numbers
<1>10. S \subseteq A \cup (v .. v + t - 1)
  BY <1>3, <1>5, <1>6, <1>9
<1>11. IsFiniteSet(A) /\ Cardinality(A) = Cardinality(V)
  <2>1. PICK f : f = [u \in V |-> u - 1]
    OBVIOUS
  <2>2. \A a, b \in V : f[a] = f[b] => a = b
    <3> SUFFICES ASSUME NEW a \in V, NEW b \in V, f[a] = f[b] PROVE a = b
      OBVIOUS
    <3>1. a \in Int /\ b \in Int /\ a - 1 = b - 1
      BY <1>1, <2>1
    <3> QED BY <3>1
  <2>3. A = {f[u] : u \in V}
    BY <1>6, <2>1
  <2>4. IsFiniteSet(V)
    BY <1>1
  <2> QED BY <2>2, <2>3, <2>4, RenamedSize
<1>12. IsFiniteSet(v .. v + t - 1) /\ Cardinality(v .. v + t - 1) = t
  <2>1. v \in Int /\ v + t - 1 \in Int
    BY <1>8
  <2>2. Cardinality(v .. v + t - 1) = IF v > v + t - 1 THEN 0 ELSE (v + t - 1) - v + 1
    BY <2>1, FS_Interval
  <2>3. IsFiniteSet(v .. v + t - 1)
    BY <2>1, FS_Interval
  <2> QED BY <1>8, <2>2, <2>3
<1>13. PICK U : U = A \cup (v .. v + t - 1)
  OBVIOUS
<1>14. IsFiniteSet(U) /\ Cardinality(U) <= Cardinality(V) + t /\ Cardinality(U) \in Nat
  <2>1. PICK B : B = v .. v + t - 1
    OBVIOUS
  <2>2. IsFiniteSet(B) /\ Cardinality(B) = t
    BY <1>12, <2>1
  <2>3. IsFiniteSet(A \cup B) /\ Cardinality(A \cup B) = Cardinality(A) + Cardinality(B) - Cardinality(A \cap B)
    BY <1>11, <2>2, FS_Union
  <2>4. IsFiniteSet(A \cap B)
    BY <1>11, FS_Intersection
  <2>5. Cardinality(A \cap B) \in Nat /\ Cardinality(A) \in Nat /\ Cardinality(A \cup B) \in Nat
    BY <1>11, <2>3, <2>4, FS_CardinalityType
  <2> QED BY <1>8, <1>11, <1>13, <2>1, <2>2, <2>3, <2>5
<1>15. IsFiniteSet(S) /\ Cardinality(S) <= Cardinality(U)
  BY <1>10, <1>13, <1>14, FS_Subset
<1>16. Cardinality(S) \in Nat
  BY <1>15, FS_CardinalityType
<1>17. Len(Ascending(S)) = Cardinality(S)
  BY <1>16 DEF Ascending
<1>18. Len(ProgramVariables(V, Q)) <= Cardinality(V) + t
  <2>1. IsFiniteSet(V)
    BY <1>1
  <2>2. Cardinality(V) \in Nat
    BY <2>1, FS_CardinalityType
  <2> QED BY <1>4, <1>8, <1>14, <1>15, <1>16, <1>17, <2>2
<1>19. Len(ProgramVariables(V, Q)) \in Nat
  BY <1>4, <1>16, <1>17, Zenon
<1> QED BY <1>1, <1>2, <1>7, <1>18, <1>19, Zenon

(* Splitting takes no more spins than were estimated.                      *)
LEMMA SplitCount ==
  ASSUME NEW formula \in Formula, NEW k3, k3 = sat_kN_to_k3(formula, maxvar)
  PROVE  /\ k3.formula \in Seq(Clause) /\ k3.v \in Nat
         /\ IsFiniteSet(AllVariables(k3.formula)) /\ AllVariables(k3.formula) \subseteq Int
         /\ varcnt(k3.formula) = Cardinality(AllVariables(k3.formula)) + Cardinality(Threes(k3.formula))
         /\ varcnt(k3.formula) \in Nat
         /\ \A n \in Int : varcnt(formula) <= n => varcnt(k3.formula) <= n
<1>1. PICK L \in Nat : L = Len(formula) /\ DOMAIN formula = 1 .. L
  BY DEF Formula
<1>2. maxvar \in Nat
  BY KsatAssumption
<1>3. SplitTo(k3, formula, maxvar, L)
  BY <1>1, <1>2, SplitFormula
<1>4. PICK F, v, W, t, e : /\ F = k3.formula /\ v = k3.v /\ W = AllVariables(formula)
                           /\ t = Cardinality(Threes(F)) /\ e = SumFunctionOnSet(Estimates(formula), 1 .. L)
  OBVIOUS
<1>5. /\ F \in Seq(Clause) /\ v \in Nat /\ maxvar <= v
      /\ AllVariables(F) \subseteq W \cup (maxvar .. v - 1)
      /\ (v - maxvar) + t = e
  BY <1>3, <1>4 DEF SplitTo
<1>6. t \in Nat /\ SumFunction([k \in DOMAIN F |-> ancillary_counter(F[k])]) = t
  BY <1>4, <1>5, ThreesCounted
<1>7. W \subseteq 1 .. maxvar
  BY <1>4, FormulaVariables
<1>8. IsFiniteSet(W) /\ Cardinality(W) \in Nat
  BY <1>2, <1>7, PlacesFinite
<1>9. PICK N : N = maxvar .. v - 1
  OBVIOUS
<1>10. IsFiniteSet(N) /\ Cardinality(N) = v - maxvar
  <2>1. maxvar \in Int /\ v - 1 \in Int
    BY <1>2, <1>5
  <2>2. Cardinality(N) = IF maxvar > v - 1 THEN 0 ELSE (v - 1) - maxvar + 1
    BY <1>9, <2>1, FS_Interval
  <2>3. IsFiniteSet(N)
    BY <1>9, <2>1, FS_Interval
  <2> QED BY <1>2, <1>5, <2>2, <2>3
<1>11. IsFiniteSet(W \cup N) /\ Cardinality(W \cup N) = Cardinality(W) + Cardinality(N) - Cardinality(W \cap N)
  BY <1>8, <1>10, FS_Union
<1>12. Cardinality(W \cap N) \in Nat
  BY <1>8, FS_Intersection, FS_CardinalityType
<1>13. PICK A : A = AllVariables(F)
  OBVIOUS
<1>14. A \subseteq W \cup N
  BY <1>5, <1>9, <1>13
<1>15. IsFiniteSet(A) /\ Cardinality(A) <= Cardinality(W \cup N)
  BY <1>11, <1>14, FS_Subset
<1>16. Cardinality(A) \in Nat /\ Cardinality(W \cup N) \in Nat
  BY <1>11, <1>15, FS_CardinalityType
<1>17. A \subseteq Int
  BY <1>7, <1>9, <1>14
<1>18. varcnt(F) = Cardinality(A) + t
  BY <1>6, <1>13, Zenon DEF varcnt
<1>19. varcnt(formula) = Cardinality(W) + e
  BY <1>1, <1>4, Zenon DEF varcnt, Estimates, SumFunction
<1>20. \A n \in Int : varcnt(formula) <= n => varcnt(F) <= n
  BY <1>2, <1>5, <1>6, <1>8, <1>10, <1>11, <1>12, <1>15, <1>16, <1>18, <1>19
<1>21. varcnt(F) \in Nat
  BY <1>6, <1>16, <1>18
<1> QED BY <1>4, <1>5, <1>13, <1>15, <1>17, <1>18, <1>20, <1>21, Zenon

(* A formula goes on when its estimate fits, and its program then does.    *)
KsatFits ==
  /\ FormulaTypes
  /\ step \in {"freeze", "encode", "sample", "submit"}
  /\ step = "encode" => varcnt(surrogate_cnf) <= SOLVER_SPINS
  /\ step \in {"sample", "submit"} => Len(ProgramVariables(surrogate_vars, curr_Q)) <= SOLVER_SPINS

LEMMA TypesKept == ASSUME KsatKept, [KsatNext]_ksat PROVE FormulaTypes /\ FormulaTypes'
<1>1. KsatKept'
  BY KsatKeptStep
<1> QED BY <1>1 DEF KsatKept

LEMMA FitsInit == ASSUME KsatInit PROVE KsatFits
<1>1. FormulaTypes
  BY KsatKeptInit DEF KsatKept
<1> QED BY <1>1 DEF KsatInit, KsatFits

LEMMA FitsStep == ASSUME KsatFits, FormulaTypes', [KsatNext]_ksat PROVE KsatFits'
<1>1. ASSUME NEW node \in nodes, NEW value \in {0, 1}, Freeze(node, value) PROVE KsatFits'
  <2>1. step' = IF varcnt(surrogate_cnf') <= SOLVER_SPINS THEN "encode" ELSE "freeze"
    BY <1>1 DEF Freeze
  <2> QED BY <2>1 DEF KsatFits
<1>2. CASE Encode
  <2>1. PICK k3 : k3 = sat_kN_to_k3(surrogate_cnf, maxvar)
    OBVIOUS
  <2>2. /\ surrogate_vars' = AllVariables(k3.formula) /\ curr_Q' = get_idt(k3.formula, k3.v)
        /\ step' = IF varcnt(k3.formula) <= SOLVER_SPINS THEN "sample" ELSE "assertion failed"
    BY <1>2, <2>1, Zenon DEF Encode
  <2>3. surrogate_cnf \in Formula /\ varcnt(surrogate_cnf) <= SOLVER_SPINS /\ SOLVER_SPINS \in Int
    <3>1. step = "encode"
      BY <1>2, Zenon DEF Encode
    <3> QED BY <3>1, KsatAssumption DEF KsatFits, FormulaTypes
  <2>4. /\ k3.formula \in Seq(Clause) /\ k3.v \in Nat
        /\ IsFiniteSet(AllVariables(k3.formula)) /\ AllVariables(k3.formula) \subseteq Int
        /\ varcnt(k3.formula) = Cardinality(AllVariables(k3.formula)) + Cardinality(Threes(k3.formula))
        /\ varcnt(k3.formula) \in Nat
        /\ \A n \in Int : varcnt(surrogate_cnf) <= n => varcnt(k3.formula) <= n
    BY <2>1, <2>3, SplitCount
  <2>5. varcnt(k3.formula) <= SOLVER_SPINS
    BY <2>3, <2>4
  <2>6. PICK p : p = ProgramVariables(surrogate_vars', curr_Q')
    OBVIOUS
  <2>7. Len(p) \in Nat /\ Len(p) <= varcnt(k3.formula)
    BY <2>2, <2>4, <2>6, ProgramFits
  <2>8. Len(p) <= SOLVER_SPINS
    BY <2>3, <2>4, <2>5, <2>7
  <2>9. step' = "sample"
    BY <2>2, <2>5
  <2> QED BY <2>6, <2>8, <2>9 DEF KsatFits
<1>3. CASE Sample
  BY <1>3 DEF Sample, KsatFits
<1>4. CASE UNCHANGED ksat
  BY <1>4 DEF ksat, KsatFits
<1> QED BY <1>1, <1>2, <1>3, <1>4 DEF KsatNext, NameError

(* The clauses split as estimated: the assertion after the split never     *)
(* fails, and every variable of the program has a spin, for every formula  *)
(* and every size of the chip (sat_kN_to_k3, cobidualres_sample).          *)
THEOREM EstimateSuffices == KsatSpec => []FitsSpins
<1>1. KsatInit => KsatKept /\ KsatFits
  BY KsatKeptInit, FitsInit
<1>2. KsatKept /\ KsatFits /\ [KsatNext]_ksat => (KsatKept /\ KsatFits)'
  BY KsatKeptStep, TypesKept, FitsStep
<1>3. KsatFits => FitsSpins
  BY DEF KsatFits, FitsSpins
<1> QED BY <1>1, <1>2, <1>3, PTL DEF KsatSpec

------------------------------------------------------------------------------

(* What the program of a formula stands for, from the matrix back to the   *)
(* clauses: the energy of the matrix is the objective of the QUBO, the     *)
(* objective is worth one for each clause of at most three literals, and a *)
(* split clause is met like the clause, with one piece more for each new   *)
(* variable.                                                               *)

(* Sums over finite sets: a common factor, and the terms put together that *)
(* go to one place.                                                        *)
LEMMA SumScale ==
  ASSUME NEW S, IsFiniteSet(S), NEW f, NEW c \in Int, NEW g,
         \A x \in S : f[x] \in Int /\ g[x] = c * f[x]
  PROVE  SumFunctionOnSet(g, S) = c * SumFunctionOnSet(f, S)
<1> DEFINE T == {A \in SUBSET S : SumFunctionOnSet(g, A) # c * SumFunctionOnSet(f, A)}
<1> SUFFICES ASSUME T # {} PROVE FALSE
  OBVIOUS
<1>1. \A A \in T : IsFiniteSet(A)
  BY FS_Subset
<1>2. PICK A \in T : \A B \in T : B \subseteq A => B = A
  <2> HIDE DEF T
  <2> QED BY <1>1, SmallestSet
<1>3. A \subseteq S /\ SumFunctionOnSet(g, A) # c * SumFunctionOnSet(f, A)
  BY <1>2
<1>4. CASE A = {}
  BY <1>3, <1>4, SumEmpty
<1>5. CASE A # {}
  <2>1. PICK x \in A : TRUE
    BY <1>5
  <2>2. PICK B : B = A \ {x}
    OBVIOUS
  <2>3. \A e \in S : g[e] \in Int /\ f[e] \in Int
    OBVIOUS
  <2>4. IsFiniteSet(A) /\ IsFiniteSet(B) /\ (\A e \in A : g[e] \in Int) /\ \A e \in A : f[e] \in Int
    BY <1>3, <2>2, <2>3, FS_Subset
  <2>5. /\ SumFunctionOnSet(g, A) = g[x] + SumFunctionOnSet(g, B)
        /\ SumFunctionOnSet(f, A) = f[x] + SumFunctionOnSet(f, B)
    BY <2>1, <2>2, <2>4, SumElement
  <2>6. SumFunctionOnSet(g, B) = c * SumFunctionOnSet(f, B)
    BY <1>2, <2>1, <2>2
  <2>7. \A e \in B : f[e] \in Int
    BY <2>2, <2>4
  <2>8. PICK b \in Int : b = SumFunctionOnSet(f, B)
    BY <2>4, <2>7, SumInt
  <2>9. PICK a \in Int : a = f[x] /\ g[x] = c * a
    BY <1>3, <2>1
  <2>10. c * a + c * b = c * (a + b)
    OBVIOUS
  <2> QED BY <1>3, <2>5, <2>6, <2>8, <2>9, <2>10
<1> QED BY <1>4, <1>5

(* The sum of the elements that go to each place, put together, is the     *)
(* whole sum.                                                              *)
Fiber(S, to, u) == {x \in S : to[x] = u}

LEMMA SumFibers ==
  ASSUME NEW S, IsFiniteSet(S), NEW f, \A x \in S : f[x] \in Int,
         NEW to, NEW U, IsFiniteSet(U), \A x \in S : to[x] \in U,
         NEW g, \A u \in U : g[u] = SumFunctionOnSet(f, Fiber(S, to, u))
  PROVE  SumFunctionOnSet(g, U) = SumFunctionOnSet(f, S)
<1>1. PICK part : part = [u \in U |-> Fiber(S, to, u)]
  OBVIOUS
<1>2. \A u \in U : part[u] = Fiber(S, to, u) /\ part[u] = {x \in S : to[x] = u}
  BY <1>1 DEF Fiber
<1>3. \A u \in U : IsFiniteSet(part[u]) /\ \A x \in part[u] : f[x] \in Int
  BY <1>2, FS_Subset
<1>4. \A u, w \in U : u # w => part[u] \cap part[w] = {}
  BY <1>2
<1>5. UNION {part[u] : u \in U} = S
  BY <1>2
<1>6. SumFunctionOnSet(f, UNION {part[u] : u \in U}) = SumFunctionOnSet([u \in U |-> SumFunctionOnSet(f, part[u])], U)
  BY <1>3, <1>4, SumByParts
<1>7. \A u \in U : [w \in U |-> SumFunctionOnSet(f, part[w])][u] = g[u]
  BY <1>2
<1>8. SumFunctionOnSet([u \in U |-> SumFunctionOnSet(f, part[u])], U) = SumFunctionOnSet(g, U)
  BY <1>7, SumEqual
<1> QED BY <1>5, <1>6, <1>8

(* The matrix of a program in bits: the energy of spins is four times the  *)
(* objective of the bits, but for what all bits zero give.                 *)
Upper(n)    == {p \in (1 .. n) \X (1 .. n) : p[1] < p[2]}
Lower(n)    == {p \in (1 .. n) \X (1 .. n) : p[2] < p[1]}
Off(n)      == {p \in (1 .. n) \X (1 .. n) : p[1] # p[2]}

LEMMA GridFinite ==
  ASSUME NEW n \in Nat
  PROVE  /\ IsFiniteSet(1 .. n) /\ IsFiniteSet(Upper(n)) /\ IsFiniteSet(Lower(n)) /\ IsFiniteSet(Off(n))
         /\ IsFiniteSet(Pairs(n))
         /\ Off(n) = Upper(n) \cup Lower(n) /\ Upper(n) \cap Lower(n) = {}
<1>1. IsFiniteSet(1 .. n) /\ IsFiniteSet(0 .. n)
  BY FS_Interval
<1>2. IsFiniteSet((1 .. n) \X (1 .. n)) /\ IsFiniteSet((0 .. n) \X (0 .. n))
  BY <1>1, FS_Product
<1>3. IsFiniteSet(Upper(n)) /\ IsFiniteSet(Lower(n)) /\ IsFiniteSet(Off(n)) /\ IsFiniteSet(Pairs(n))
  BY <1>2, FS_Subset DEF Upper, Lower, Off, Pairs
<1>4. Off(n) = Upper(n) \cup Lower(n) /\ Upper(n) \cap Lower(n) = {}
  BY DEF Upper, Lower, Off
<1> QED BY <1>1, <1>3, <1>4

LEMMA PairFacts ==
  ASSUME NEW n \in Nat
  PROVE  /\ \A p \in Upper(n) : p[1] \in 1 .. n /\ p[2] \in 1 .. n /\ p[1] < p[2] /\ p = <<p[1], p[2]>>
         /\ \A p \in Lower(n) : p[1] \in 1 .. n /\ p[2] \in 1 .. n /\ p[2] < p[1] /\ p = <<p[1], p[2]>>
         /\ \A i, k \in 1 .. n : i < k => <<i, k>> \in Upper(n) /\ <<k, i>> \in Lower(n)
BY DEF Upper, Lower

(* The linear terms of an Ising program: a weight for each spin, and the   *)
(* share of each of its pairs.                                             *)
LinearSums(n, w, r, s, h, hs, lin, quad) ==
  /\ \A k \in 1 .. n : w[k] \in Int /\ s[k] \in {-1, 1}
  /\ \A p \in Off(n) : r[p] \in Int
  /\ \A i, k \in 1 .. n : i # k => r[<<i, k>>] = r[<<k, i>>]
  /\ \A k \in 1 .. n : h[k] = 2 * w[k] + SumFunctionOnSet(r, {p \in Off(n) : p[1] = k})
  /\ \A k \in 1 .. n : hs[k] = h[k] * s[k]
  /\ \A k \in 1 .. n : lin[k] = 2 * w[k] * s[k]
  /\ \A p \in Upper(n) : quad[p] = r[p] * (s[p[1]] + s[p[2]])

LEMMA LinearPart ==
  ASSUME NEW n \in Nat, NEW w, NEW r, NEW s, NEW h, NEW hs, NEW lin, NEW quad,
         LinearSums(n, w, r, s, h, hs, lin, quad)
  PROVE  SumFunctionOnSet(hs, 1 .. n) = SumFunctionOnSet(lin, 1 .. n) + SumFunctionOnSet(quad, Upper(n))
<1>1. /\ IsFiniteSet(1 .. n) /\ IsFiniteSet(Upper(n)) /\ IsFiniteSet(Lower(n)) /\ IsFiniteSet(Off(n))
      /\ Off(n) = Upper(n) \cup Lower(n) /\ Upper(n) \cap Lower(n) = {}
  BY GridFinite
<1>2. PICK f : f = [p \in Off(n) |-> r[p] * s[p[1]]]
  OBVIOUS
<1>3. PICK g : g = [k \in 1 .. n |-> SumFunctionOnSet(f, {p \in Off(n) : p[1] = k})]
  OBVIOUS
<1>4. \A p \in Off(n) : p[1] \in 1 .. n /\ p[2] \in 1 .. n /\ f[p] = r[p] * s[p[1]] /\ f[p] \in Int
  <2> SUFFICES ASSUME NEW p \in Off(n)
               PROVE  /\ p[1] \in 1 .. n /\ p[2] \in 1 .. n
                      /\ f[p] = r[p] * s[p[1]] /\ f[p] \in Int
    OBVIOUS
  <2>1. p[1] \in 1 .. n /\ p[2] \in 1 .. n
    BY DEF Off
  <2>2. r[p] \in Int /\ s[p[1]] \in {-1, 1}
    BY <2>1 DEF LinearSums
  <2> QED BY <1>2, <2>1, <2>2
<1>5. \A k \in 1 .. n : hs[k] = lin[k] + g[k] /\ g[k] \in Int /\ lin[k] \in Int
  <2> SUFFICES ASSUME NEW k \in 1 .. n PROVE hs[k] = lin[k] + g[k] /\ g[k] \in Int /\ lin[k] \in Int
    OBVIOUS
  <2>1. PICK P : P = {p \in Off(n) : p[1] = k}
    OBVIOUS
  <2>2. IsFiniteSet(P)
    BY <1>1, <2>1, FS_Subset
  <2>3. s[k] \in Int /\ w[k] \in Int /\ s[k] \in {-1, 1}
    BY DEF LinearSums
  <2>4. \A p \in P : r[p] \in Int /\ f[p] = s[k] * r[p]
    BY <1>4, <2>1, <2>3 DEF LinearSums
  <2>5. SumFunctionOnSet(f, P) = s[k] * SumFunctionOnSet(r, P)
    BY <2>2, <2>3, <2>4, SumScale
  <2>6. \A p \in P : r[p] \in Int
    BY <2>4
  <2>7. PICK a \in Int : a = SumFunctionOnSet(r, P)
    BY <2>2, <2>6, SumInt
  <2>8. h[k] = 2 * w[k] + a /\ g[k] = s[k] * a
    BY <1>3, <2>1, <2>5, <2>7 DEF LinearSums
  <2>9. PICK c \in {-1, 1}, u \in Int : c = s[k] /\ u = w[k]
    BY <2>3
  <2>10. hs[k] = (2 * u + a) * c /\ lin[k] = 2 * u * c /\ g[k] = c * a
    BY <2>8, <2>9 DEF LinearSums
  <2> QED BY <2>10
<1>6. SumFunctionOnSet(hs, 1 .. n) = SumFunctionOnSet(lin, 1 .. n) + SumFunctionOnSet(g, 1 .. n)
  <2>1. PICK N : N = 1 .. n
    OBVIOUS
  <2>2. \A k \in N : lin[k] \in Int /\ g[k] \in Int /\ hs[k] = lin[k] + g[k]
    BY <1>5, <2>1
  <2>3. IsFiniteSet(N)
    BY <1>1, <2>1
  <2>4. SumFunctionOnSet(hs, N) = SumFunctionOnSet(lin, N) + SumFunctionOnSet(g, N)
    BY <2>2, <2>3, SumAdd
  <2> QED BY <2>1, <2>4
<1>7. SumFunctionOnSet(g, 1 .. n) = SumFunctionOnSet(f, Off(n))
  <2>1. PICK to : to = [p \in Off(n) |-> p[1]]
    OBVIOUS
  <2>2. PICK N : N = 1 .. n
    OBVIOUS
  <2>3. IsFiniteSet(N) /\ IsFiniteSet(Off(n)) /\ \A p \in Off(n) : to[p] \in N
    BY <1>1, <1>4, <2>1, <2>2
  <2>4. \A k \in 1 .. n : Fiber(Off(n), to, k) = {p \in Off(n) : p[1] = k}
    BY <2>1 DEF Fiber
  <2>5. \A k \in N : g[k] = SumFunctionOnSet(f, Fiber(Off(n), to, k))
    BY <1>3, <2>4, <2>2
  <2>6. \A p \in Off(n) : f[p] \in Int
    BY <1>4
  <2>7. SumFunctionOnSet(g, N) = SumFunctionOnSet(f, Off(n))
    BY <2>3, <2>5, <2>6, SumFibers
  <2> QED BY <2>7, <2>2
<1>8. SumFunctionOnSet(f, Off(n)) = SumFunctionOnSet(f, Upper(n)) + SumFunctionOnSet(f, Lower(n))
  BY <1>1, <1>4, SumUnion
<1>9. PICK m : m = [p \in Upper(n) |-> f[<<p[2], p[1]>>]]
  OBVIOUS
<1>10. SumFunctionOnSet(m, Upper(n)) = SumFunctionOnSet(f, Lower(n))
  <2>1. PICK to : to = [p \in Lower(n) |-> <<p[2], p[1]>>]
    OBVIOUS
  <2>2. \A p \in Lower(n) : f[p] \in Int
    BY <1>1, <1>4
  <2>3. \A p, q \in Lower(n) : to[p] = to[q] => p = q
    BY <2>1, PairFacts
  <2>4. \A p \in Lower(n) : to[p] \in Upper(n) /\ m[to[p]] = f[p]
    BY <1>9, <2>1, PairFacts
  <2>5. \A u \in Upper(n) : \E p \in Lower(n) : u = to[p]
    <3> SUFFICES ASSUME NEW u \in Upper(n) PROVE \E p \in Lower(n) : u = to[p]
      OBVIOUS
    <3>1. PICK i \in 1 .. n, k \in 1 .. n : u = <<i, k>> /\ i < k
      BY PairFacts
    <3>2. <<k, i>> \in Lower(n)
      BY <3>1, PairFacts
    <3>3. to[<<k, i>>] = <<i, k>>
      BY <2>1, <3>2
    <3> QED BY <3>1, <3>2, <3>3
  <2>6. IsFiniteSet(Lower(n))
    BY <1>1
  <2> QED BY <2>2, <2>3, <2>4, <2>5, <2>6, SumRename
<1>11. \A p \in Upper(n) : f[p] \in Int /\ m[p] \in Int /\ quad[p] = f[p] + m[p]
  <2> SUFFICES ASSUME NEW p \in Upper(n) PROVE f[p] \in Int /\ m[p] \in Int /\ quad[p] = f[p] + m[p]
    OBVIOUS
  <2>1. PICK i \in 1 .. n, k \in 1 .. n : p = <<i, k>> /\ i < k
    BY PairFacts
  <2>2. <<k, i>> \in Off(n) /\ <<i, k>> \in Off(n)
    BY <1>1, <2>1, PairFacts
  <2>3. m[p] = f[<<k, i>>] /\ f[<<k, i>>] = r[<<k, i>>] * s[k] /\ f[p] = r[<<i, k>>] * s[i]
    BY <1>4, <1>9, <2>1, <2>2
  <2>4. quad[p] = r[<<i, k>>] * (s[i] + s[k]) /\ r[<<i, k>>] = r[<<k, i>>]
    BY <2>1 DEF LinearSums
  <2>5. PICK a \in Int, c \in {-1, 1}, d \in {-1, 1} : a = r[<<i, k>>] /\ c = s[i] /\ d = s[k]
    BY <2>2 DEF LinearSums
  <2>6. f[p] = a * c /\ m[p] = a * d /\ quad[p] = a * (c + d)
    BY <2>3, <2>4, <2>5
  <2> QED BY <2>6
<1>12. SumFunctionOnSet(quad, Upper(n)) = SumFunctionOnSet(f, Upper(n)) + SumFunctionOnSet(m, Upper(n))
  BY <1>1, <1>11, SumAdd
<1> QED BY <1>6, <1>7, <1>8, <1>10, <1>12

(* The sum of one function and a multiple of two others.                   *)
Combined(S, c, f, d, g, h) == \A i \in S : f[i] \in Int /\ g[i] \in Int /\ h[i] = c * f[i] + d * g[i]

LEMMA SumCombined ==
  ASSUME NEW S, IsFiniteSet(S), NEW f, NEW g, NEW c \in Int, NEW d \in Int, NEW h, Combined(S, c, f, d, g, h)
  PROVE  /\ SumFunctionOnSet(f, S) \in Int /\ SumFunctionOnSet(g, S) \in Int
         /\ SumFunctionOnSet(h, S) = c * SumFunctionOnSet(f, S) + d * SumFunctionOnSet(g, S)
<1>1. PICK cf : cf = [i \in S |-> c * f[i]]
  OBVIOUS
<1>2. PICK dg : dg = [i \in S |-> d * g[i]]
  OBVIOUS
<1>3. \A i \in S : f[i] \in Int /\ cf[i] = c * f[i]
  BY <1>1 DEF Combined
<1>4. \A i \in S : g[i] \in Int /\ dg[i] = d * g[i]
  BY <1>2 DEF Combined
<1>5. \A i \in S : cf[i] \in Int /\ dg[i] \in Int /\ h[i] = cf[i] + dg[i]
  <2> SUFFICES ASSUME NEW i \in S PROVE cf[i] \in Int /\ dg[i] \in Int /\ h[i] = cf[i] + dg[i]
    OBVIOUS
  <2>1. PICK a \in Int, b \in Int : a = f[i] /\ b = g[i] /\ h[i] = c * a + d * b
    BY DEF Combined
  <2>2. c * a \in Int /\ d * b \in Int
    OBVIOUS
  <2> QED BY <1>3, <1>4, <2>1, <2>2
<1>6. SumFunctionOnSet(h, S) = SumFunctionOnSet(cf, S) + SumFunctionOnSet(dg, S)
  BY <1>5, SumAdd
<1>7. SumFunctionOnSet(cf, S) = c * SumFunctionOnSet(f, S)
  BY <1>3, SumScale
<1>8. SumFunctionOnSet(dg, S) = d * SumFunctionOnSet(g, S)
  BY <1>4, SumScale
<1>9. \A i \in S : f[i] \in Int
  BY DEF Combined
<1>10. \A i \in S : g[i] \in Int
  BY DEF Combined
<1> QED BY <1>6, <1>7, <1>8, <1>9, <1>10, SumInt

(* An Ising program written with bits in place of spins.                   *)
BitSums(n, w, r, b, s, J, e, wb, rb) ==
  /\ s[0] = 1
  /\ \A k \in 1 .. n : w[k] \in Int /\ b[k] \in {0, 1} /\ s[k] = 2 * b[k] - 1 /\ wb[k] = w[k] * b[k]
  /\ \A p \in Off(n) : r[p] \in Int
  /\ \A i, k \in 1 .. n : i # k => r[<<i, k>>] = r[<<k, i>>]
  /\ \A k \in 1 .. n : J[<<0, k>>] = 2 * w[k] + SumFunctionOnSet(r, {p \in Off(n) : p[1] = k})
  /\ \A p \in Upper(n) : J[p] = r[p] /\ rb[p] = r[p] * b[p[1]] * b[p[2]]
  /\ \A p \in Pairs(n) : e[p] = J[p] * s[p[1]] * s[p[2]]

LEMMA SpinsToBits ==
  ASSUME NEW n \in Nat, NEW w, NEW r, NEW b, NEW s, NEW J, NEW e, NEW wb, NEW rb,
         BitSums(n, w, r, b, s, J, e, wb, rb)
  PROVE  SumFunctionOnSet(e, Pairs(n)) =
           4 * (SumFunctionOnSet(wb, 1 .. n) + SumFunctionOnSet(rb, Upper(n)))
             - (2 * SumFunctionOnSet(w, 1 .. n) + SumFunctionOnSet(r, Upper(n)))
<1>1. PICK h : h = [k \in 1 .. n |-> J[<<0, k>>]]
  OBVIOUS
<1>2. PICK hs : hs = [k \in 1 .. n |-> h[k] * s[k]]
  OBVIOUS
<1>3. PICK lin : lin = [k \in 1 .. n |-> 2 * w[k] * s[k]]
  OBVIOUS
<1>4. PICK quad : quad = [p \in Upper(n) |-> r[p] * (s[p[1]] + s[p[2]])]
  OBVIOUS
<1>5. PICK N, U : N = 1 .. n /\ U = Upper(n)
  OBVIOUS
<1>6. IsFiniteSet(N) /\ IsFiniteSet(U) /\ U \subseteq Off(n)
  BY <1>5, GridFinite
<1>7. \A k \in 1 .. n : /\ w[k] \in Int /\ s[k] \in {-1, 1} /\ b[k] \in {0, 1}
                          /\ s[k] = 2 * b[k] - 1 /\ wb[k] = w[k] * b[k]
  BY DEF BitSums
<1>8. LinearSums(n, w, r, s, h, hs, lin, quad)
  <2>1. \A k \in 1 .. n : w[k] \in Int /\ s[k] \in {-1, 1}
    BY <1>7
  <2>2. \A k \in 1 .. n : h[k] = 2 * w[k] + SumFunctionOnSet(r, {p \in Off(n) : p[1] = k})
    BY <1>1 DEF BitSums
  <2>3. \A p \in Off(n) : r[p] \in Int
    BY DEF BitSums
  <2>4. \A i, k \in 1 .. n : i # k => r[<<i, k>>] = r[<<k, i>>]
    BY DEF BitSums
  <2>5. \A k \in 1 .. n : hs[k] = h[k] * s[k]
    BY <1>2
  <2>6. \A k \in 1 .. n : lin[k] = 2 * w[k] * s[k]
    BY <1>3
  <2>7. \A p \in Upper(n) : quad[p] = r[p] * (s[p[1]] + s[p[2]])
    BY <1>4
  <2> QED BY <2>1, <2>2, <2>3, <2>4, <2>5, <2>6, <2>7, Zenon DEF LinearSums
<1>9. SumFunctionOnSet(hs, N) = SumFunctionOnSet(lin, N) + SumFunctionOnSet(quad, U)
  <2>1. SumFunctionOnSet(hs, 1 .. n) = SumFunctionOnSet(lin, 1 .. n) + SumFunctionOnSet(quad, Upper(n))
    BY <1>8, LinearPart
  <2> QED BY <1>5, <2>1, Zenon
<1>10. PICK Z : Z = {<<0, k>> : k \in 1 .. n}
  OBVIOUS
<1>11. Pairs(n) = Z \cup U /\ Z \cap U = {}
  <2>1. \A p \in Pairs(n) : p[1] = 0 => p \in Z
    BY <1>10 DEF Pairs
  <2>2. \A p \in Pairs(n) : p[1] # 0 => p \in U
    BY <1>5 DEF Pairs, Upper
  <2>3. Z \subseteq Pairs(n) /\ U \subseteq Pairs(n)
    BY <1>5, <1>10 DEF Pairs, Upper
  <2>4. \A p \in Z : p \notin U
    BY <1>5, <1>10 DEF Upper
  <2> QED BY <2>1, <2>2, <2>3, <2>4
<1>12. /\ \A k \in 1 .. n : e[<<0, k>>] = hs[k] /\ hs[k] \in Int
       /\ \A p \in U : e[p] \in Int /\ quad[p] \in Int /\ r[p] \in Int /\ rb[p] \in Int
                       /\ e[p] + quad[p] = 4 * rb[p] + (-1) * r[p]
  <2>1. ASSUME NEW k \in 1 .. n PROVE e[<<0, k>>] = hs[k] /\ hs[k] \in Int
    <3>1. <<0, k>> \in Pairs(n)
      BY DEF Pairs
    <3>2. e[<<0, k>>] = h[k] * s[0] * s[k] /\ s[0] = 1
      BY <1>1, <3>1 DEF BitSums
    <3>3. PICK P : P = {p \in Off(n) : p[1] = k}
      OBVIOUS
    <3>4. IsFiniteSet(P) /\ \A p \in P : r[p] \in Int
      BY <3>3, GridFinite, FS_Subset DEF BitSums
    <3>5. PICK a \in Int : a = SumFunctionOnSet(r, P)
      BY <3>4, SumInt
    <3>6. h[k] = 2 * w[k] + a
      BY <1>1, <3>3, <3>5 DEF BitSums
    <3>7. h[k] \in Int /\ s[k] \in Int
      BY <1>7, <3>6
    <3> QED BY <1>2, <3>2, <3>7
  <2>2. ASSUME NEW p \in U
        PROVE  /\ e[p] \in Int /\ quad[p] \in Int /\ r[p] \in Int /\ rb[p] \in Int
               /\ e[p] + quad[p] = 4 * rb[p] + (-1) * r[p]
    <3>1. p[1] \in 1 .. n /\ p[2] \in 1 .. n
      BY <1>5, PairFacts
    <3>2. PICK c \in {0, 1}, d \in {0, 1} : c = b[p[1]] /\ d = b[p[2]] /\ s[p[1]] = 2 * c - 1 /\ s[p[2]] = 2 * d - 1
      BY <1>7, <3>1
    <3>3. PICK a \in Int : a = r[p]
      BY <1>6 DEF BitSums
    <3>4. e[p] = a * (2 * c - 1) * (2 * d - 1)
      BY <1>5, <1>11, <3>2, <3>3 DEF BitSums
    <3>5. quad[p] = a * ((2 * c - 1) + (2 * d - 1)) /\ rb[p] = a * c * d
      BY <1>4, <1>5, <3>2, <3>3 DEF BitSums
    <3>6. PICK ac \in Int, ad \in Int, acd \in Int : ac = a * c /\ ad = a * d /\ acd = a * c * d
      OBVIOUS
    <3>7. e[p] = 4 * acd - 2 * ac - 2 * ad + a
      BY <3>2, <3>4, <3>6
    <3>8. quad[p] = 2 * ac + 2 * ad - 2 * a
      <4>1. a * ((2 * c - 1) + (2 * d - 1)) = 2 * (a * c) + 2 * (a * d) - 2 * a
        OBVIOUS
      <4> QED BY <3>5, <3>6, <4>1
    <3>9. rb[p] = acd /\ r[p] = a
      BY <3>3, <3>5, <3>6
    <3> QED BY <3>7, <3>8, <3>9
  <2> QED BY <2>1, <2>2
<1>13. SumFunctionOnSet(e, Z) = SumFunctionOnSet(hs, N) /\ IsFiniteSet(Z)
  <2>1. PICK to : to = [k \in N |-> <<0, k>>]
    OBVIOUS
  <2>2. \A i, k \in N : to[i] = to[k] => i = k
    BY <2>1
  <2>3. \A k \in N : to[k] \in Z /\ e[to[k]] = hs[k]
    BY <1>5, <1>10, <1>12, <2>1
  <2>4. \A u \in Z : \E k \in N : u = to[k]
    BY <1>5, <1>10, <2>1
  <2>5. \A k \in N : hs[k] \in Int
    BY <1>5, <1>12
  <2>6. SumFunctionOnSet(e, Z) = SumFunctionOnSet(hs, N)
    BY <1>6, <2>2, <2>3, <2>4, <2>5, SumRename
  <2>7. Z = {to[k] : k \in N}
    BY <1>5, <1>10, <2>1
  <2>8. IsFiniteSet(Z)
    BY <1>6, <2>7, ImageFinite
  <2> QED BY <2>6, <2>8
<1>14. SumFunctionOnSet(e, Pairs(n)) = SumFunctionOnSet(e, Z) + SumFunctionOnSet(e, U)
  <2>1. \A p \in Z \cup U : e[p] \in Int
    BY <1>10, <1>12
  <2> QED BY <1>6, <1>11, <1>13, <2>1, SumUnion
<1>15. /\ SumFunctionOnSet(wb, N) \in Int /\ SumFunctionOnSet(w, N) \in Int
       /\ SumFunctionOnSet(lin, N) = 4 * SumFunctionOnSet(wb, N) + (-2) * SumFunctionOnSet(w, N)
  <2>1. \A k \in N : wb[k] \in Int /\ w[k] \in Int /\ lin[k] = 4 * wb[k] + (-2) * w[k]
    <3> SUFFICES ASSUME NEW k \in N PROVE wb[k] \in Int /\ w[k] \in Int /\ lin[k] = 4 * wb[k] + (-2) * w[k]
      OBVIOUS
    <3>1. PICK a \in Int, c \in {0, 1} : a = w[k] /\ c = b[k] /\ s[k] = 2 * c - 1 /\ wb[k] = a * c
      BY <1>5, <1>7
    <3>2. lin[k] = 2 * a * (2 * c - 1)
      BY <1>3, <1>5, <3>1
    <3> QED BY <3>1, <3>2
  <2>2. PICK c \in Int, d \in Int : c = 4 /\ d = -2
    OBVIOUS
  <2>3. Combined(N, c, wb, d, w, lin)
    BY <2>1, <2>2 DEF Combined
  <2>4. /\ SumFunctionOnSet(wb, N) \in Int /\ SumFunctionOnSet(w, N) \in Int
        /\ SumFunctionOnSet(lin, N) = c * SumFunctionOnSet(wb, N) + d * SumFunctionOnSet(w, N)
    BY <1>6, <2>3, SumCombined
  <2> QED BY <2>2, <2>4
<1>16. /\ SumFunctionOnSet(rb, U) \in Int /\ SumFunctionOnSet(r, U) \in Int
       /\ SumFunctionOnSet(e, U) \in Int /\ SumFunctionOnSet(quad, U) \in Int
       /\ SumFunctionOnSet(e, U) + SumFunctionOnSet(quad, U) =
             4 * SumFunctionOnSet(rb, U) + (-1) * SumFunctionOnSet(r, U)
  <2>1. PICK v : v = [p \in U |-> e[p] + quad[p]]
    OBVIOUS
  <2>2. PICK one \in Int, c \in Int, d \in Int : one = 1 /\ c = 4 /\ d = -1
    OBVIOUS
  <2>3. Combined(U, one, e, one, quad, v)
    BY <1>12, <2>1, <2>2 DEF Combined
  <2>4. Combined(U, c, rb, d, r, v)
    BY <1>12, <2>1, <2>2 DEF Combined
  <2>5. /\ SumFunctionOnSet(e, U) \in Int /\ SumFunctionOnSet(quad, U) \in Int
        /\ SumFunctionOnSet(v, U) = one * SumFunctionOnSet(e, U) + one * SumFunctionOnSet(quad, U)
    BY <1>6, <2>3, SumCombined
  <2>6. /\ SumFunctionOnSet(rb, U) \in Int /\ SumFunctionOnSet(r, U) \in Int
        /\ SumFunctionOnSet(v, U) = c * SumFunctionOnSet(rb, U) + d * SumFunctionOnSet(r, U)
    BY <1>6, <2>4, SumCombined
  <2> QED BY <2>2, <2>5, <2>6
<1>17. PICK A, B, C, D, E, F, G : /\ A = SumFunctionOnSet(wb, N) /\ B = SumFunctionOnSet(w, N)
                                  /\ C = SumFunctionOnSet(rb, U) /\ D = SumFunctionOnSet(r, U)
                                  /\ E = SumFunctionOnSet(e, U) /\ F = SumFunctionOnSet(quad, U)
                                  /\ G = SumFunctionOnSet(e, Pairs(n))
  OBVIOUS
<1>18. G = (4 * A + (-2) * B + F) + E
  BY <1>9, <1>13, <1>14, <1>15, <1>17
<1>19. A \in Int /\ B \in Int /\ C \in Int /\ D \in Int /\ E \in Int /\ F \in Int /\ E + F = 4 * C + (-1) * D
  BY <1>15, <1>16, <1>17
<1>20. G = 4 * (A + C) - (2 * B + D)
  BY <1>18, <1>19
<1> QED BY <1>5, <1>17, <1>20

(* A QUBO whose coefficients are at ordered pairs, those other than 0 at   *)
(* pairs from a set.                                                       *)
Coeff(Q, a, b) == IF <<a, b>> \in DOMAIN Q THEN Q[<<a, b>>] ELSE 0
QuboOver(Q, S) ==
  /\ IsFiniteSet(DOMAIN Q)
  /\ \A p \in DOMAIN Q : /\ p = <<p[1], p[2]>> /\ p[1] \in Int /\ p[2] \in Int /\ p[1] <= p[2]
                         /\ Q[p] \in Int /\ (Q[p] # 0 => p[1] \in S /\ p[2] \in S)

LEMMA CoeffFacts ==
  ASSUME NEW S, NEW Q, QuboOver(Q, S)
  PROVE  /\ \A a, b : Coeff(Q, a, b) \in Int
         /\ \A a, b \in Int : b < a => Coeff(Q, a, b) = 0
<1>1. ASSUME NEW a, NEW b PROVE Coeff(Q, a, b) \in Int
  <2>1. CASE <<a, b>> \in DOMAIN Q
    BY <2>1 DEF QuboOver, Coeff
  <2>2. CASE <<a, b>> \notin DOMAIN Q
    BY <2>2 DEF Coeff
  <2> QED BY <2>1, <2>2
<1>2. ASSUME NEW a \in Int, NEW b \in Int, b < a PROVE Coeff(Q, a, b) = 0
  <2>1. <<a, b>> \notin DOMAIN Q
    <3> SUFFICES ASSUME <<a, b>> \in DOMAIN Q PROVE FALSE
      OBVIOUS
    <3>1. <<a, b>>[1] <= <<a, b>>[2]
      BY DEF QuboOver
    <3> QED BY <1>2, <3>1
  <2> QED BY <2>1 DEF Coeff
<1> QED BY <1>1, <1>2

(* The coefficients of a QUBO by the places of its variables in a tuple.   *)
Weighted(Q, t, n) == [k \in 1 .. n |-> Coeff(Q, t[k], t[k])]
Crossed(Q, t, n)  == [p \in Off(n) |-> Coeff(Q, t[p[1]], t[p[2]]) + Coeff(Q, t[p[2]], t[p[1]])]

LEMMA AscendingRange == ASSUME NEW S, IsFiniteSet(S), S \subseteq Int PROVE Range(Ascending(S)) = S
<1>1. PICK t, N : t = Ascending(S) /\ N = 1 .. Cardinality(S)
  OBVIOUS
<1>2. t \in [N -> S] /\ \A i \in S : \E k \in N : t[k] = i
  BY <1>1, AscendingFacts
<1>3. Range(t) = S
  BY <1>2 DEF Range
<1> QED BY <1>1, <1>3

(* The matrix ksat_submit fills (qubo_to_ising): twice the coefficients    *)
(* and all of their pairs next to the constant spin, the coefficients of   *)
(* the pairs elsewhere.                                                    *)
IsingParts(Q, t, n, J, w, r) ==
  /\ n \in Nat /\ Len(t) = n
  /\ \A k \in 1 .. n : w[k] \in Int
  /\ \A p \in Off(n) : r[p] \in Int
  /\ \A i, k \in 1 .. n : i # k => r[<<i, k>>] = r[<<k, i>>]
  /\ \A k \in 1 .. n : J[<<0, k>>] = 2 * w[k] + SumFunctionOnSet(r, {p \in Off(n) : p[1] = k})
  /\ \A p \in Upper(n) : J[p] = r[p] /\ r[p] = Coeff(Q, t[p[1]], t[p[2]])
  /\ DOMAIN J = {p \in (0 .. n) \X (1 .. n) : p[1] < p[2]}

LEMMA IsingWeights ==
  ASSUME NEW S, IsFiniteSet(S), S \subseteq Int, NEW Q, QuboOver(Q, S),
         NEW t, t = Ascending(S), NEW n, n = Cardinality(S), NEW J, J = Ising(Q, t)
  PROVE  IsingParts(Q, t, n, J, Weighted(Q, t, n), Crossed(Q, t, n))
<1>1. PICK w, r : w = Weighted(Q, t, n) /\ r = Crossed(Q, t, n)
  OBVIOUS
<1>2. /\ n \in Nat /\ t \in [1 .. n -> S]
      /\ \A a, b \in 1 .. n : a < b => t[a] < t[b]
      /\ \A a, b \in 1 .. n : t[a] = t[b] => a = b
      /\ \A i \in S : \E k \in 1 .. n : t[k] = i
  BY AscendingFacts
<1>3. Len(t) = n
  BY <1>2 DEF Ascending
<1>4. \A k \in 1 .. n : w[k] = Coeff(Q, t[k], t[k]) /\ w[k] \in Int
  BY <1>1, CoeffFacts DEF Weighted
<1>5. \A p \in Off(n) : r[p] = Coeff(Q, t[p[1]], t[p[2]]) + Coeff(Q, t[p[2]], t[p[1]]) /\ r[p] \in Int
  <2> SUFFICES ASSUME NEW p \in Off(n)
               PROVE  r[p] = Coeff(Q, t[p[1]], t[p[2]]) + Coeff(Q, t[p[2]], t[p[1]]) /\ r[p] \in Int
    OBVIOUS
  <2>1. r[p] = Coeff(Q, t[p[1]], t[p[2]]) + Coeff(Q, t[p[2]], t[p[1]])
    BY <1>1 DEF Crossed
  <2>2. Coeff(Q, t[p[1]], t[p[2]]) \in Int /\ Coeff(Q, t[p[2]], t[p[1]]) \in Int
    BY CoeffFacts
  <2> QED BY <2>1, <2>2
<1>6. \A i, k \in 1 .. n : i # k => r[<<i, k>>] = Coeff(Q, t[i], t[k]) + Coeff(Q, t[k], t[i])
  <2> SUFFICES ASSUME NEW i \in 1 .. n, NEW k \in 1 .. n, i # k
               PROVE  r[<<i, k>>] = Coeff(Q, t[i], t[k]) + Coeff(Q, t[k], t[i])
    OBVIOUS
  <2>1. <<i, k>> \in Off(n)
    BY DEF Off
  <2> QED BY <1>5, <2>1
<1>7. \A i, k \in 1 .. n : i # k => r[<<i, k>>] = r[<<k, i>>]
  <2> SUFFICES ASSUME NEW i \in 1 .. n, NEW k \in 1 .. n, i # k PROVE r[<<i, k>>] = r[<<k, i>>]
    OBVIOUS
  <2>1. PICK a \in Int, b \in Int : a = Coeff(Q, t[i], t[k]) /\ b = Coeff(Q, t[k], t[i])
    BY CoeffFacts
  <2>2. r[<<i, k>>] = a + b /\ r[<<k, i>>] = b + a
    BY <1>6, <2>1
  <2> QED BY <2>2
<1>8. PICK D : D = {p \in (0 .. n) \X (1 .. n) : p[1] < p[2]}
  OBVIOUS
<1> DEFINE others(a) == [b \in Range(t) \ {a} |-> Coeff(Q, a, b) + Coeff(Q, b, a)]
           h(a) == 2 * Coeff(Q, a, a) + SumFunction(others(a))
<1>9. J = [p \in D |-> IF p[1] = 0 THEN h(t[p[2]]) ELSE Coeff(Q, t[p[1]], t[p[2]])]
  BY <1>3, <1>8, Zenon DEF Ising, Coeff
<1>10. Range(t) = S
  BY AscendingRange
<1>11. ASSUME NEW k \in 1 .. n
       PROVE  J[<<0, k>>] = 2 * w[k] + SumFunctionOnSet(r, {p \in Off(n) : p[1] = k})
  <2>1. PICK a \in S : a = t[k]
    BY <1>2
  <2>2. <<0, k>> \in D
    BY <1>2, <1>8
  <2>3. J[<<0, k>>] = h(a)
    <3> HIDE DEF h
    <3> QED BY <1>9, <2>1, <2>2
  <2>4. PICK P : P = {p \in Off(n) : p[1] = k}
    OBVIOUS
  <2>5. PICK f : f = others(a)
    OBVIOUS
  <2>6. PICK T : T = S \ {a}
    OBVIOUS
  <2>7. SumFunction(f) = SumFunctionOnSet(f, T)
    BY <1>10, <2>5, <2>6 DEF SumFunction
  <2>8. PICK to : to = [p \in P |-> t[p[2]]]
    OBVIOUS
  <2>9. \A p \in P : p = <<k, p[2]>> /\ p[2] \in 1 .. n /\ p[2] # k
    BY <2>4 DEF Off
  <2>10. IsFiniteSet(P) /\ \A p \in P : r[p] \in Int
    BY <1>2, <1>5, <2>4, GridFinite, FS_Subset
  <2>11. \A p, q \in P : to[p] = to[q] => p = q
    BY <1>2, <2>8, <2>9
  <2>12. \A p \in P : to[p] \in T /\ f[to[p]] = r[p]
    <3> SUFFICES ASSUME NEW p \in P PROVE to[p] \in T /\ f[to[p]] = r[p]
      OBVIOUS
    <3>1. PICK i \in 1 .. n : i # k /\ p = <<k, i>>
      BY <2>9
    <3>2. to[p] = t[i] /\ t[i] \in S /\ t[i] # a
      BY <1>2, <2>1, <2>8, <3>1
    <3>3. f[t[i]] = Coeff(Q, a, t[i]) + Coeff(Q, t[i], a)
      BY <1>10, <2>5, <3>2
    <3>4. r[p] = Coeff(Q, t[k], t[i]) + Coeff(Q, t[i], t[k])
      BY <1>6, <3>1
    <3> QED BY <2>1, <2>6, <3>2, <3>3, <3>4
  <2>13. \A b \in T : \E p \in P : b = to[p]
    <3> SUFFICES ASSUME NEW b \in T PROVE \E p \in P : b = to[p]
      OBVIOUS
    <3>1. PICK i \in 1 .. n : t[i] = b /\ i # k
      BY <1>2, <2>1, <2>6
    <3>2. <<k, i>> \in P
      BY <2>4, <3>1 DEF Off
    <3>3. to[<<k, i>>] = b
      BY <2>8, <3>1, <3>2
    <3> QED BY <3>2, <3>3
  <2>14. SumFunctionOnSet(f, T) = SumFunctionOnSet(r, P)
    BY <2>10, <2>11, <2>12, <2>13, SumRename
  <2>15. h(a) = 2 * w[k] + SumFunction(f)
    BY <1>4, <2>1, <2>5
  <2> QED BY <2>3, <2>4, <2>7, <2>14, <2>15
<1>12. ASSUME NEW p \in Upper(n) PROVE J[p] = r[p] /\ r[p] = Coeff(Q, t[p[1]], t[p[2]])
  <2>1. PICK i \in 1 .. n, k \in 1 .. n : p = <<i, k>> /\ i < k
    BY <1>2, PairFacts
  <2>2. <<i, k>> \in D /\ i # 0
    BY <1>2, <1>8, <2>1
  <2>3. J[<<i, k>>] = Coeff(Q, t[i], t[k])
    <3>1. <<i, k>>[1] = i /\ <<i, k>>[2] = k
      OBVIOUS
    <3> HIDE DEF h
    <3> QED BY <1>9, <2>2, <3>1
  <2>4. t[i] \in Int /\ t[k] \in Int /\ t[i] < t[k]
    BY <1>2, <2>1
  <2>5. Coeff(Q, t[k], t[i]) = 0
    BY <2>4, CoeffFacts
  <2>6. Coeff(Q, t[i], t[k]) \in Int
    BY CoeffFacts
  <2>7. r[<<i, k>>] = Coeff(Q, t[i], t[k]) + Coeff(Q, t[k], t[i])
    BY <1>2, <1>6, <2>1
  <2> QED BY <2>1, <2>3, <2>5, <2>6, <2>7
<1>13. \A p \in Upper(n) : J[p] = r[p] /\ r[p] = Coeff(Q, t[p[1]], t[p[2]])
  BY <1>12
<1>14. (\A k \in 1 .. n : w[k] \in Int) /\ \A p \in Off(n) : r[p] \in Int
  BY <1>4, <1>5
<1>15. n \in Nat /\ DOMAIN J = {p \in (0 .. n) \X (1 .. n) : p[1] < p[2]}
  BY <1>2, <1>8, <1>9
<1>16. IsingParts(Q, t, n, J, w, r)
  BY <1>3, <1>7, <1>11, <1>13, <1>14, <1>15, Zenon DEF IsingParts
<1> QED BY <1>16, <1>1, Zenon

(* The objective of bits, and the energy of the spins that stand for them. *)
QuboTerms(Q, z)    == [p \in DOMAIN Q |-> Q[p] * z[p[1]] * z[p[2]]]
SpinsOf(t, n, z)   == [k \in 0 .. n |-> IF k = 0 THEN 1 ELSE 2 * z[t[k]] - 1]
PairTerms(J, n, s) == [p \in Pairs(n) |-> J[p] * s[p[1]] * s[p[2]]]
Zeros(Q, t, n) ==
  2 * SumFunctionOnSet(Weighted(Q, t, n), 1 .. n) + SumFunctionOnSet(Crossed(Q, t, n), Upper(n))

BitWeights(Q, z, t, n) == [k \in 1 .. n |-> Coeff(Q, t[k], t[k]) * z[t[k]]]
BitCrossed(Q, z, t, n) == [p \in Upper(n) |-> Coeff(Q, t[p[1]], t[p[2]]) * z[t[p[1]]] * z[t[p[2]]]]

(* The objective, its squares and its products apart.                      *)
QuboSums(Q, z, t, n) ==
  /\ SumFunctionOnSet(QuboTerms(Q, z), DOMAIN Q) \in Int
  /\ SumFunctionOnSet(QuboTerms(Q, z), DOMAIN Q) =
       SumFunctionOnSet(BitWeights(Q, z, t, n), 1 .. n) + SumFunctionOnSet(BitCrossed(Q, z, t, n), Upper(n))

Renames(S, f, to, U, g) ==
  /\ \A x \in S : f[x] \in Int
  /\ \A x, y \in S : to[x] = to[y] => x = y
  /\ \A x \in S : to[x] \in U /\ g[to[x]] = f[x]
  /\ \A u \in U : \E x \in S : u = to[x]

LEMMA SumRenamed ==
  ASSUME NEW S, IsFiniteSet(S), NEW f, NEW to, NEW U, NEW g, Renames(S, f, to, U, g)
  PROVE  SumFunctionOnSet(g, U) = SumFunctionOnSet(f, S)
<1>1. \A x \in S : f[x] \in Int
  BY DEF Renames
<1>2. \A x, y \in S : to[x] = to[y] => x = y
  BY DEF Renames
<1>3. \A x \in S : to[x] \in U /\ g[to[x]] = f[x]
  BY DEF Renames
<1>4. \A u \in U : \E x \in S : u = to[x]
  BY DEF Renames
<1> QED BY <1>1, <1>2, <1>3, <1>4, SumRename

LEMMA QuboParts ==
  ASSUME NEW S, IsFiniteSet(S), S \subseteq Int, NEW Q, QuboOver(Q, S), NEW z \in [Int -> {0, 1}],
         NEW t, t = Ascending(S), NEW n, n = Cardinality(S)
  PROVE  QuboSums(Q, z, t, n)
<1>1. /\ n \in Nat /\ t \in [1 .. n -> S]
      /\ \A a, b \in 1 .. n : a < b => t[a] < t[b]
      /\ \A a, b \in 1 .. n : t[a] = t[b] => a = b
      /\ \A i \in S : \E k \in 1 .. n : t[k] = i
  BY AscendingFacts
<1>2. PICK P, O : P = DOMAIN Q /\ O = QuboTerms(Q, z)
  OBVIOUS
<1>3. PICK wb : wb = BitWeights(Q, z, t, n)
  OBVIOUS
<1>4. PICK rb : rb = BitCrossed(Q, z, t, n)
  OBVIOUS
<1>5. PICK diag : diag = {<<a, a>> : a \in S}
  OBVIOUS
<1>6. PICK above : above = {p \in S \X S : p[1] < p[2]}
  OBVIOUS
<1>7. PICK all : all = [p \in (S \X S) \cup P |-> Coeff(Q, p[1], p[2]) * z[p[1]] * z[p[2]]]
  OBVIOUS
<1>8. IsFiniteSet(P) /\ IsFiniteSet(diag) /\ IsFiniteSet(above) /\ diag \subseteq S \X S /\ above \subseteq S \X S
  <2>1. IsFiniteSet(S \X S)
    BY FS_Product
  <2>2. diag \subseteq S \X S /\ above \subseteq S \X S
    BY <1>5, <1>6
  <2>3. IsFiniteSet(P)
    BY <1>2 DEF QuboOver
  <2> QED BY <2>1, <2>2, <2>3, FS_Subset
<1>9. \A p \in P : p = <<p[1], p[2]>> /\ p[1] \in Int /\ p[2] \in Int /\ p[1] <= p[2] /\ Q[p] \in Int
                   /\ (Q[p] # 0 => p[1] \in S /\ p[2] \in S) /\ Q[p] = Coeff(Q, p[1], p[2])
  BY <1>2 DEF QuboOver, Coeff
<1>10. \A p \in (S \X S) \cup P :
        /\ p = <<p[1], p[2]>> /\ p[1] \in Int /\ p[2] \in Int /\ all[p] \in Int
        /\ all[p] = Coeff(Q, p[1], p[2]) * z[p[1]] * z[p[2]]
        /\ Coeff(Q, p[1], p[2]) = 0 => all[p] = 0
  <2> SUFFICES ASSUME NEW p \in (S \X S) \cup P
               PROVE  /\ p = <<p[1], p[2]>> /\ p[1] \in Int /\ p[2] \in Int /\ all[p] \in Int
                      /\ all[p] = Coeff(Q, p[1], p[2]) * z[p[1]] * z[p[2]]
                      /\ Coeff(Q, p[1], p[2]) = 0 => all[p] = 0
    OBVIOUS
  <2>1. p = <<p[1], p[2]>> /\ p[1] \in Int /\ p[2] \in Int
    BY <1>9
  <2>2. PICK c \in Int, a \in {0, 1}, b \in {0, 1} : c = Coeff(Q, p[1], p[2]) /\ a = z[p[1]] /\ b = z[p[2]]
    BY <2>1, CoeffFacts
  <2>3. all[p] = Coeff(Q, p[1], p[2]) * z[p[1]] * z[p[2]]
    BY <1>7
  <2>4. all[p] = c * a * b
    BY <2>2, <2>3
  <2>5. c * a * b \in Int /\ (c = 0 => c * a * b = 0)
    OBVIOUS
  <2> QED BY <2>1, <2>2, <2>3, <2>4, <2>5
<1>11. SumFunctionOnSet(O, P) = SumFunctionOnSet(all, P)
  <2>1. \A p \in P : O[p] = all[p]
    <3> SUFFICES ASSUME NEW p \in P PROVE O[p] = all[p]
      OBVIOUS
    <3>1. O[p] = Q[p] * z[p[1]] * z[p[2]]
      BY <1>2 DEF QuboTerms
    <3> QED BY <1>9, <1>10, <3>1
  <2> QED BY <1>8, <2>1, SumEqual
<1>12. PICK both : both = diag \cup above
  OBVIOUS
<1>13. IsFiniteSet(both) /\ both \subseteq S \X S /\ diag \cap above = {}
  <2>1. diag \cap above = {}
    BY <1>5, <1>6
  <2>2. IsFiniteSet(diag \cup above)
    BY <1>8, FS_Union
  <2> QED BY <1>8, <1>12, <2>1, <2>2
<1>14. PICK meet : meet = P \cap both
  OBVIOUS
<1>15. SumFunctionOnSet(all, P) = SumFunctionOnSet(all, meet)
  <2>1. meet \in SUBSET P /\ \A p \in P : all[p] \in Int
    BY <1>10, <1>14
  <2>2. \A p \in P \ meet : all[p] = 0
    <3> SUFFICES ASSUME NEW p \in P, p \notin both PROVE all[p] = 0
      BY <1>14
    <3>1. Q[p] = 0
      <4> SUFFICES ASSUME Q[p] # 0 PROVE FALSE
        OBVIOUS
      <4>1. p[1] \in S /\ p[2] \in S /\ p = <<p[1], p[2]>> /\ (p[1] = p[2] \/ p[1] < p[2])
        BY <1>9
      <4> QED BY <1>5, <1>6, <1>12, <4>1
    <3> QED BY <1>9, <1>10, <3>1
  <2> QED BY <1>8, <2>1, <2>2, SumSupport
<1>16. SumFunctionOnSet(all, both) = SumFunctionOnSet(all, meet)
  <2>1. meet \in SUBSET both /\ \A p \in both : all[p] \in Int
    BY <1>10, <1>13, <1>14
  <2>2. \A p \in both \ meet : all[p] = 0
    <3> SUFFICES ASSUME NEW p \in both, p \notin P PROVE all[p] = 0
      BY <1>14
    <3>1. p \in S \X S /\ p = <<p[1], p[2]>>
      BY <1>10, <1>13
    <3>2. Coeff(Q, p[1], p[2]) = 0
      BY <1>2, <3>1 DEF Coeff
    <3> QED BY <1>10, <3>1, <3>2
  <2> QED BY <1>13, <2>1, <2>2, SumSupport
<1>17. SumFunctionOnSet(all, both) = SumFunctionOnSet(all, diag) + SumFunctionOnSet(all, above)
  <2>1. \A p \in diag \cup above : all[p] \in Int
    BY <1>8, <1>10
  <2> QED BY <1>8, <1>12, <1>13, <2>1, SumUnion
<1>18. \A k \in 1 .. n : t[k] \in S /\ <<t[k], t[k]>> \in diag
  BY <1>1, <1>5
<1>19. SumFunctionOnSet(all, diag) = SumFunctionOnSet(wb, 1 .. n)
  <2>1. PICK N : N = 1 .. n
    OBVIOUS
  <2>2. PICK to : to = [k \in N |-> <<t[k], t[k]>>]
    OBVIOUS
  <2>3. \A k \in N : wb[k] \in Int /\ to[k] \in diag /\ all[to[k]] = wb[k]
    <3> SUFFICES ASSUME NEW k \in N PROVE wb[k] \in Int /\ to[k] \in diag /\ all[to[k]] = wb[k]
      OBVIOUS
    <3>1. PICK i \in S : i = t[k] /\ <<i, i>> \in diag
      BY <1>18, <2>1
    <3>2. to[k] = <<i, i>> /\ wb[k] = Coeff(Q, i, i) * z[i]
      BY <1>3, <2>1, <2>2, <3>1 DEF BitWeights
    <3>3. all[<<i, i>>] = Coeff(Q, i, i) * z[i] * z[i]
      BY <1>10
    <3>4. PICK c \in Int, a \in {0, 1} : c = Coeff(Q, i, i) /\ a = z[i]
      BY CoeffFacts
    <3>5. c * a * a = c * a /\ c * a \in Int
      OBVIOUS
    <3> QED BY <3>1, <3>2, <3>3, <3>4, <3>5
  <2>4. \A i, k \in N : to[i] = to[k] => i = k
    BY <1>1, <2>1, <2>2
  <2>5. \A p \in diag : \E k \in N : p = to[k]
    BY <1>1, <1>5, <2>1, <2>2
  <2>6. IsFiniteSet(N)
    BY <1>1, <2>1, GridFinite
  <2>7. (\A k \in N : wb[k] \in Int) /\ \A k \in N : to[k] \in diag /\ all[to[k]] = wb[k]
    BY <2>3
  <2>8. Renames(N, wb, to, diag, all)
    BY <2>4, <2>5, <2>7, Zenon DEF Renames
  <2>9. SumFunctionOnSet(all, diag) = SumFunctionOnSet(wb, N)
    BY <2>6, <2>8, SumRenamed
  <2> QED BY <2>1, <2>9
<1>20. SumFunctionOnSet(all, above) = SumFunctionOnSet(rb, Upper(n))
  <2>1. PICK N : N = Upper(n)
    OBVIOUS
  <2>2. PICK to : to = [p \in N |-> <<t[p[1]], t[p[2]]>>]
    OBVIOUS
  <2>3. \A p \in N : rb[p] \in Int /\ to[p] \in above /\ all[to[p]] = rb[p]
    <3> SUFFICES ASSUME NEW p \in N PROVE rb[p] \in Int /\ to[p] \in above /\ all[to[p]] = rb[p]
      OBVIOUS
    <3>1. PICK i \in 1 .. n, k \in 1 .. n : p = <<i, k>> /\ i < k
      BY <1>1, <2>1, PairFacts
    <3>2. PICK a \in S, b \in S : a = t[i] /\ b = t[k] /\ a < b
      BY <1>1, <3>1
    <3>3. to[p] = <<a, b>> /\ rb[p] = Coeff(Q, a, b) * z[a] * z[b]
      BY <1>4, <2>1, <2>2, <3>1, <3>2 DEF BitCrossed
    <3>4. <<a, b>> \in above
      BY <1>6, <3>2
    <3>5. all[<<a, b>>] = Coeff(Q, a, b) * z[a] * z[b] /\ all[<<a, b>>] \in Int
      BY <1>10
    <3> QED BY <3>3, <3>4, <3>5
  <2>4. \A p, q \in N : to[p] = to[q] => p = q
    <3> SUFFICES ASSUME NEW p \in N, NEW q \in N, to[p] = to[q] PROVE p = q
      OBVIOUS
    <3>1. PICK i \in 1 .. n, k \in 1 .. n : p = <<i, k>>
      BY <1>1, <2>1, PairFacts
    <3>2. PICK a \in 1 .. n, b \in 1 .. n : q = <<a, b>>
      BY <1>1, <2>1, PairFacts
    <3>3. t[i] = t[a] /\ t[k] = t[b]
      BY <2>2, <3>1, <3>2
    <3> QED BY <1>1, <3>1, <3>2, <3>3
  <2>5. \A u \in above : \E p \in N : u = to[p]
    <3> SUFFICES ASSUME NEW u \in above PROVE \E p \in N : u = to[p]
      OBVIOUS
    <3>1. PICK a \in S, b \in S : u = <<a, b>> /\ a < b
      <4>1. u \in S \X S /\ u[1] < u[2]
        BY <1>6
      <4>2. u[1] \in S /\ u[2] \in S /\ u = <<u[1], u[2]>>
        BY <4>1
      <4> QED BY <4>1, <4>2
    <3>2. PICK i \in 1 .. n, k \in 1 .. n : t[i] = a /\ t[k] = b
      BY <1>1
    <3>3. i < k
      <4> SUFFICES ASSUME ~(i < k) PROVE FALSE
        OBVIOUS
      <4>1. PICK c \in Int, d \in Int : c = t[i] /\ d = t[k] /\ c < d
        BY <3>1, <3>2
      <4>2. k < i \/ k = i
        BY <1>1
      <4>3. d < c \/ d = c
        BY <1>1, <4>1, <4>2
      <4> QED BY <4>1, <4>3
    <3>4. <<i, k>> \in N
      BY <1>1, <2>1, <3>3, PairFacts
    <3>5. to[<<i, k>>] = u
      BY <2>2, <3>1, <3>2, <3>4
    <3> QED BY <3>4, <3>5
  <2>6. IsFiniteSet(N)
    BY <1>1, <2>1, GridFinite
  <2>7. (\A p \in N : rb[p] \in Int) /\ \A p \in N : to[p] \in above /\ all[to[p]] = rb[p]
    BY <2>3
  <2>8. Renames(N, rb, to, above, all)
    BY <2>4, <2>5, <2>7, Zenon DEF Renames
  <2>9. SumFunctionOnSet(all, above) = SumFunctionOnSet(rb, N)
    BY <2>6, <2>8, SumRenamed
  <2> QED BY <2>1, <2>9
<1>21. SumFunctionOnSet(all, P) \in Int
  <2>1. \A p \in P : all[p] \in Int
    BY <1>10
  <2> QED BY <1>8, <2>1, SumInt
<1> QED BY <1>2, <1>11, <1>15, <1>16, <1>17, <1>19, <1>20, <1>21, <1>3, <1>4, Zenon DEF QuboSums

(* The matrix is exact: the energy of the spins that stand for bits is     *)
(* four times the objective of the bits, but for a constant.               *)
LEMMA IsingExact ==
  ASSUME NEW S, IsFiniteSet(S), S \subseteq Int, NEW Q, QuboOver(Q, S), NEW z \in [Int -> {0, 1}],
         NEW t, t = Ascending(S), NEW n, n = Cardinality(S), NEW J, J = Ising(Q, t)
  PROVE  /\ SumFunctionOnSet(QuboTerms(Q, z), DOMAIN Q) \in Int /\ Zeros(Q, t, n) \in Int
         /\ SumFunctionOnSet(PairTerms(J, n, SpinsOf(t, n, z)), Pairs(n)) =
              4 * SumFunctionOnSet(QuboTerms(Q, z), DOMAIN Q) - Zeros(Q, t, n)
<1>1. PICK w, r, wb, rb : /\ w = Weighted(Q, t, n) /\ r = Crossed(Q, t, n)
                          /\ wb = BitWeights(Q, z, t, n) /\ rb = BitCrossed(Q, z, t, n)
  OBVIOUS
<1>2. PICK s, e : s = SpinsOf(t, n, z) /\ e = PairTerms(J, n, s)
  OBVIOUS
<1>3. PICK b : b = [k \in 1 .. n |-> z[t[k]]]
  OBVIOUS
<1>4. IsingParts(Q, t, n, J, w, r)
  <2>1. IsingParts(Q, t, n, J, Weighted(Q, t, n), Crossed(Q, t, n))
    BY IsingWeights
  <2> QED BY <1>1, <2>1, Zenon
<1>5. /\ n \in Nat /\ Len(t) = n
      /\ \A k \in 1 .. n : w[k] \in Int
      /\ \A p \in Off(n) : r[p] \in Int
      /\ \A i, k \in 1 .. n : i # k => r[<<i, k>>] = r[<<k, i>>]
      /\ \A k \in 1 .. n : J[<<0, k>>] = 2 * w[k] + SumFunctionOnSet(r, {p \in Off(n) : p[1] = k})
      /\ \A p \in Upper(n) : J[p] = r[p] /\ r[p] = Coeff(Q, t[p[1]], t[p[2]])
      /\ DOMAIN J = {p \in (0 .. n) \X (1 .. n) : p[1] < p[2]}
  BY <1>4, Zenon DEF IsingParts
<1>6. /\ t \in [1 .. n -> S]
      /\ \A k \in 1 .. n : t[k] \in S /\ t[k] \in Int
  BY AscendingFacts
<1>7. \A k \in 1 .. n : w[k] \in Int /\ b[k] \in {0, 1} /\ s[k] = 2 * b[k] - 1 /\ wb[k] = w[k] * b[k]
  <2> SUFFICES ASSUME NEW k \in 1 .. n
               PROVE  w[k] \in Int /\ b[k] \in {0, 1} /\ s[k] = 2 * b[k] - 1 /\ wb[k] = w[k] * b[k]
    OBVIOUS
  <2>1. PICK i \in Int : i = t[k]
    BY <1>6
  <2>2. b[k] = z[i] /\ b[k] \in {0, 1}
    BY <1>3, <2>1
  <2>3. k \in 0 .. n /\ k # 0
    BY <1>5
  <2>4. s[k] = 2 * z[i] - 1
    BY <1>2, <2>1, <2>3 DEF SpinsOf
  <2>5. w[k] = Coeff(Q, i, i) /\ wb[k] = Coeff(Q, i, i) * z[i]
    BY <1>1, <2>1 DEF Weighted, BitWeights
  <2> QED BY <1>5, <2>2, <2>4, <2>5
<1>8. s[0] = 1
  BY <1>2, <1>5 DEF SpinsOf
<1>9. \A p \in Pairs(n) : e[p] = J[p] * s[p[1]] * s[p[2]]
  BY <1>2 DEF PairTerms
<1>10. \A p \in Upper(n) : J[p] = r[p] /\ rb[p] = r[p] * b[p[1]] * b[p[2]]
  <2> SUFFICES ASSUME NEW p \in Upper(n) PROVE J[p] = r[p] /\ rb[p] = r[p] * b[p[1]] * b[p[2]]
    OBVIOUS
  <2>1. p[1] \in 1 .. n /\ p[2] \in 1 .. n
    BY <1>5, PairFacts
  <2>2. b[p[1]] = z[t[p[1]]] /\ b[p[2]] = z[t[p[2]]]
    BY <1>3, <2>1
  <2>3. rb[p] = Coeff(Q, t[p[1]], t[p[2]]) * z[t[p[1]]] * z[t[p[2]]]
    BY <1>1 DEF BitCrossed
  <2> QED BY <1>5, <2>2, <2>3
<1>11. BitSums(n, w, r, b, s, J, e, wb, rb)
  BY <1>5, <1>7, <1>8, <1>9, <1>10, Zenon DEF BitSums
<1>12. SumFunctionOnSet(e, Pairs(n)) =
           4 * (SumFunctionOnSet(wb, 1 .. n) + SumFunctionOnSet(rb, Upper(n)))
             - (2 * SumFunctionOnSet(w, 1 .. n) + SumFunctionOnSet(r, Upper(n)))
  BY <1>5, <1>11, SpinsToBits
<1>13. /\ SumFunctionOnSet(QuboTerms(Q, z), DOMAIN Q) \in Int
       /\ SumFunctionOnSet(QuboTerms(Q, z), DOMAIN Q) = SumFunctionOnSet(wb, 1 .. n) + SumFunctionOnSet(rb, Upper(n))
  <2>1. QuboSums(Q, z, t, n)
    BY QuboParts
  <2> QED BY <1>1, <2>1, Zenon DEF QuboSums
<1>14. Zeros(Q, t, n) = 2 * SumFunctionOnSet(w, 1 .. n) + SumFunctionOnSet(r, Upper(n))
  BY <1>1 DEF Zeros
<1>15. Zeros(Q, t, n) \in Int
  <2>1. PICK N, U : N = 1 .. n /\ U = Upper(n)
    OBVIOUS
  <2>2. IsFiniteSet(N) /\ IsFiniteSet(U) /\ U \subseteq Off(n)
    BY <1>5, <2>1, GridFinite
  <2>3. (\A k \in N : w[k] \in Int) /\ \A p \in U : r[p] \in Int
    BY <1>5, <2>1, <2>2
  <2>4. SumFunctionOnSet(w, N) \in Int
    BY <2>2, <2>3, SumInt
  <2>5. SumFunctionOnSet(r, U) \in Int
    BY <2>2, <2>3, SumInt
  <2> QED BY <1>14, <2>1, <2>4, <2>5
<1> QED BY <1>2, <1>12, <1>13, <1>14, <1>15

(* The terms of the QUBO: two literals of a clause, or one twice.          *)
LiteralPlaces(c) == IF Len(c) = 3 THEN 1 .. 4 ELSE DOMAIN c
TermsOf(F)  == {t \in Terms3(F) : t[2] <= t[3]}
Factors(F)  == [t \in TermsOf(F) |-> Coefficient(F[t[1]], t[2], t[3])]
PairOf(a, b) == IF a <= b THEN <<a, b>> ELSE <<b, a>>
Entries(F, v) ==
  [t \in TermsOf(F) |-> PairOf(NumberOf(F, v, t[1], t[2]), NumberOf(F, v, t[1], t[3]))]
TermValues(F, v, z) ==
  [t \in TermsOf(F) |->
     Coefficient(F[t[1]], t[2], t[3]) * z[NumberOf(F, v, t[1], t[2])] * z[NumberOf(F, v, t[1], t[3])]]

LEMMA QuboOfEntries ==
  ASSUME NEW F, NEW v
  PROVE  get_idt(F, v) =
           [p \in Range(Entries(F, v)) |-> -SumFunctionOnSet(Factors(F), Fiber(TermsOf(F), Entries(F, v), p))]
BY Zenon DEF get_idt, Entries, Factors, TermsOf, Fiber, PairOf

(* Every term is a pair of places of one clause, the smaller first.        *)
LEMMA TermFacts ==
  ASSUME NEW F \in Seq(Clause)
  PROVE  /\ IsFiniteSet(TermsOf(F))
         /\ \A t \in TermsOf(F) : /\ t = <<t[1], t[2], t[3]>> /\ t[1] \in DOMAIN F
                                  /\ t[2] \in LiteralPlaces(F[t[1]]) /\ t[3] \in LiteralPlaces(F[t[1]])
                                  /\ t[2] \in 1 .. 4 /\ t[3] \in 1 .. 4 /\ t[2] <= t[3]
         /\ \A k \in DOMAIN F : \A i, j \in LiteralPlaces(F[k]) : i <= j => <<k, i, j>> \in TermsOf(F)
<1>1. PICK L \in Nat : L = Len(F) /\ DOMAIN F = 1 .. L
  OBVIOUS
<1>2. \A k \in 1 .. L : LiteralPlaces(F[k]) \subseteq 1 .. 4
  <2> SUFFICES ASSUME NEW k \in 1 .. L PROVE LiteralPlaces(F[k]) \subseteq 1 .. 4
    OBVIOUS
  <2>1. F[k] \in Seq(Int) /\ Len(F[k]) <= 3
    BY <1>1 DEF Clause
  <2> QED BY <2>1 DEF LiteralPlaces
<1>3. \A t \in TermsOf(F) : /\ t = <<t[1], t[2], t[3]>> /\ t[1] \in DOMAIN F
                            /\ t[2] \in LiteralPlaces(F[t[1]]) /\ t[3] \in LiteralPlaces(F[t[1]]) /\ t[2] <= t[3]
  <2> SUFFICES ASSUME NEW t \in TermsOf(F)
               PROVE  /\ t = <<t[1], t[2], t[3]>> /\ t[1] \in DOMAIN F
                      /\ t[2] \in LiteralPlaces(F[t[1]]) /\ t[3] \in LiteralPlaces(F[t[1]]) /\ t[2] <= t[3]
    OBVIOUS
  <2>1. t \in Terms3(F) /\ t[2] <= t[3]
    BY DEF TermsOf
  <2>2. PICK k \in DOMAIN F : \E i, j \in LiteralPlaces(F[k]) : t = <<k, i, j>>
    <3>1. Terms3(F) = UNION {{<<k, i, j>> : i, j \in LiteralPlaces(F[k])} : k \in DOMAIN F}
      BY DEF Terms3, LiteralPlaces
    <3>2. PICK k \in DOMAIN F : t \in {<<k, i, j>> : i, j \in LiteralPlaces(F[k])}
      BY <2>1, <3>1
    <3> QED BY <3>2
  <2>3. PICK i \in LiteralPlaces(F[k]), j \in LiteralPlaces(F[k]) : t = <<k, i, j>>
    BY <2>2
  <2> QED BY <2>1, <2>2, <2>3
<1>4. \A k \in DOMAIN F : \A i, j \in LiteralPlaces(F[k]) : i <= j => <<k, i, j>> \in TermsOf(F)
  <2> SUFFICES ASSUME NEW k \in DOMAIN F, NEW i \in LiteralPlaces(F[k]), NEW j \in LiteralPlaces(F[k]), i <= j
               PROVE  <<k, i, j>> \in TermsOf(F)
    OBVIOUS
  <2>1. <<k, i, j>> \in Terms3(F)
    BY DEF Terms3, LiteralPlaces
  <2> QED BY <2>1 DEF TermsOf
<1>5. IsFiniteSet(TermsOf(F))
  <2>1. PICK G : G = ((1 .. L) \X (1 .. 4)) \X (1 .. 4)
    OBVIOUS
  <2>2. IsFiniteSet(1 .. L) /\ IsFiniteSet(1 .. 4)
    BY <1>1, PlacesFinite
  <2>3. IsFiniteSet((1 .. L) \X (1 .. 4))
    BY <2>2, FS_Product
  <2>4. IsFiniteSet(G)
    BY <2>1, <2>2, <2>3, FS_Product
  <2>5. PICK f : f = [u \in G |-> <<u[1][1], u[1][2], u[2]>>]
    OBVIOUS
  <2>6. PICK I : I = {f[u] : u \in G}
    OBVIOUS
  <2>7. IsFiniteSet(I)
    BY <2>4, <2>6, ImageFinite
  <2>8. TermsOf(F) \subseteq I
    <3> SUFFICES ASSUME NEW t \in TermsOf(F) PROVE t \in I
      OBVIOUS
    <3>1. PICK k \in 1 .. L, i \in 1 .. 4, j \in 1 .. 4 : t = <<k, i, j>>
      <4>1. t = <<t[1], t[2], t[3]>> /\ t[1] \in 1 .. L /\ t[2] \in 1 .. 4 /\ t[3] \in 1 .. 4
        BY <1>1, <1>2, <1>3
      <4> QED BY <4>1
    <3>2. PICK u : u = <<<<k, i>>, j>>
      OBVIOUS
    <3>3. u \in G /\ f[u] = <<k, i, j>>
      BY <2>1, <2>5, <3>1, <3>2
    <3> QED BY <2>6, <3>1, <3>3
  <2> QED BY <2>7, <2>8, FS_Subset
<1> QED BY <1>1, <1>2, <1>3, <1>4, <1>5

(* The coefficients are integers.                                          *)
LEMMA SignRange == ASSUME NEW l PROVE SignOf(l) \in {-1, 1} /\ SignOf(l) \in Int
BY DEF SignOf

LEMMA CoefficientInt ==
  ASSUME NEW c \in Clause, NEW i \in 1 .. 4, NEW j \in 1 .. 4 PROVE Coefficient(c, i, j) \in Int
<1>1. PICK l \in Nat : l = Len(c) /\ DOMAIN c = 1 .. l
  BY DEF Clause
<1>2. PICK A : A = {n \in DOMAIN c : c[n] < 0}
  OBVIOUS
<1>3. Cardinality(A) \in Nat
  BY <1>1, <1>2, PlacesFinite
<1>4. PICK B : B = {n \in DOMAIN c : c[n] < 0 /\ c[n] # c[i]}
  OBVIOUS
<1>5. Cardinality(B) \in Nat
  BY <1>1, <1>4, PlacesFinite
<1>6. PICK s \in Int, r \in Int : s = SignOf(c[i]) /\ r = SignOf(c[j])
  BY SignRange
<1>7. Linear(c, i) = s * (1 - Cardinality(B))
  BY <1>4, <1>6, Zenon DEF Linear
<1>8. Linear(c, i) \in Int
  BY <1>5, <1>7
<1>9. -s * r \in Int
  BY <1>6
<1>10. CASE i = 4
  BY <1>2, <1>3, <1>10 DEF Coefficient
<1>11. CASE i # 4 /\ j = 4
  BY <1>6, <1>11 DEF Coefficient
<1>12. CASE i # 4 /\ j # 4
  BY <1>6, <1>8, <1>9, <1>12 DEF Coefficient
<1> QED BY <1>10, <1>11, <1>12

(* A literal or an ancilla has a number.                                   *)
LEMMA PlaceNumber ==
  ASSUME NEW F \in Seq(Clause), NEW v \in Nat, NEW k \in DOMAIN F, NEW i \in LiteralPlaces(F[k])
  PROVE  NumberOf(F, v, k, i) \in Int
<1>1. PICK L \in Nat : L = Len(F) /\ DOMAIN F = 1 .. L
  OBVIOUS
<1>2. PICK c : c = F[k] /\ c \in Seq(Int) /\ Len(c) <= 3
  BY <1>1 DEF Clause
<1>3. CASE i = 4
  <2>1. PICK A : A = {n \in 1 .. k - 1 : Len(F[n]) = 3}
    OBVIOUS
  <2>2. A \subseteq 1 .. L
    BY <1>1, <2>1
  <2>3. Cardinality(A) \in Nat
    BY <1>1, <2>2, PlacesFinite
  <2>4. NumberOf(F, v, k, i) = v + Cardinality(A)
    BY <1>3, <2>1 DEF NumberOf
  <2> QED BY <2>3, <2>4
<1>4. CASE i # 4
  <2>1. i \in DOMAIN c
    BY <1>2, <1>4 DEF LiteralPlaces
  <2>2. PICK l \in Int : l = F[k][i]
    BY <1>2, <2>1
  <2> QED BY <1>4, <2>2 DEF NumberOf, VariableOf
<1> QED BY <1>3, <1>4

(* The objective of the QUBO is the sum of the terms, negated.             *)
LEMMA QuboTotal ==
  ASSUME NEW F \in Seq(Clause), NEW v \in Nat, NEW z \in [Int -> {0, 1}]
  PROVE  /\ \A t \in TermsOf(F) : TermValues(F, v, z)[t] \in Int
         /\ SumFunctionOnSet(TermValues(F, v, z), TermsOf(F)) \in Int
         /\ SumFunctionOnSet(QuboTerms(get_idt(F, v), z), DOMAIN get_idt(F, v)) =
              -SumFunctionOnSet(TermValues(F, v, z), TermsOf(F))
<1>1. PICK T, at, by, val : /\ T = TermsOf(F) /\ at = Entries(F, v) /\ by = Factors(F) /\ val = TermValues(F, v, z)
  OBVIOUS
<1>2. IsFiniteSet(T)
  BY <1>1, TermFacts
<1>3. \A t \in T : \E a, b \in Int : /\ at[t] = PairOf(a, b) /\ by[t] \in Int
                                     /\ val[t] = by[t] * z[a] * z[b]
  <2> SUFFICES ASSUME NEW t \in T
               PROVE  \E a, b \in Int : at[t] = PairOf(a, b) /\ by[t] \in Int /\ val[t] = by[t] * z[a] * z[b]
    OBVIOUS
  <2>1. /\ t[1] \in DOMAIN F /\ t[2] \in LiteralPlaces(F[t[1]]) /\ t[3] \in LiteralPlaces(F[t[1]])
        /\ t[2] \in 1 .. 4 /\ t[3] \in 1 .. 4
    BY <1>1, TermFacts
  <2>2. PICK a \in Int, b \in Int : a = NumberOf(F, v, t[1], t[2]) /\ b = NumberOf(F, v, t[1], t[3])
    BY <2>1, PlaceNumber
  <2>3. F[t[1]] \in Clause
    BY <2>1
  <2>4. by[t] = Coefficient(F[t[1]], t[2], t[3]) /\ by[t] \in Int
    BY <1>1, <2>1, <2>3, CoefficientInt DEF Factors
  <2>5. at[t] = PairOf(a, b)
    BY <1>1, <2>2 DEF Entries
  <2>6. val[t] = by[t] * z[a] * z[b]
    BY <1>1, <2>2, <2>4 DEF TermValues
  <2> QED BY <2>4, <2>5, <2>6
<1>4. \A t \in T : /\ by[t] \in Int /\ at[t][1] \in Int /\ at[t][2] \in Int /\ at[t] = <<at[t][1], at[t][2]>>
                   /\ at[t][1] <= at[t][2]
                   /\ val[t] = (z[at[t][1]] * z[at[t][2]]) * by[t] /\ val[t] \in Int
  <2> SUFFICES ASSUME NEW t \in T
               PROVE  /\ by[t] \in Int /\ at[t][1] \in Int /\ at[t][2] \in Int /\ at[t] = <<at[t][1], at[t][2]>>
                      /\ at[t][1] <= at[t][2]
                      /\ val[t] = (z[at[t][1]] * z[at[t][2]]) * by[t] /\ val[t] \in Int
    OBVIOUS
  <2>1. PICK a \in Int, b \in Int : at[t] = PairOf(a, b) /\ by[t] \in Int /\ val[t] = by[t] * z[a] * z[b]
    BY <1>3
  <2>2. PICK m \in Int, p \in {0, 1}, q \in {0, 1} : m = by[t] /\ p = z[a] /\ q = z[b]
    BY <2>1
  <2>3. val[t] = m * p * q
    BY <2>1, <2>2
  <2>4. m * p * q = (p * q) * m /\ m * p * q = (q * p) * m /\ m * p * q \in Int
    OBVIOUS
  <2>5. CASE a <= b
    <3>1. at[t] = <<a, b>>
      BY <2>1, <2>5 DEF PairOf
    <3> QED BY <2>1, <2>2, <2>3, <2>4, <2>5, <3>1
  <2>6. CASE ~(a <= b)
    <3>1. at[t] = <<b, a>> /\ b <= a
      BY <2>1, <2>6 DEF PairOf
    <3> QED BY <2>1, <2>2, <2>3, <2>4, <3>1
  <2> QED BY <2>5, <2>6
<1>5. PICK U : U = Range(at)
  OBVIOUS
<1>6. DOMAIN at = T /\ U = {at[t] : t \in T}
  BY <1>1, <1>5 DEF Entries, Range
<1>7. IsFiniteSet(U)
  BY <1>2, <1>6, ImageFinite
<1>8. PICK Q, O, g : /\ Q = get_idt(F, v) /\ O = QuboTerms(Q, z)
                     /\ g = [p \in U |-> SumFunctionOnSet(val, Fiber(T, at, p))]
  OBVIOUS
<1>9. Q = [p \in U |-> -SumFunctionOnSet(by, Fiber(T, at, p))]
  BY <1>1, <1>5, <1>8, QuboOfEntries
<1>10. SumFunctionOnSet(g, U) = SumFunctionOnSet(val, T)
  <2>1. \A t \in T : val[t] \in Int
    BY <1>4
  <2>2. \A t \in T : at[t] \in U
    BY <1>6
  <2>3. \A p \in U : g[p] = SumFunctionOnSet(val, Fiber(T, at, p))
    BY <1>8
  <2> QED BY <1>2, <1>7, <2>1, <2>2, <2>3, SumFibers
<1>11. \A p \in U : g[p] \in Int /\ O[p] = -g[p]
  <2> SUFFICES ASSUME NEW p \in U PROVE g[p] \in Int /\ O[p] = -g[p]
    OBVIOUS
  <2>1. PICK A : A = Fiber(T, at, p)
    OBVIOUS
  <2>2. A \subseteq T /\ \A t \in A : at[t] = p
    BY <2>1 DEF Fiber
  <2>3. IsFiniteSet(A)
    BY <1>2, <2>2, FS_Subset
  <2>4. p[1] \in Int /\ p[2] \in Int
    BY <1>4, <1>6
  <2>5. PICK a \in {0, 1}, b \in {0, 1} : a = z[p[1]] /\ b = z[p[2]]
    BY <2>4
  <2>6. PICK c \in Int : c = a * b
    OBVIOUS
  <2>7. \A t \in A : by[t] \in Int /\ val[t] = c * by[t]
    <3> SUFFICES ASSUME NEW t \in A PROVE by[t] \in Int /\ val[t] = c * by[t]
      OBVIOUS
    <3>1. at[t] = p /\ t \in T
      BY <2>2
    <3>2. by[t] \in Int /\ val[t] = (z[p[1]] * z[p[2]]) * by[t]
      BY <1>4, <3>1
    <3> QED BY <2>5, <2>6, <3>2
  <2>8. SumFunctionOnSet(val, A) = c * SumFunctionOnSet(by, A)
    BY <2>3, <2>7, SumScale
  <2>9. \A t \in A : by[t] \in Int
    BY <2>7
  <2>10. PICK m \in Int : m = SumFunctionOnSet(by, A)
    BY <2>3, <2>9, SumInt
  <2>11. g[p] = c * m
    BY <1>8, <2>1, <2>8, <2>10
  <2>12. Q[p] = -m /\ p \in DOMAIN Q
    BY <1>9, <2>1, <2>10
  <2>13. O[p] = -m * a * b
    BY <1>8, <2>5, <2>12 DEF QuboTerms
  <2>14. -m * a * b = -(c * m) /\ c * m \in Int
    BY <2>6
  <2> QED BY <2>11, <2>13, <2>14
<1>12. SumFunctionOnSet(O, U) = -SumFunctionOnSet(g, U)
  BY <1>7, <1>11, SumNegate
<1>13. SumFunctionOnSet(val, T) \in Int
  <2>1. \A t \in T : val[t] \in Int
    BY <1>4
  <2> QED BY <1>2, <2>1, SumInt
<1>14. DOMAIN Q = U
  BY <1>9
<1> QED BY <1>1, <1>4, <1>8, <1>10, <1>12, <1>13, <1>14

(* The entries of the QUBO are at ordered pairs.                           *)
LEMMA EntryShape ==
  ASSUME NEW F \in Seq(Clause), NEW v \in Nat, NEW Q, Q = get_idt(F, v)
  PROVE  /\ IsFiniteSet(DOMAIN Q)
         /\ \A p \in DOMAIN Q : /\ p = <<p[1], p[2]>> /\ p[1] \in Int /\ p[2] \in Int /\ p[1] <= p[2]
                                /\ Q[p] \in Int
<1>1. PICK T, at, by : T = TermsOf(F) /\ at = Entries(F, v) /\ by = Factors(F)
  OBVIOUS
<1>2. IsFiniteSet(T)
  BY <1>1, TermFacts
<1>3. \A t \in T : /\ by[t] \in Int /\ at[t][1] \in Int /\ at[t][2] \in Int /\ at[t] = <<at[t][1], at[t][2]>>
                   /\ at[t][1] <= at[t][2]
  <2> SUFFICES ASSUME NEW t \in T
               PROVE  /\ by[t] \in Int /\ at[t][1] \in Int /\ at[t][2] \in Int /\ at[t] = <<at[t][1], at[t][2]>>
                      /\ at[t][1] <= at[t][2]
    OBVIOUS
  <2>1. /\ t[1] \in DOMAIN F /\ t[2] \in LiteralPlaces(F[t[1]]) /\ t[3] \in LiteralPlaces(F[t[1]])
        /\ t[2] \in 1 .. 4 /\ t[3] \in 1 .. 4
    BY <1>1, TermFacts
  <2>2. PICK a \in Int, b \in Int : a = NumberOf(F, v, t[1], t[2]) /\ b = NumberOf(F, v, t[1], t[3])
    BY <2>1, PlaceNumber
  <2>3. F[t[1]] \in Clause
    BY <2>1
  <2>4. by[t] \in Int
    BY <1>1, <2>1, <2>3, CoefficientInt DEF Factors
  <2>5. at[t] = PairOf(a, b)
    BY <1>1, <2>2 DEF Entries
  <2>6. at[t] = IF a <= b THEN <<a, b>> ELSE <<b, a>>
    BY <2>5 DEF PairOf
  <2> QED BY <2>4, <2>6
<1>4. PICK U : U = Range(at)
  OBVIOUS
<1>5. DOMAIN at = T /\ U = {at[t] : t \in T}
  BY <1>1, <1>4 DEF Entries, Range
<1>6. IsFiniteSet(U)
  BY <1>2, <1>5, ImageFinite
<1>7. Q = [p \in U |-> -SumFunctionOnSet(by, Fiber(T, at, p))]
  BY <1>1, <1>4, QuboOfEntries
<1>8. \A p \in U : Q[p] \in Int
  <2> SUFFICES ASSUME NEW p \in U PROVE Q[p] \in Int
    OBVIOUS
  <2>1. PICK A : A = Fiber(T, at, p)
    OBVIOUS
  <2>2. A \subseteq T
    BY <2>1 DEF Fiber
  <2>3. IsFiniteSet(A)
    BY <1>2, <2>2, FS_Subset
  <2>4. \A t \in A : by[t] \in Int
    BY <1>3, <2>2
  <2>5. SumFunctionOnSet(by, A) \in Int
    BY <2>3, <2>4, SumInt
  <2> QED BY <1>7, <2>1, <2>5
<1>9. DOMAIN Q = U
  BY <1>7
<1>10. \A p \in DOMAIN Q : p = <<p[1], p[2]>> /\ p[1] \in Int /\ p[2] \in Int /\ p[1] <= p[2]
  <2> SUFFICES ASSUME NEW p \in U
               PROVE  p = <<p[1], p[2]>> /\ p[1] \in Int /\ p[2] \in Int /\ p[1] <= p[2]
    BY <1>9
  <2>1. PICK t \in T : p = at[t]
    BY <1>5
  <2> QED BY <1>3, <2>1
<1> QED BY <1>6, <1>8, <1>9, <1>10

(* The variables of the program, and the QUBO over them.                   *)
ProgramSet(V, Q) == {u - 1 : u \in V} \cup UNION {{p[1], p[2]} : p \in {q \in DOMAIN Q : Q[q] # 0}}

LEMMA ProgramQubo ==
  ASSUME NEW F \in Seq(Clause), NEW v \in Nat, NEW Q, Q = get_idt(F, v),
         NEW V, IsFiniteSet(V), V \subseteq Int, NEW S, S = ProgramSet(V, Q)
  PROVE  /\ ProgramVariables(V, Q) = Ascending(S)
         /\ IsFiniteSet(S) /\ S \subseteq Int /\ QuboOver(Q, S)
<1>1. /\ IsFiniteSet(DOMAIN Q)
      /\ \A p \in DOMAIN Q : /\ p = <<p[1], p[2]>> /\ p[1] \in Int /\ p[2] \in Int /\ p[1] <= p[2]
                             /\ Q[p] \in Int
  BY EntryShape
<1>2. ProgramVariables(V, Q) = Ascending(S)
  BY Zenon DEF ProgramVariables, ProgramSet
<1>3. S = {u - 1 : u \in V} \cup UNION {{p[1], p[2]} : p \in {q \in DOMAIN Q : Q[q] # 0}}
  BY DEF ProgramSet
<1>4. S \subseteq Int
  BY <1>1, <1>3
<1>5. \A p \in DOMAIN Q : Q[p] # 0 => p[1] \in S /\ p[2] \in S
  BY <1>3
<1>6. QuboOver(Q, S)
  BY <1>1, <1>5 DEF QuboOver
<1>7. IsFiniteSet(S)
  <2>1. PICK f, g, h : /\ f = [u \in V |-> u - 1] /\ g = [p \in DOMAIN Q |-> p[1]]
                       /\ h = [p \in DOMAIN Q |-> p[2]]
    OBVIOUS
  <2>2. PICK A, B, C : A = {f[u] : u \in V} /\ B = {g[p] : p \in DOMAIN Q} /\ C = {h[p] : p \in DOMAIN Q}
    OBVIOUS
  <2>3. IsFiniteSet(A)
    BY <2>2, ImageFinite
  <2>4. IsFiniteSet(B)
    BY <1>1, <2>2, ImageFinite
  <2>5. IsFiniteSet(C)
    BY <1>1, <2>2, ImageFinite
  <2>6. IsFiniteSet((A \cup B) \cup C)
    BY <2>3, <2>4, <2>5, FS_Union
  <2>7. S \subseteq (A \cup B) \cup C
    <3>1. \A u \in V : u - 1 \in A
      BY <2>1, <2>2
    <3>2. \A p \in DOMAIN Q : p[1] \in B /\ p[2] \in C
      BY <2>1, <2>2
    <3> QED BY <1>3, <3>1, <3>2
  <2> QED BY <2>6, <2>7, FS_Subset
<1> QED BY <1>2, <1>4, <1>6, <1>7

(* The terms of a clause, and what they are worth.                         *)
TermsAt(F, k) == Fiber(TermsOf(F), [t \in TermsOf(F) |-> t[1]], k)
ClauseWorth(F, v, z) ==
  [k \in DOMAIN F |-> SumFunctionOnSet(TermValues(F, v, z), TermsAt(F, k))]

(* The terms can be added clause by clause.                                *)
LEMMA ClauseByClause ==
  ASSUME NEW F \in Seq(Clause), NEW v \in Nat, NEW z \in [Int -> {0, 1}]
  PROVE  SumFunctionOnSet(TermValues(F, v, z), TermsOf(F)) = SumFunctionOnSet(ClauseWorth(F, v, z), DOMAIN F)
<1>1. PICK T, val, to, U, g : /\ T = TermsOf(F) /\ val = TermValues(F, v, z) /\ to = [t \in TermsOf(F) |-> t[1]]
                              /\ U = DOMAIN F /\ g = ClauseWorth(F, v, z)
  OBVIOUS
<1>2. IsFiniteSet(T) /\ IsFiniteSet(U)
  <2>1. PICK L \in Nat : U = 1 .. L
    BY <1>1
  <2>2. IsFiniteSet(U)
    BY <2>1, PlacesFinite
  <2> QED BY <1>1, <2>2, TermFacts
<1>3. \A t \in T : val[t] \in Int
  BY <1>1, QuboTotal
<1>4. \A t \in T : to[t] \in U
  BY <1>1, TermFacts
<1>5. \A k \in U : g[k] = SumFunctionOnSet(val, Fiber(T, to, k))
  BY <1>1 DEF ClauseWorth, TermsAt
<1>6. SumFunctionOnSet(g, U) = SumFunctionOnSet(val, T)
  BY <1>2, <1>3, <1>4, <1>5, SumFibers
<1> QED BY <1>1, <1>6

(* Sums over one, three and ten elements.                                  *)
LEMMA SumInsert ==
  ASSUME NEW S, IsFiniteSet(S), NEW x, x \notin S, NEW f, f[x] \in Int, \A y \in S : f[y] \in Int
  PROVE  /\ IsFiniteSet(S \cup {x}) /\ SumFunctionOnSet(f, S) \in Int
         /\ SumFunctionOnSet(f, S \cup {x}) = SumFunctionOnSet(f, S) + f[x]
<1>1. PICK T : T = S \cup {x}
  OBVIOUS
<1>2. IsFiniteSet(T) /\ T \ {x} = S /\ x \in T
  BY <1>1, FS_AddElement
<1>3. \A y \in T : f[y] \in Int
  BY <1>1
<1>4. SumFunctionOnSet(f, T) = f[x] + SumFunctionOnSet(f, S)
  BY <1>2, <1>3, SumElement
<1>5. PICK a \in Int, b \in Int : a = f[x] /\ b = SumFunctionOnSet(f, S)
  BY SumInt
<1> QED BY <1>1, <1>2, <1>4, <1>5

(* The terms of a clause of three and of a clause of two.                  *)
TenTerms(k) ==
  {<<k, 1, 1>>, <<k, 2, 2>>, <<k, 3, 3>>, <<k, 4, 4>>, <<k, 1, 2>>, <<k, 1, 3>>, <<k, 2, 3>>,
   <<k, 1, 4>>, <<k, 2, 4>>, <<k, 3, 4>>}
ThreeTerms(k) == {<<k, 1, 1>>, <<k, 2, 2>>, <<k, 1, 2>>}

LEMMA SumOfOne ==
  ASSUME NEW x, NEW f, f[x] \in Int PROVE IsFiniteSet({x}) /\ SumFunctionOnSet(f, {x}) = f[x]
<1>1. PICK S : S = {}
  OBVIOUS
<1>2. IsFiniteSet(S) /\ SumFunctionOnSet(f, S) = 0 /\ x \notin S
  BY <1>1, FS_EmptySet, SumEmpty
<1>3. IsFiniteSet(S \cup {x}) /\ SumFunctionOnSet(f, S \cup {x}) = SumFunctionOnSet(f, S) + f[x]
  BY <1>1, <1>2, SumInsert
<1>4. S \cup {x} = {x}
  BY <1>1
<1>5. PICK m \in Int : m = f[x]
  OBVIOUS
<1>6. SumFunctionOnSet(f, {x}) = 0 + m
  BY <1>2, <1>3, <1>4, <1>5, Zenon
<1>7. IsFiniteSet({x})
  BY <1>3, <1>4, Zenon
<1>8. 0 + m = f[x]
  BY <1>5
<1> QED BY <1>6, <1>7, <1>8, Zenon

LEMMA SumOfThree ==
  ASSUME NEW k, NEW f, \A t \in ThreeTerms(k) : f[t] \in Int
  PROVE  SumFunctionOnSet(f, ThreeTerms(k)) =
           f[<<k, 1, 1>>] + f[<<k, 2, 2>>] + f[<<k, 1, 2>>]
<1>1. PICK x1, x2, x3 : x1 = <<k, 1, 1>> /\ x2 = <<k, 2, 2>> /\ x3 = <<k, 1, 2>>
  OBVIOUS
<1>2. PICK S1 : S1 = {x1}
  OBVIOUS
<1>3. PICK S2 : S2 = S1 \cup {x2}
  OBVIOUS
<1>4. PICK S3 : S3 = S2 \cup {x3}
  OBVIOUS
<1>5. ThreeTerms(k) = S3
  BY <1>1, <1>2, <1>3, <1>4 DEF ThreeTerms
<1>6. f[x1] \in Int /\ f[x2] \in Int /\ f[x3] \in Int
  BY <1>1 DEF ThreeTerms
<1>7. x2 \notin S1
  BY <1>1, <1>2
<1>8. x3 \notin S2
  BY <1>1, <1>2, <1>3
<1>9. \A t \in S1 : f[t] \in Int
  BY <1>6, <1>2
<1>10. \A t \in S2 : f[t] \in Int
  BY <1>6, <1>2, <1>3
<1>11. \A t \in S3 : f[t] \in Int
  BY <1>6, <1>2, <1>3, <1>4
<1>12. IsFiniteSet(S1) /\ SumFunctionOnSet(f, S1) = f[x1]
  BY <1>2, <1>6, SumOfOne
<1>13. IsFiniteSet(S2) /\ SumFunctionOnSet(f, S2) = SumFunctionOnSet(f, S1) + f[x2]
  BY <1>12, <1>3, <1>7, <1>6, <1>9, SumInsert
<1>14. IsFiniteSet(S3) /\ SumFunctionOnSet(f, S3) = SumFunctionOnSet(f, S2) + f[x3]
  BY <1>13, <1>4, <1>8, <1>6, <1>10, SumInsert
<1> QED BY <1>1, <1>5, <1>12, <1>13, <1>14

LEMMA SumOfTen ==
  ASSUME NEW k, NEW f, \A t \in TenTerms(k) : f[t] \in Int
  PROVE  SumFunctionOnSet(f, TenTerms(k)) =
           f[<<k, 1, 1>>] + f[<<k, 2, 2>>] + f[<<k, 3, 3>>] + f[<<k, 4, 4>>]
              + f[<<k, 1, 2>>] + f[<<k, 1, 3>>] + f[<<k, 2, 3>>] + f[<<k, 1, 4>>] + f[<<k, 2, 4>>] + f[<<k, 3, 4>>]
<1>1. PICK x1, x2, x3, x4, x5, x6, x7, x8, x9, x10 :
         /\ x1 = <<k, 1, 1>> /\ x2 = <<k, 2, 2>> /\ x3 = <<k, 3, 3>> /\ x4 = <<k, 4, 4>>
         /\ x5 = <<k, 1, 2>> /\ x6 = <<k, 1, 3>> /\ x7 = <<k, 2, 3>>
         /\ x8 = <<k, 1, 4>> /\ x9 = <<k, 2, 4>> /\ x10 = <<k, 3, 4>>
  OBVIOUS
<1>2. PICK S1 : S1 = {x1}
  OBVIOUS
<1>3. PICK S2 : S2 = S1 \cup {x2}
  OBVIOUS
<1>4. PICK S3 : S3 = S2 \cup {x3}
  OBVIOUS
<1>5. PICK S4 : S4 = S3 \cup {x4}
  OBVIOUS
<1>6. PICK S5 : S5 = S4 \cup {x5}
  OBVIOUS
<1>7. PICK S6 : S6 = S5 \cup {x6}
  OBVIOUS
<1>8. PICK S7 : S7 = S6 \cup {x7}
  OBVIOUS
<1>9. PICK S8 : S8 = S7 \cup {x8}
  OBVIOUS
<1>10. PICK S9 : S9 = S8 \cup {x9}
  OBVIOUS
<1>11. PICK S10 : S10 = S9 \cup {x10}
  OBVIOUS
<1>12. TenTerms(k) = S10
  BY <1>1, <1>2, <1>3, <1>4, <1>5, <1>6, <1>7, <1>8, <1>9, <1>10, <1>11 DEF TenTerms
<1>13. /\ f[x1] \in Int /\ f[x2] \in Int /\ f[x3] \in Int /\ f[x4] \in Int /\ f[x5] \in Int
       /\ f[x6] \in Int /\ f[x7] \in Int /\ f[x8] \in Int /\ f[x9] \in Int /\ f[x10] \in Int
  BY <1>1 DEF TenTerms
<1>14. x2 \notin S1
  BY <1>1, <1>2
<1>15. x3 \notin S2
  BY <1>1, <1>2, <1>3
<1>16. x4 \notin S3
  BY <1>1, <1>2, <1>3, <1>4
<1>17. x5 \notin S4
  BY <1>1, <1>2, <1>3, <1>4, <1>5
<1>18. x6 \notin S5
  BY <1>1, <1>2, <1>3, <1>4, <1>5, <1>6
<1>19. x7 \notin S6
  BY <1>1, <1>2, <1>3, <1>4, <1>5, <1>6, <1>7
<1>20. x8 \notin S7
  BY <1>1, <1>2, <1>3, <1>4, <1>5, <1>6, <1>7, <1>8
<1>21. x9 \notin S8
  BY <1>1, <1>2, <1>3, <1>4, <1>5, <1>6, <1>7, <1>8, <1>9
<1>22. x10 \notin S9
  BY <1>1, <1>2, <1>3, <1>4, <1>5, <1>6, <1>7, <1>8, <1>9, <1>10
<1>23. \A t \in S1 : f[t] \in Int
  BY <1>13, <1>2
<1>24. \A t \in S2 : f[t] \in Int
  BY <1>13, <1>2, <1>3
<1>25. \A t \in S3 : f[t] \in Int
  BY <1>13, <1>2, <1>3, <1>4
<1>26. \A t \in S4 : f[t] \in Int
  BY <1>13, <1>2, <1>3, <1>4, <1>5
<1>27. \A t \in S5 : f[t] \in Int
  BY <1>13, <1>2, <1>3, <1>4, <1>5, <1>6
<1>28. \A t \in S6 : f[t] \in Int
  BY <1>13, <1>2, <1>3, <1>4, <1>5, <1>6, <1>7
<1>29. \A t \in S7 : f[t] \in Int
  BY <1>13, <1>2, <1>3, <1>4, <1>5, <1>6, <1>7, <1>8
<1>30. \A t \in S8 : f[t] \in Int
  BY <1>13, <1>2, <1>3, <1>4, <1>5, <1>6, <1>7, <1>8, <1>9
<1>31. \A t \in S9 : f[t] \in Int
  BY <1>13, <1>2, <1>3, <1>4, <1>5, <1>6, <1>7, <1>8, <1>9, <1>10
<1>32. \A t \in S10 : f[t] \in Int
  BY <1>13, <1>2, <1>3, <1>4, <1>5, <1>6, <1>7, <1>8, <1>9, <1>10, <1>11
<1>33. IsFiniteSet(S1) /\ SumFunctionOnSet(f, S1) = f[x1]
  BY <1>2, <1>13, SumOfOne
<1>34. IsFiniteSet(S2) /\ SumFunctionOnSet(f, S2) = SumFunctionOnSet(f, S1) + f[x2]
  BY <1>33, <1>3, <1>14, <1>13, <1>23, SumInsert
<1>35. IsFiniteSet(S3) /\ SumFunctionOnSet(f, S3) = SumFunctionOnSet(f, S2) + f[x3]
  BY <1>34, <1>4, <1>15, <1>13, <1>24, SumInsert
<1>36. IsFiniteSet(S4) /\ SumFunctionOnSet(f, S4) = SumFunctionOnSet(f, S3) + f[x4]
  BY <1>35, <1>5, <1>16, <1>13, <1>25, SumInsert
<1>37. IsFiniteSet(S5) /\ SumFunctionOnSet(f, S5) = SumFunctionOnSet(f, S4) + f[x5]
  BY <1>36, <1>6, <1>17, <1>13, <1>26, SumInsert
<1>38. IsFiniteSet(S6) /\ SumFunctionOnSet(f, S6) = SumFunctionOnSet(f, S5) + f[x6]
  BY <1>37, <1>7, <1>18, <1>13, <1>27, SumInsert
<1>39. IsFiniteSet(S7) /\ SumFunctionOnSet(f, S7) = SumFunctionOnSet(f, S6) + f[x7]
  BY <1>38, <1>8, <1>19, <1>13, <1>28, SumInsert
<1>40. IsFiniteSet(S8) /\ SumFunctionOnSet(f, S8) = SumFunctionOnSet(f, S7) + f[x8]
  BY <1>39, <1>9, <1>20, <1>13, <1>29, SumInsert
<1>41. IsFiniteSet(S9) /\ SumFunctionOnSet(f, S9) = SumFunctionOnSet(f, S8) + f[x9]
  BY <1>40, <1>10, <1>21, <1>13, <1>30, SumInsert
<1>42. IsFiniteSet(S10) /\ SumFunctionOnSet(f, S10) = SumFunctionOnSet(f, S9) + f[x10]
  BY <1>41, <1>11, <1>22, <1>13, <1>31, SumInsert
<1> QED BY <1>1, <1>12, <1>33, <1>34, <1>35, <1>36, <1>37, <1>38, <1>39, <1>40, <1>41, <1>42

(* The negative literals of a clause.                                      *)
Negative(l) == IF l < 0 THEN 1 ELSE 0

LEMMA CountAdded ==
  ASSUME NEW S, IsFiniteSet(S), NEW x, x \notin S, NEW A
  PROVE  LET T == IF x \in A THEN S \cup {x} ELSE S
         IN  IsFiniteSet(T) /\ Cardinality(S) \in Nat /\ Cardinality(T) = Cardinality(S) + (IF x \in A THEN 1 ELSE 0)
<1>1. IsFiniteSet(S \cup {x}) /\ Cardinality(S \cup {x}) = Cardinality(S) + 1 /\ Cardinality(S) \in Nat
  BY FS_AddElement, FS_CardinalityType
<1> QED BY <1>1

LEMMA CountThree ==
  ASSUME NEW A, A \subseteq 1 .. 3
  PROVE  Cardinality(A) = (IF 1 \in A THEN 1 ELSE 0) + (IF 2 \in A THEN 1 ELSE 0) + (IF 3 \in A THEN 1 ELSE 0)
<1>1. PICK X : X = IF 1 \in A THEN {} \cup {1} ELSE {}
  OBVIOUS
<1>2. PICK Y : Y = IF 2 \in A THEN X \cup {2} ELSE X
  OBVIOUS
<1>3. PICK Z : Z = IF 3 \in A THEN Y \cup {3} ELSE Y
  OBVIOUS
<1>4. IsFiniteSet({}) /\ Cardinality({}) = 0 /\ 1 \notin {}
  BY FS_EmptySet
<1>5. IsFiniteSet(X) /\ Cardinality(X) = 0 + (IF 1 \in A THEN 1 ELSE 0)
  BY <1>1, <1>4, CountAdded
<1>6. 2 \notin X
  BY <1>1
<1>7. IsFiniteSet(Y) /\ Cardinality(Y) = Cardinality(X) + (IF 2 \in A THEN 1 ELSE 0)
  BY <1>2, <1>5, <1>6, CountAdded
<1>8. 3 \notin Y
  BY <1>1, <1>2
<1>9. Cardinality(Z) = Cardinality(Y) + (IF 3 \in A THEN 1 ELSE 0)
  BY <1>3, <1>7, <1>8, CountAdded
<1>10. A = Z
  <2>1. Z \subseteq {1, 2, 3} /\ A \subseteq {1, 2, 3}
    BY <1>1, <1>2, <1>3
  <2>2. (1 \in Z <=> 1 \in A) /\ (2 \in Z <=> 2 \in A) /\ (3 \in Z <=> 3 \in A)
    BY <1>1, <1>2, <1>3
  <2>3. \A x : x \in A <=> x \in Z
    BY <2>1, <2>2
  <2> QED BY <2>3, Zenon
<1> QED BY <1>5, <1>7, <1>9, <1>10

(* What the terms of a clause are worth, by the signs of the literals, the *)
(* values of the variables and that of the ancilla.                        *)
ThreeValues(n1, n2, n3, y1, y2, y3, a, s1, s2, s3, W, o, m, e) ==
  /\ n1 \in {0, 1} /\ n2 \in {0, 1} /\ n3 \in {0, 1}
  /\ y1 \in {0, 1} /\ y2 \in {0, 1} /\ y3 \in {0, 1} /\ a \in {0, 1}
  /\ s1 = 1 - 2 * n1 /\ s2 = 1 - 2 * n2 /\ s3 = 1 - 2 * n3
  /\ W = s1 * (1 - (n2 + n3)) * y1 * y1 + s2 * (1 - (n1 + n3)) * y2 * y2 + s3 * (1 - (n1 + n2)) * y3 * y3
           + ((n1 + n2 + n3) - 2) * a * a
           + (-s1 * s2) * y1 * y2 + (-s1 * s3) * y1 * y3 + (-s2 * s3) * y2 * y3
           + s1 * y1 * a + s2 * y2 * a + s3 * y3 * a
  /\ o = IF n1 + n2 + n3 \in {1, 2} THEN 1 ELSE 0
  /\ m = IF y1 # n1 \/ y2 # n2 \/ y3 # n3 THEN 1 ELSE 0
  /\ e = IF y1 # n1 /\ y2 # n2 /\ y3 # n3 THEN 1 ELSE 0

LEMMA ThreeAlgebra ==
  ASSUME NEW n1, NEW n2, NEW n3, NEW y1, NEW y2, NEW y3, NEW a, NEW s1, NEW s2, NEW s3,
         NEW W, NEW o, NEW m, NEW e, ThreeValues(n1, n2, n3, y1, y2, y3, a, s1, s2, s3, W, o, m, e)
  PROVE  W \in Int /\ W + o <= m /\ (a = e => W + o = m)
<1>1. s1 \in Int /\ s2 \in Int /\ s3 \in Int
  BY DEF ThreeValues
<1> QED BY <1>1 DEF ThreeValues

(* The same of a clause of two, and of one.                                *)
TwoValues(n1, n2, y1, y2, s1, s2, W, o, m) ==
  /\ n1 \in {0, 1} /\ n2 \in {0, 1} /\ y1 \in {0, 1} /\ y2 \in {0, 1}
  /\ s1 = 1 - 2 * n1 /\ s2 = 1 - 2 * n2
  /\ W = s1 * (1 - n2) * y1 * y1 + s2 * (1 - n1) * y2 * y2 + (-s1 * s2) * y1 * y2
  /\ o = IF n1 + n2 \in {1, 2} THEN 1 ELSE 0
  /\ m = IF y1 # n1 \/ y2 # n2 THEN 1 ELSE 0

LEMMA TwoAlgebra ==
  ASSUME NEW n1, NEW n2, NEW y1, NEW y2, NEW s1, NEW s2, NEW W, NEW o, NEW m,
         TwoValues(n1, n2, y1, y2, s1, s2, W, o, m)
  PROVE  W \in Int /\ W + o = m
<1>1. s1 \in Int /\ s2 \in Int
  BY DEF TwoValues
<1> QED BY <1>1 DEF TwoValues

OneValues(n1, y1, s1, W, o, m) ==
  /\ n1 \in {0, 1} /\ y1 \in {0, 1} /\ s1 = 1 - 2 * n1
  /\ W = s1 * (1 - 0) * y1 * y1
  /\ o = IF n1 \in {1, 2} THEN 1 ELSE 0
  /\ m = IF y1 # n1 THEN 1 ELSE 0

LEMMA OneAlgebra ==
  ASSUME NEW n1, NEW y1, NEW s1, NEW W, NEW o, NEW m, OneValues(n1, y1, s1, W, o, m)
  PROVE  W \in Int /\ W + o = m
<1>1. s1 \in Int
  BY DEF OneValues
<1> QED BY <1>1 DEF OneValues

LEMMA Signs ==
  ASSUME NEW l
  PROVE  Negative(l) \in {0, 1} /\ SignOf(l) = 1 - 2 * Negative(l) /\ (l < 0 <=> Negative(l) = 1)
BY DEF Negative, SignOf

(* The negative literals of a clause, and those but one.                   *)
Negatives(c) == {i \in DOMAIN c : c[i] < 0}
Surplus(c) == IF Cardinality(Negatives(c)) \in {1, 2} THEN 1 ELSE 0
DistinctLiterals(c) == \A i, j \in DOMAIN c : c[i] = c[j] => i = j

LEMMA LinearCounts ==
  ASSUME NEW c, DistinctLiterals(c), NEW i \in DOMAIN c
  PROVE  Linear(c, i) = SignOf(c[i]) * (1 - Cardinality(Negatives(c) \ {i}))
<1>1. {j \in DOMAIN c : c[j] < 0 /\ c[j] # c[i]} = Negatives(c) \ {i}
  BY DEF DistinctLiterals, Negatives
<1>2. Linear(c, i) = SignOf(c[i]) * (1 - Cardinality({j \in DOMAIN c : c[j] < 0 /\ c[j] # c[i]}))
  BY Zenon DEF Linear
<1> QED BY <1>1, <1>2, Zenon

(* The coefficients of a clause of three literals.                         *)
LEMMA ThreeCoefficients ==
  ASSUME NEW c \in Seq(Int), Len(c) = 3, DistinctVariables(c),
         NEW n1, NEW n2, NEW n3, n1 = Negative(c[1]), n2 = Negative(c[2]), n3 = Negative(c[3])
  PROVE  /\ Cardinality(Negatives(c)) = n1 + n2 + n3
         /\ Coefficient(c, 1, 1) = SignOf(c[1]) * (1 - (n2 + n3))
         /\ Coefficient(c, 2, 2) = SignOf(c[2]) * (1 - (n1 + n3))
         /\ Coefficient(c, 3, 3) = SignOf(c[3]) * (1 - (n1 + n2))
         /\ Coefficient(c, 4, 4) = (n1 + n2 + n3) - 2
         /\ Coefficient(c, 1, 2) = -SignOf(c[1]) * SignOf(c[2])
         /\ Coefficient(c, 1, 3) = -SignOf(c[1]) * SignOf(c[3])
         /\ Coefficient(c, 2, 3) = -SignOf(c[2]) * SignOf(c[3])
         /\ Coefficient(c, 1, 4) = SignOf(c[1])
         /\ Coefficient(c, 2, 4) = SignOf(c[2])
         /\ Coefficient(c, 3, 4) = SignOf(c[3])
<1>1. DOMAIN c = 1 .. 3
  OBVIOUS
<1>2. DistinctLiterals(c) /\ \A i, j \in 1 .. 3 : VariableOf(c[i]) = VariableOf(c[j]) => i = j
  BY <1>1 DEF DistinctVariables, DistinctLiterals
<1>3. PICK N : N = Negatives(c)
  OBVIOUS
<1>4. /\ N \subseteq 1 .. 3
      /\ (IF 1 \in N THEN 1 ELSE 0) = n1 /\ (IF 2 \in N THEN 1 ELSE 0) = n2 /\ (IF 3 \in N THEN 1 ELSE 0) = n3
      /\ n1 \in {0, 1} /\ n2 \in {0, 1} /\ n3 \in {0, 1}
  BY <1>1, <1>3 DEF Negatives, Negative
<1>5. Cardinality(N) = n1 + n2 + n3
  BY <1>4, CountThree
<1>6. Coefficient(c, 1, 1) = SignOf(c[1]) * (1 - (n2 + n3))
  <2>1. PICK M : M = N \ {1}
    OBVIOUS
  <2>2. Cardinality(M) = (IF 1 \in M THEN 1 ELSE 0) + (IF 2 \in M THEN 1 ELSE 0) + (IF 3 \in M THEN 1 ELSE 0)
    <3>1. M \subseteq 1 .. 3
      BY <1>4, <2>1
    <3> QED BY <3>1, CountThree
  <2>3. (2 \in M <=> 2 \in N) /\ (3 \in M <=> 3 \in N) /\ 1 \notin M
    BY <2>1
  <2>4. Cardinality(M) = n2 + n3
    BY <1>4, <2>2, <2>3
  <2>5. Linear(c, 1) = SignOf(c[1]) * (1 - Cardinality(M))
    BY <1>1, <1>2, <1>3, <2>1, LinearCounts
  <2>6. Coefficient(c, 1, 1) = Linear(c, 1)
    BY DEF Coefficient
  <2> QED BY <2>4, <2>5, <2>6, Zenon
<1>7. Coefficient(c, 2, 2) = SignOf(c[2]) * (1 - (n1 + n3))
  <2>1. PICK M : M = N \ {2}
    OBVIOUS
  <2>2. Cardinality(M) = (IF 1 \in M THEN 1 ELSE 0) + (IF 2 \in M THEN 1 ELSE 0) + (IF 3 \in M THEN 1 ELSE 0)
    <3>1. M \subseteq 1 .. 3
      BY <1>4, <2>1
    <3> QED BY <3>1, CountThree
  <2>3. (1 \in M <=> 1 \in N) /\ (3 \in M <=> 3 \in N) /\ 2 \notin M
    BY <2>1
  <2>4. Cardinality(M) = n1 + n3
    BY <1>4, <2>2, <2>3
  <2>5. Linear(c, 2) = SignOf(c[2]) * (1 - Cardinality(M))
    BY <1>1, <1>2, <1>3, <2>1, LinearCounts
  <2>6. Coefficient(c, 2, 2) = Linear(c, 2)
    BY DEF Coefficient
  <2> QED BY <2>4, <2>5, <2>6, Zenon
<1>8. Coefficient(c, 3, 3) = SignOf(c[3]) * (1 - (n1 + n2))
  <2>1. PICK M : M = N \ {3}
    OBVIOUS
  <2>2. Cardinality(M) = (IF 1 \in M THEN 1 ELSE 0) + (IF 2 \in M THEN 1 ELSE 0) + (IF 3 \in M THEN 1 ELSE 0)
    <3>1. M \subseteq 1 .. 3
      BY <1>4, <2>1
    <3> QED BY <3>1, CountThree
  <2>3. (1 \in M <=> 1 \in N) /\ (2 \in M <=> 2 \in N) /\ 3 \notin M
    BY <2>1
  <2>4. Cardinality(M) = n1 + n2
    BY <1>4, <2>2, <2>3
  <2>5. Linear(c, 3) = SignOf(c[3]) * (1 - Cardinality(M))
    BY <1>1, <1>2, <1>3, <2>1, LinearCounts
  <2>6. Coefficient(c, 3, 3) = Linear(c, 3)
    BY DEF Coefficient
  <2> QED BY <2>4, <2>5, <2>6, Zenon
<1>9. Coefficient(c, 4, 4) = (n1 + n2 + n3) - 2
  BY <1>3, <1>5 DEF Coefficient, Negatives
<1>10. /\ Coefficient(c, 1, 2) = -SignOf(c[1]) * SignOf(c[2])
       /\ Coefficient(c, 1, 3) = -SignOf(c[1]) * SignOf(c[3])
       /\ Coefficient(c, 2, 3) = -SignOf(c[2]) * SignOf(c[3])
  BY DEF Coefficient
<1>11. Coefficient(c, 1, 4) = SignOf(c[1])
  <2>1. ~\E n \in 2 .. 3 : VariableOf(c[n]) = VariableOf(c[1])
    BY <1>2
  <2> QED BY <2>1 DEF Coefficient
<1>12. Coefficient(c, 2, 4) = SignOf(c[2])
  <2>1. ~\E n \in 3 .. 3 : VariableOf(c[n]) = VariableOf(c[2])
    BY <1>2
  <2> QED BY <2>1 DEF Coefficient
<1>13. Coefficient(c, 3, 4) = SignOf(c[3])
  <2>1. ~\E n \in 4 .. 3 : VariableOf(c[n]) = VariableOf(c[3])
    OBVIOUS
  <2> QED BY <2>1 DEF Coefficient
<1> QED BY <1>3, <1>5, <1>6, <1>7, <1>8, <1>9, <1>10, <1>11, <1>12, <1>13

(* What a clause is worth, under the values of its places.                 *)
WorthOf(c, y, k, f) ==
  \A i, j \in LiteralPlaces(c) : i <= j => f[<<k, i, j>>] = Coefficient(c, i, j) * y[i] * y[j]
Met(c, y)     == \E i \in DOMAIN c : y[i] # Negative(c[i])
AllMet(c, y)  == \A i \in DOMAIN c : y[i] # Negative(c[i])

(* A clause of three literals is worth at most 1 if it is met and 0 if     *)
(* not, less its surplus, and just that with the right ancilla; one of two *)
(* or one literals always just that.                                       *)
LEMMA ThreeWorth ==
  ASSUME NEW c \in Seq(Int), Len(c) = 3, DistinctVariables(c), NEW k,
         NEW y, \A i \in 1 .. 4 : y[i] \in {0, 1},
         NEW f, WorthOf(c, y, k, f), \A t \in TenTerms(k) : f[t] \in Int
  PROVE  /\ SumFunctionOnSet(f, TenTerms(k)) \in Int
         /\ SumFunctionOnSet(f, TenTerms(k)) + Surplus(c) <= (IF Met(c, y) THEN 1 ELSE 0)
         /\ (y[4] = IF AllMet(c, y) THEN 1 ELSE 0) =>
              SumFunctionOnSet(f, TenTerms(k)) + Surplus(c) = (IF Met(c, y) THEN 1 ELSE 0)
<1>1. DOMAIN c = 1 .. 3 /\ LiteralPlaces(c) = 1 .. 4
  BY DEF LiteralPlaces
<1>2. PICK n1, n2, n3, s1, s2, s3 : /\ n1 = Negative(c[1]) /\ n2 = Negative(c[2]) /\ n3 = Negative(c[3])
                                    /\ s1 = SignOf(c[1]) /\ s2 = SignOf(c[2]) /\ s3 = SignOf(c[3])
  OBVIOUS
<1>3. n1 \in {0, 1} /\ n2 \in {0, 1} /\ n3 \in {0, 1} /\ s1 = 1 - 2 * n1 /\ s2 = 1 - 2 * n2 /\ s3 = 1 - 2 * n3
  BY <1>2, Signs
<1>4. s1 \in Int /\ s2 \in Int /\ s3 \in Int
  BY <1>3
<1>5. PICK y1 \in {0, 1}, y2 \in {0, 1}, y3 \in {0, 1}, a \in {0, 1} : y1 = y[1] /\ y2 = y[2] /\ y3 = y[3] /\ a = y[4]
  OBVIOUS
<1>6. /\ Cardinality(Negatives(c)) = n1 + n2 + n3
      /\ Coefficient(c, 1, 1) = s1 * (1 - (n2 + n3))
      /\ Coefficient(c, 2, 2) = s2 * (1 - (n1 + n3))
      /\ Coefficient(c, 3, 3) = s3 * (1 - (n1 + n2))
      /\ Coefficient(c, 4, 4) = (n1 + n2 + n3) - 2
      /\ Coefficient(c, 1, 2) = -s1 * s2
      /\ Coefficient(c, 1, 3) = -s1 * s3
      /\ Coefficient(c, 2, 3) = -s2 * s3
      /\ Coefficient(c, 1, 4) = s1
      /\ Coefficient(c, 2, 4) = s2
      /\ Coefficient(c, 3, 4) = s3
  <2>1. /\ Cardinality(Negatives(c)) = n1 + n2 + n3
         /\ Coefficient(c, 1, 1) = SignOf(c[1]) * (1 - (n2 + n3))
         /\ Coefficient(c, 2, 2) = SignOf(c[2]) * (1 - (n1 + n3))
         /\ Coefficient(c, 3, 3) = SignOf(c[3]) * (1 - (n1 + n2))
         /\ Coefficient(c, 4, 4) = (n1 + n2 + n3) - 2
         /\ Coefficient(c, 1, 2) = -SignOf(c[1]) * SignOf(c[2])
         /\ Coefficient(c, 1, 3) = -SignOf(c[1]) * SignOf(c[3])
         /\ Coefficient(c, 2, 3) = -SignOf(c[2]) * SignOf(c[3])
         /\ Coefficient(c, 1, 4) = SignOf(c[1])
         /\ Coefficient(c, 2, 4) = SignOf(c[2])
         /\ Coefficient(c, 3, 4) = SignOf(c[3])
    BY <1>2, ThreeCoefficients
  <2> QED BY <1>2, <2>1, Zenon
<1>7. \A i, j \in 1 .. 4 : i <= j => f[<<k, i, j>>] = Coefficient(c, i, j) * y[i] * y[j]
  BY <1>1 DEF WorthOf
<1>8. /\ f[<<k, 1, 1>>] = s1 * (1 - (n2 + n3)) * y1 * y1
      /\ f[<<k, 2, 2>>] = s2 * (1 - (n1 + n3)) * y2 * y2
      /\ f[<<k, 3, 3>>] = s3 * (1 - (n1 + n2)) * y3 * y3
      /\ f[<<k, 4, 4>>] = ((n1 + n2 + n3) - 2) * a * a
  BY <1>5, <1>6, <1>7
<1>9. /\ f[<<k, 1, 2>>] = (-s1 * s2) * y1 * y2
      /\ f[<<k, 1, 3>>] = (-s1 * s3) * y1 * y3
      /\ f[<<k, 2, 3>>] = (-s2 * s3) * y2 * y3
      /\ f[<<k, 1, 4>>] = s1 * y1 * a
      /\ f[<<k, 2, 4>>] = s2 * y2 * a
      /\ f[<<k, 3, 4>>] = s3 * y3 * a
  BY <1>5, <1>6, <1>7
<1>10. PICK W : W = SumFunctionOnSet(f, TenTerms(k))
  OBVIOUS
<1>11. W = s1 * (1 - (n2 + n3)) * y1 * y1 + s2 * (1 - (n1 + n3)) * y2 * y2 + s3 * (1 - (n1 + n2)) * y3 * y3
               + ((n1 + n2 + n3) - 2) * a * a
               + (-s1 * s2) * y1 * y2 + (-s1 * s3) * y1 * y3 + (-s2 * s3) * y2 * y3
               + s1 * y1 * a + s2 * y2 * a + s3 * y3 * a
  <2>1. W = f[<<k, 1, 1>>] + f[<<k, 2, 2>>] + f[<<k, 3, 3>>] + f[<<k, 4, 4>>] + f[<<k, 1, 2>>]
              + f[<<k, 1, 3>>] + f[<<k, 2, 3>>] + f[<<k, 1, 4>>] + f[<<k, 2, 4>>] + f[<<k, 3, 4>>]
    BY <1>10, SumOfTen
  <2> QED BY <1>8, <1>9, <2>1, Zenon
<1>12. PICK o, m, e : /\ o = IF n1 + n2 + n3 \in {1, 2} THEN 1 ELSE 0
                      /\ m = IF y1 # n1 \/ y2 # n2 \/ y3 # n3 THEN 1 ELSE 0
                      /\ e = IF y1 # n1 /\ y2 # n2 /\ y3 # n3 THEN 1 ELSE 0
  OBVIOUS
<1>13. W \in Int /\ W + o <= m /\ (a = e => W + o = m)
  <2>1. y1 \in {0, 1} /\ y2 \in {0, 1} /\ y3 \in {0, 1} /\ a \in {0, 1}
    OBVIOUS
  <2>2. ThreeValues(n1, n2, n3, y1, y2, y3, a, s1, s2, s3, W, o, m, e)
    BY <1>3, <1>11, <1>12, <2>1, Zenon DEF ThreeValues
  <2> QED BY <2>2, ThreeAlgebra
<1>14. o = Surplus(c)
  BY <1>6, <1>12 DEF Surplus
<1>15. (Met(c, y) <=> y1 # n1 \/ y2 # n2 \/ y3 # n3) /\ (AllMet(c, y) <=> y1 # n1 /\ y2 # n2 /\ y3 # n3)
  <2>1. \A i \in 1 .. 3 : i = 1 \/ i = 2 \/ i = 3
    OBVIOUS
  <2>2. 1 \in 1 .. 3 /\ 2 \in 1 .. 3 /\ 3 \in 1 .. 3
    OBVIOUS
  <2> QED BY <1>1, <1>2, <1>5, <2>1, <2>2 DEF Met, AllMet
<1>16. m = (IF Met(c, y) THEN 1 ELSE 0) /\ e = (IF AllMet(c, y) THEN 1 ELSE 0)
  BY <1>12, <1>15
<1> QED BY <1>5, <1>10, <1>13, <1>14, <1>16

LEMMA TwoWorth ==
  ASSUME NEW c \in Seq(Int), Len(c) = 2, DistinctVariables(c), NEW k,
         NEW y, \A i \in 1 .. 2 : y[i] \in {0, 1},
         NEW f, WorthOf(c, y, k, f), \A t \in ThreeTerms(k) : f[t] \in Int
  PROVE  /\ SumFunctionOnSet(f, ThreeTerms(k)) \in Int
         /\ SumFunctionOnSet(f, ThreeTerms(k)) + Surplus(c) = IF Met(c, y) THEN 1 ELSE 0
<1>1. DOMAIN c = 1 .. 2 /\ LiteralPlaces(c) = 1 .. 2
  BY DEF LiteralPlaces
<1>2. PICK n1, n2, s1, s2 : n1 = Negative(c[1]) /\ n2 = Negative(c[2]) /\ s1 = SignOf(c[1]) /\ s2 = SignOf(c[2])
  OBVIOUS
<1>3. n1 \in {0, 1} /\ n2 \in {0, 1} /\ s1 = 1 - 2 * n1 /\ s2 = 1 - 2 * n2
  BY <1>2, Signs
<1>4. s1 \in Int /\ s2 \in Int
  BY <1>3
<1>5. PICK y1 \in {0, 1}, y2 \in {0, 1} : y1 = y[1] /\ y2 = y[2]
  OBVIOUS
<1>6. DistinctLiterals(c)
  BY <1>1 DEF DistinctVariables, DistinctLiterals
<1>7. PICK N : N = Negatives(c)
  OBVIOUS
<1>8. /\ N \subseteq 1 .. 3 /\ 3 \notin N
      /\ (IF 1 \in N THEN 1 ELSE 0) = n1 /\ (IF 2 \in N THEN 1 ELSE 0) = n2
  BY <1>1, <1>2, <1>7 DEF Negatives, Negative
<1>9. Cardinality(N) = n1 + n2
  <2>1. Cardinality(N) = (IF 1 \in N THEN 1 ELSE 0) + (IF 2 \in N THEN 1 ELSE 0) + (IF 3 \in N THEN 1 ELSE 0)
    BY <1>8, CountThree
  <2> QED BY <1>3, <1>8, <2>1
<1>10. Linear(c, 1) = s1 * (1 - n2) /\ Linear(c, 2) = s2 * (1 - n1)
  <2>1. PICK M : M = N \ {1}
    OBVIOUS
  <2>2. PICK K : K = N \ {2}
    OBVIOUS
  <2>3. Cardinality(M) = (IF 1 \in M THEN 1 ELSE 0) + (IF 2 \in M THEN 1 ELSE 0) + (IF 3 \in M THEN 1 ELSE 0)
    <3>1. M \subseteq 1 .. 3
      BY <1>8, <2>1
    <3> QED BY <3>1, CountThree
  <2>4. Cardinality(K) = (IF 1 \in K THEN 1 ELSE 0) + (IF 2 \in K THEN 1 ELSE 0) + (IF 3 \in K THEN 1 ELSE 0)
    <3>1. K \subseteq 1 .. 3
      BY <1>8, <2>2
    <3> QED BY <3>1, CountThree
  <2>5. /\ 1 \notin M /\ (2 \in M <=> 2 \in N) /\ 3 \notin M
        /\ (1 \in K <=> 1 \in N) /\ 2 \notin K /\ 3 \notin K
    BY <1>8, <2>1, <2>2
  <2>6. Cardinality(M) = n2 /\ Cardinality(K) = n1
    BY <1>3, <1>8, <2>3, <2>4, <2>5
  <2>7. Linear(c, 1) = SignOf(c[1]) * (1 - Cardinality(M)) /\ Linear(c, 2) = SignOf(c[2]) * (1 - Cardinality(K))
    BY <1>1, <1>6, <1>7, <2>1, <2>2, LinearCounts
  <2> QED BY <1>2, <2>6, <2>7, Zenon
<1>11. Coefficient(c, 1, 1) = Linear(c, 1) /\ Coefficient(c, 2, 2) = Linear(c, 2) /\ Coefficient(c, 1, 2) = -s1 * s2
  BY <1>2 DEF Coefficient
<1>12. \A i, j \in 1 .. 2 : i <= j => f[<<k, i, j>>] = Coefficient(c, i, j) * y[i] * y[j]
  BY <1>1 DEF WorthOf
<1>13. /\ f[<<k, 1, 1>>] = s1 * (1 - n2) * y1 * y1
       /\ f[<<k, 2, 2>>] = s2 * (1 - n1) * y2 * y2
       /\ f[<<k, 1, 2>>] = (-s1 * s2) * y1 * y2
  BY <1>5, <1>10, <1>11, <1>12
<1>14. PICK W, o, m : /\ W = SumFunctionOnSet(f, ThreeTerms(k))
                      /\ o = IF n1 + n2 \in {1, 2} THEN 1 ELSE 0
                      /\ m = IF y1 # n1 \/ y2 # n2 THEN 1 ELSE 0
  OBVIOUS
<1>15. W = s1 * (1 - n2) * y1 * y1 + s2 * (1 - n1) * y2 * y2 + (-s1 * s2) * y1 * y2
  <2>1. W = f[<<k, 1, 1>>] + f[<<k, 2, 2>>] + f[<<k, 1, 2>>]
    BY <1>14, SumOfThree
  <2> QED BY <1>13, <2>1, Zenon
<1>16. W \in Int /\ W + o = m
  <2>1. y1 \in {0, 1} /\ y2 \in {0, 1}
    OBVIOUS
  <2>2. TwoValues(n1, n2, y1, y2, s1, s2, W, o, m)
    BY <1>3, <1>14, <1>15, <2>1, Zenon DEF TwoValues
  <2> QED BY <2>2, TwoAlgebra, Zenon
<1>17. o = Surplus(c)
  BY <1>7, <1>9, <1>14 DEF Surplus
<1>18. Met(c, y) <=> y1 # n1 \/ y2 # n2
  <2>1. \A i \in 1 .. 2 : i = 1 \/ i = 2
    OBVIOUS
  <2>2. 1 \in 1 .. 2 /\ 2 \in 1 .. 2
    OBVIOUS
  <2> QED BY <1>1, <1>2, <1>5, <2>1, <2>2 DEF Met
<1> QED BY <1>14, <1>16, <1>17, <1>18

LEMMA OneWorth ==
  ASSUME NEW c \in Seq(Int), Len(c) = 1, NEW k, NEW y, y[1] \in {0, 1},
         NEW f, WorthOf(c, y, k, f), f[<<k, 1, 1>>] \in Int
  PROVE  /\ SumFunctionOnSet(f, {<<k, 1, 1>>}) \in Int
         /\ SumFunctionOnSet(f, {<<k, 1, 1>>}) + Surplus(c) = IF Met(c, y) THEN 1 ELSE 0
<1>1. DOMAIN c = {1} /\ LiteralPlaces(c) = {1}
  BY DEF LiteralPlaces
<1>2. PICK n1, s1 : n1 = Negative(c[1]) /\ s1 = SignOf(c[1])
  OBVIOUS
<1>3. n1 \in {0, 1} /\ s1 = 1 - 2 * n1 /\ s1 \in Int
  BY <1>2, Signs
<1>4. DistinctLiterals(c)
  BY <1>1 DEF DistinctLiterals
<1>5. Negatives(c) = (IF n1 = 1 THEN {1} ELSE {}) /\ Negatives(c) \ {1} = {}
  BY <1>1, <1>2 DEF Negatives, Negative
<1>6. Cardinality({1}) = 1 /\ Cardinality({}) = 0
  BY FS_EmptySet, FS_Singleton
<1>7. Cardinality(Negatives(c)) = n1 /\ Cardinality(Negatives(c) \ {1}) = 0
  BY <1>3, <1>5, <1>6
<1>8. Linear(c, 1) = SignOf(c[1]) * (1 - Cardinality(Negatives(c) \ {1}))
  BY <1>1, <1>4, LinearCounts
<1>9. Coefficient(c, 1, 1) = Linear(c, 1)
  BY DEF Coefficient
<1>10. f[<<k, 1, 1>>] = Coefficient(c, 1, 1) * y[1] * y[1]
  BY <1>1 DEF WorthOf
<1>11. PICK W, o, m, y1 : /\ W = SumFunctionOnSet(f, {<<k, 1, 1>>}) /\ y1 = y[1]
                          /\ o = IF n1 \in {1, 2} THEN 1 ELSE 0
                          /\ m = IF y1 # n1 THEN 1 ELSE 0
  OBVIOUS
<1>12. W = f[<<k, 1, 1>>]
  BY <1>11, SumOfOne
<1>13. W = s1 * (1 - 0) * y1 * y1
  BY <1>2, <1>7, <1>8, <1>9, <1>10, <1>11, <1>12, Zenon
<1>14. W \in Int /\ W + o = m
  <2>1. y1 \in {0, 1}
    BY <1>11
  <2>2. OneValues(n1, y1, s1, W, o, m)
    BY <1>3, <1>11, <1>13, <2>1, Zenon DEF OneValues
  <2> QED BY <2>2, OneAlgebra, Zenon
<1>15. o = Surplus(c)
  BY <1>7, <1>11 DEF Surplus
<1>16. Met(c, y) <=> y1 # n1
  BY <1>1, <1>2, <1>11 DEF Met
<1> QED BY <1>11, <1>14, <1>15, <1>16

(* Sums of terms in order are in order.                                    *)
LEMMA SumAtMost ==
  ASSUME NEW S, IsFiniteSet(S), NEW f, NEW g,
         \A x \in S : f[x] \in Int /\ g[x] \in Int /\ f[x] <= g[x]
  PROVE  SumFunctionOnSet(f, S) <= SumFunctionOnSet(g, S)
<1> DEFINE T == {A \in SUBSET S : ~(SumFunctionOnSet(f, A) <= SumFunctionOnSet(g, A))}
<1> SUFFICES ASSUME T # {} PROVE FALSE
  OBVIOUS
<1>1. \A A \in T : IsFiniteSet(A)
  BY FS_Subset
<1>2. PICK A \in T : \A B \in T : B \subseteq A => B = A
  <2> HIDE DEF T
  <2> QED BY <1>1, SmallestSet
<1>3. A # {}
  <2>1. \A k : SumFunctionOnSet(k, {}) = 0
    BY SumEmpty
  <2>2. {} \notin T
    BY <2>1
  <2> QED BY <2>2
<1>4. PICK p \in A : p = Pick(A)
  BY <1>3, PickIn
<1> DEFINE R == A \ {p}
<1>5. SumFunctionOnSet(f, R) <= SumFunctionOnSet(g, R)
  BY <1>2, <1>4
<1>6. SumFunctionOnSet(f, R) \in Int /\ SumFunctionOnSet(g, R) \in Int
  <2>1. IsFiniteSet(R) /\ R \subseteq S
    BY <1>1, FS_Subset
  <2> QED BY <2>1, SumInt
<1>7. \A k : SumFunctionOnSet(k, A) = k[p] + SumFunctionOnSet(k, R)
  BY <1>1, <1>3, <1>4, SumPick
<1>8. f[p] \in Int /\ g[p] \in Int /\ f[p] <= g[p]
  OBVIOUS
<1>9. PICK m \in Int, k \in Int : m = SumFunctionOnSet(f, R) /\ k = SumFunctionOnSet(g, R)
  BY <1>6
<1>10. SumFunctionOnSet(f, A) = f[p] + m /\ SumFunctionOnSet(g, A) = g[p] + k /\ m <= k
  BY <1>5, <1>7, <1>9
<1> QED BY <1>8, <1>10

(* The clauses of at most three that the encoding takes.                   *)
Encodable(F) ==
  /\ F \in Seq(Clause)
  /\ \A k \in DOMAIN F : Len(F[k]) \in 1 .. 3 /\ DistinctVariables(F[k]) /\ \A i \in DOMAIN F[k] : F[k][i] # 0

(* The values of a clause's places, and the assignment behind them.        *)
PlaceValues(F, v, z, k) == [i \in 1 .. 4 |-> z[NumberOf(F, v, k, i)]]
AncillasRight(F, v, z) ==
  \A k \in Threes(F) : z[NumberOf(F, v, k, 4)] = IF AllMet(F[k], PlaceValues(F, v, z, k)) THEN 1 ELSE 0
Shifted(z) == [u \in Int |-> z[u - 1]]
ClauseMet(F, x) == [k \in DOMAIN F |-> IF \E l \in Literals(F[k]) : True(l, x) THEN 1 ELSE 0]

(* The places of a clause meet it when one of its literals is true.        *)
LEMMA MetTrue ==
  ASSUME NEW F, Encodable(F), NEW v \in Nat, NEW z \in [Int -> {0, 1}], NEW k \in DOMAIN F
  PROVE  Met(F[k], PlaceValues(F, v, z, k)) <=> \E l \in Literals(F[k]) : True(l, Shifted(z))
<1>1. PICK c, y, x : c = F[k] /\ y = PlaceValues(F, v, z, k) /\ x = Shifted(z)
  OBVIOUS
<1>2. c \in Seq(Int) /\ Len(c) \in 1 .. 3 /\ DOMAIN c = 1 .. Len(c) /\ \A i \in DOMAIN c : c[i] # 0
  BY <1>1 DEF Encodable, Clause
<1>3. ASSUME NEW i \in DOMAIN c PROVE y[i] # Negative(c[i]) <=> True(c[i], x)
  <2>1. PICK l \in Int : l = c[i] /\ l # 0
    BY <1>2, <1>3
  <2>2. i \in 1 .. 4 /\ i # 4
    BY <1>2, <1>3
  <2>3. y[i] = z[VariableOf(l) - 1]
    BY <1>1, <2>1, <2>2 DEF PlaceValues, NumberOf
  <2>4. VariableOf(l) \in Int
    BY <2>1 DEF VariableOf
  <2>5. x[VariableOf(l)] = y[i] /\ y[i] \in {0, 1}
    BY <1>1, <2>3, <2>4 DEF Shifted
  <2>6. True(l, x) <=> y[i] = IF l > 0 THEN 1 ELSE 0
    BY <2>5 DEF True
  <2>7. CASE l > 0
    BY <2>1, <2>5, <2>6, <2>7 DEF Negative
  <2>8. CASE l < 0
    BY <2>1, <2>5, <2>6, <2>8 DEF Negative
  <2> QED BY <2>1, <2>7, <2>8
<1>4. Met(c, y) <=> \E i \in DOMAIN c : True(c[i], x)
  BY <1>3 DEF Met
<1>5. (\E i \in DOMAIN c : True(c[i], x)) <=> \E l \in Literals(c) : True(l, x)
  BY DEF Literals
<1> QED BY <1>1, <1>4, <1>5

(* The number of satisfied clauses is a sum.                               *)
LEMMA SatisfiedSum ==
  ASSUME NEW F, NEW L \in Nat, DOMAIN F = 1 .. L, NEW x
  PROVE  /\ Satisfied(F, x) \in Nat /\ \A k \in DOMAIN F : ClauseMet(F, x)[k] \in {0, 1}
         /\ Satisfied(F, x) = SumFunctionOnSet(ClauseMet(F, x), DOMAIN F)
<1>1. PICK D, P, m : /\ D = DOMAIN F /\ P = {k \in DOMAIN F : \E l \in Literals(F[k]) : True(l, x)}
                     /\ m = ClauseMet(F, x)
  OBVIOUS
<1>2. /\ P \subseteq D /\ (\A k \in P : m[k] = 1) /\ (\A k \in D \ P : m[k] = 0)
      /\ (\A k \in D : m[k] \in {0, 1}) /\ (\A k \in P : m[k] \in {0, 1}) /\ (\A k \in D : m[k] \in Int)
  BY <1>1 DEF ClauseMet
<1>3. IsFiniteSet(D) /\ IsFiniteSet(P) /\ Cardinality(P) \in Nat
  <2>1. D = 1 .. L
    BY <1>1
  <2> QED BY <1>2, <2>1, PlacesFinite
<1>4. SumFunctionOnSet(m, D) = SumFunctionOnSet(m, P)
  BY <1>2, <1>3, SumSupport
<1>5. SumFunctionOnSet(m, P) = Cardinality(P)
  BY <1>2, <1>3, SumBits
<1>6. Satisfied(F, x) = Cardinality(P)
  BY <1>1 DEF Satisfied
<1> QED BY <1>1, <1>2, <1>3, <1>4, <1>5, <1>6

(* The terms of a clause by its length.                                    *)
LEMMA TermsAtClause ==
  ASSUME NEW F, Encodable(F), NEW k \in DOMAIN F
  PROVE  /\ TermsAt(F, k) \subseteq TermsOf(F)
         /\ Len(F[k]) = 3 => TermsAt(F, k) = TenTerms(k)
         /\ Len(F[k]) = 2 => TermsAt(F, k) = ThreeTerms(k)
         /\ Len(F[k]) = 1 => TermsAt(F, k) = {<<k, 1, 1>>}
<1>1. F \in Seq(Clause) /\ F[k] \in Seq(Int)
  BY DEF Encodable, Clause
<1>2. /\ \A t \in TermsOf(F) : /\ t = <<t[1], t[2], t[3]>> /\ t[1] \in DOMAIN F
                               /\ t[2] \in LiteralPlaces(F[t[1]]) /\ t[3] \in LiteralPlaces(F[t[1]])
                               /\ t[2] \in 1 .. 4 /\ t[3] \in 1 .. 4 /\ t[2] <= t[3]
      /\ \A i, j \in LiteralPlaces(F[k]) : i <= j => <<k, i, j>> \in TermsOf(F)
  BY <1>1, TermFacts
<1>3. PICK T : T = TermsAt(F, k)
  OBVIOUS
<1>4. \A t : t \in T <=> t \in TermsOf(F) /\ t[1] = k
  BY <1>3 DEF TermsAt, Fiber
<1>5. \A t \in T : \E i, j \in LiteralPlaces(F[k]) : t = <<k, i, j>> /\ i <= j
  <2> SUFFICES ASSUME NEW t \in T PROVE \E i, j \in LiteralPlaces(F[k]) : t = <<k, i, j>> /\ i <= j
    OBVIOUS
  <2>1. /\ t = <<t[1], t[2], t[3]>> /\ t[1] = k
        /\ t[2] \in LiteralPlaces(F[t[1]]) /\ t[3] \in LiteralPlaces(F[t[1]]) /\ t[2] <= t[3]
    BY <1>2, <1>4
  <2>2. PICK i \in LiteralPlaces(F[k]), j \in LiteralPlaces(F[k]) : i = t[2] /\ j = t[3]
    BY <2>1
  <2> QED BY <2>1, <2>2
<1>6. \A i, j \in LiteralPlaces(F[k]) : i <= j => <<k, i, j>> \in T
  BY <1>2, <1>4
<1>7. CASE Len(F[k]) = 3
  <2>1. LiteralPlaces(F[k]) = 1 .. 4
    BY <1>7 DEF LiteralPlaces
  <2>2. \A t \in T : t \in TenTerms(k)
    <3> SUFFICES ASSUME NEW t \in T PROVE t \in TenTerms(k)
      OBVIOUS
    <3>1. PICK i \in 1 .. 4, j \in 1 .. 4 : t = <<k, i, j>> /\ i <= j
      BY <1>5, <2>1
    <3>2. (i = 1 \/ i = 2 \/ i = 3 \/ i = 4) /\ (j = 1 \/ j = 2 \/ j = 3 \/ j = 4)
      OBVIOUS
    <3> QED BY <3>1, <3>2 DEF TenTerms
  <2>3. \A t \in TenTerms(k) : t \in T
    BY <1>6, <2>1 DEF TenTerms
  <2>4. T = TenTerms(k)
    BY <2>2, <2>3
  <2> QED BY <1>3, <1>4, <1>7, <2>4
<1>8. CASE Len(F[k]) = 2
  <2>1. LiteralPlaces(F[k]) = 1 .. 2
    BY <1>1, <1>8 DEF LiteralPlaces
  <2>2. \A t \in T : t \in ThreeTerms(k)
    <3> SUFFICES ASSUME NEW t \in T PROVE t \in ThreeTerms(k)
      OBVIOUS
    <3>1. PICK i \in 1 .. 2, j \in 1 .. 2 : t = <<k, i, j>> /\ i <= j
      BY <1>5, <2>1
    <3>2. (i = 1 \/ i = 2) /\ (j = 1 \/ j = 2)
      OBVIOUS
    <3> QED BY <3>1, <3>2 DEF ThreeTerms
  <2>3. \A t \in ThreeTerms(k) : t \in T
    BY <1>6, <2>1 DEF ThreeTerms
  <2>4. T = ThreeTerms(k)
    BY <2>2, <2>3
  <2> QED BY <1>3, <1>4, <1>8, <2>4
<1>9. CASE Len(F[k]) = 1
  <2>1. LiteralPlaces(F[k]) = {1}
    BY <1>1, <1>9 DEF LiteralPlaces
  <2>2. T = {<<k, 1, 1>>}
    BY <1>5, <1>6, <2>1
  <2> QED BY <1>3, <1>4, <1>9, <2>2
<1>10. Len(F[k]) \in 1 .. 3
  BY DEF Encodable
<1> QED BY <1>7, <1>8, <1>9, <1>10

(* What a clause is worth is at most what it should be, and just that when *)
(* its ancilla has the value it should have.                               *)
LEMMA ClauseWorthFacts ==
  ASSUME NEW F, Encodable(F), NEW v \in Nat, NEW z \in [Int -> {0, 1}], NEW k \in DOMAIN F,
         NEW w, w = ClauseWorth(F, v, z)[k], NEW m, m = ClauseMet(F, Shifted(z))[k]
  PROVE  w \in Int /\ w + Surplus(F[k]) <= m /\ (AncillasRight(F, v, z) => w + Surplus(F[k]) = m)
<1>1. PICK c, y, f, T : /\ c = F[k] /\ y = PlaceValues(F, v, z, k) /\ f = TermValues(F, v, z) /\ T = TermsAt(F, k)
  OBVIOUS
<1>2. F \in Seq(Clause) /\ c \in Seq(Int) /\ Len(c) \in 1 .. 3 /\ DistinctVariables(c)
  BY <1>1 DEF Encodable, Clause
<1>3. w = SumFunctionOnSet(f, T)
  BY <1>1 DEF ClauseWorth
<1>4. m = IF Met(c, y) THEN 1 ELSE 0
  <2>1. m = IF \E l \in Literals(F[k]) : True(l, Shifted(z)) THEN 1 ELSE 0
    BY DEF ClauseMet
  <2> QED BY <1>1, <2>1, MetTrue
<1>5. \A i \in LiteralPlaces(c) : i \in 1 .. 4 /\ y[i] = z[NumberOf(F, v, k, i)] /\ y[i] \in {0, 1}
  <2> SUFFICES ASSUME NEW i \in LiteralPlaces(c)
               PROVE  i \in 1 .. 4 /\ y[i] = z[NumberOf(F, v, k, i)] /\ y[i] \in {0, 1}
    OBVIOUS
  <2>1. i \in 1 .. 4
    BY <1>2 DEF LiteralPlaces
  <2>2. NumberOf(F, v, k, i) \in Int
    BY <1>1, <1>2, PlaceNumber
  <2> QED BY <1>1, <2>1, <2>2 DEF PlaceValues
<1>6. WorthOf(c, y, k, f)
  <2> SUFFICES ASSUME NEW i \in LiteralPlaces(c), NEW j \in LiteralPlaces(c), i <= j
               PROVE  f[<<k, i, j>>] = Coefficient(c, i, j) * y[i] * y[j]
    BY DEF WorthOf
  <2>1. PICK t : t = <<k, i, j>>
    OBVIOUS
  <2>2. t \in TermsOf(F) /\ t[1] = k /\ t[2] = i /\ t[3] = j
    BY <1>1, <1>2, <2>1, TermFacts
  <2>3. f[t] = Coefficient(F[t[1]], t[2], t[3]) * z[NumberOf(F, v, t[1], t[2])] * z[NumberOf(F, v, t[1], t[3])]
    BY <1>1, <2>2 DEF TermValues
  <2>4. y[i] = z[NumberOf(F, v, k, i)] /\ y[j] = z[NumberOf(F, v, k, j)]
    BY <1>5
  <2> QED BY <1>1, <2>1, <2>2, <2>3, <2>4, Zenon
<1>7. \A t \in T : f[t] \in Int
  <2>1. T \subseteq TermsOf(F)
    BY <1>1, TermsAtClause
  <2>2. \A t \in TermsOf(F) : f[t] \in Int
    BY <1>1, <1>2, QuboTotal
  <2> QED BY <2>1, <2>2
<1>8. CASE Len(c) = 3
  <2>1. T = TenTerms(k)
    BY <1>1, <1>8, TermsAtClause
  <2>2. \A i \in 1 .. 4 : y[i] \in {0, 1}
    BY <1>5, <1>8 DEF LiteralPlaces
  <2>3. \A t \in TenTerms(k) : f[t] \in Int
    BY <1>7, <2>1
  <2>4. /\ SumFunctionOnSet(f, TenTerms(k)) \in Int
        /\ SumFunctionOnSet(f, TenTerms(k)) + Surplus(c) <= (IF Met(c, y) THEN 1 ELSE 0)
        /\ (y[4] = IF AllMet(c, y) THEN 1 ELSE 0) =>
              SumFunctionOnSet(f, TenTerms(k)) + Surplus(c) = (IF Met(c, y) THEN 1 ELSE 0)
    BY <1>2, <1>6, <1>8, <2>2, <2>3, ThreeWorth
  <2>5. AncillasRight(F, v, z) => y[4] = IF AllMet(c, y) THEN 1 ELSE 0
    <3>1. k \in Threes(F)
      BY <1>1, <1>8 DEF Threes
    <3>2. y[4] = z[NumberOf(F, v, k, 4)]
      BY <1>5, <1>8 DEF LiteralPlaces
    <3> QED BY <1>1, <3>1, <3>2 DEF AncillasRight
  <2> QED BY <1>1, <1>3, <1>4, <2>1, <2>4, <2>5
<1>9. CASE Len(c) = 2
  <2>1. T = ThreeTerms(k)
    BY <1>1, <1>9, TermsAtClause
  <2>2. \A i \in 1 .. 2 : y[i] \in {0, 1}
    BY <1>2, <1>5, <1>9 DEF LiteralPlaces
  <2>3. \A t \in ThreeTerms(k) : f[t] \in Int
    BY <1>7, <2>1
  <2>4. /\ SumFunctionOnSet(f, ThreeTerms(k)) \in Int
        /\ SumFunctionOnSet(f, ThreeTerms(k)) + Surplus(c) = IF Met(c, y) THEN 1 ELSE 0
    BY <1>2, <1>6, <1>9, <2>2, <2>3, TwoWorth
  <2>5. w \in Int /\ w + Surplus(c) = m /\ m \in Int
    BY <1>3, <1>4, <2>1, <2>4
  <2> QED BY <1>1, <2>5
<1>10. CASE Len(c) = 1
  <2>1. T = {<<k, 1, 1>>}
    BY <1>1, <1>10, TermsAtClause
  <2>2. y[1] \in {0, 1}
    BY <1>2, <1>5, <1>10 DEF LiteralPlaces
  <2>3. f[<<k, 1, 1>>] \in Int
    BY <1>7, <2>1
  <2>4. /\ SumFunctionOnSet(f, {<<k, 1, 1>>}) \in Int
        /\ SumFunctionOnSet(f, {<<k, 1, 1>>}) + Surplus(c) = IF Met(c, y) THEN 1 ELSE 0
    BY <1>2, <1>6, <1>10, <2>2, <2>3, OneWorth
  <2>5. w \in Int /\ w + Surplus(c) = m /\ m \in Int
    BY <1>3, <1>4, <2>1, <2>4
  <2> QED BY <1>1, <2>5
<1> QED BY <1>2, <1>8, <1>9, <1>10

(* The surplus of each clause.                                             *)
Surpluses(F) == [k \in DOMAIN F |-> Surplus(F[k])]

(* The objective of the QUBO is at least what the satisfied clauses make   *)
(* it, and just that when every ancilla has the value it should have.      *)
LEMMA QuboSatisfies ==
  ASSUME NEW F, Encodable(F), NEW v \in Nat, NEW z \in [Int -> {0, 1}],
         NEW q, q = SumFunctionOnSet(QuboTerms(get_idt(F, v), z), DOMAIN get_idt(F, v)),
         NEW u, u = SumFunctionOnSet(Surpluses(F), DOMAIN F)
  PROVE  /\ q \in Int /\ u \in Int /\ Satisfied(F, Shifted(z)) \in Nat
         /\ u - q <= Satisfied(F, Shifted(z))
         /\ AncillasRight(F, v, z) => u - q = Satisfied(F, Shifted(z))
<1>1. F \in Seq(Clause)
  BY DEF Encodable
<1>2. PICK L \in Nat : L = Len(F) /\ DOMAIN F = 1 .. L
  BY <1>1
<1>3. PICK D, w, o, m : /\ D = DOMAIN F /\ w = ClauseWorth(F, v, z) /\ o = Surpluses(F)
                        /\ m = ClauseMet(F, Shifted(z))
  OBVIOUS
<1>4. IsFiniteSet(D)
  <2>1. D = 1 .. L
    BY <1>2, <1>3
  <2> QED BY <2>1, PlacesFinite
<1>5. \A k \in D : /\ w[k] \in Int /\ o[k] \in Int /\ m[k] \in Int /\ w[k] + o[k] <= m[k]
                   /\ AncillasRight(F, v, z) => w[k] + o[k] = m[k]
  <2> SUFFICES ASSUME NEW k \in D
               PROVE  /\ w[k] \in Int /\ o[k] \in Int /\ m[k] \in Int /\ w[k] + o[k] <= m[k]
                      /\ AncillasRight(F, v, z) => w[k] + o[k] = m[k]
    OBVIOUS
  <2>1. w[k] \in Int /\ w[k] + Surplus(F[k]) <= m[k] /\ (AncillasRight(F, v, z) => w[k] + Surplus(F[k]) = m[k])
    BY <1>3, ClauseWorthFacts
  <2>2. o[k] = Surplus(F[k]) /\ o[k] \in Int
    BY <1>3 DEF Surpluses, Surplus
  <2>3. m[k] \in Int
    BY <1>3 DEF ClauseMet
  <2> QED BY <2>1, <2>2, <2>3
<1>6. Satisfied(F, Shifted(z)) \in Nat /\ Satisfied(F, Shifted(z)) = SumFunctionOnSet(m, D)
  BY <1>2, <1>3, SatisfiedSum
<1>7. PICK h : h = [k \in D |-> w[k] + o[k]]
  OBVIOUS
<1>8. SumFunctionOnSet(h, D) = SumFunctionOnSet(w, D) + SumFunctionOnSet(o, D)
  <2>1. \A k \in D : w[k] \in Int /\ o[k] \in Int /\ h[k] = w[k] + o[k]
    BY <1>5, <1>7
  <2> QED BY <1>4, <2>1, SumAdd
<1>9. SumFunctionOnSet(w, D) \in Int /\ SumFunctionOnSet(o, D) \in Int
  <2>1. \A k \in D : w[k] \in Int
    BY <1>5
  <2>2. \A k \in D : o[k] \in Int
    BY <1>5
  <2>3. SumFunctionOnSet(w, D) \in Int
    BY <1>4, <2>1, SumInt
  <2>4. SumFunctionOnSet(o, D) \in Int
    BY <1>4, <2>2, SumInt
  <2> QED BY <2>3, <2>4
<1>10. SumFunctionOnSet(h, D) <= SumFunctionOnSet(m, D)
  <2>1. \A k \in D : h[k] \in Int /\ m[k] \in Int /\ h[k] <= m[k]
    BY <1>5, <1>7
  <2> QED BY <1>4, <2>1, SumAtMost
<1>11. AncillasRight(F, v, z) => SumFunctionOnSet(h, D) = SumFunctionOnSet(m, D)
  <2> SUFFICES ASSUME AncillasRight(F, v, z) PROVE SumFunctionOnSet(h, D) = SumFunctionOnSet(m, D)
    OBVIOUS
  <2>1. \A k \in D : h[k] = m[k]
    BY <1>5, <1>7
  <2> QED BY <1>4, <2>1, SumEqual
<1>12. q = -SumFunctionOnSet(w, D)
  <2>1. q = -SumFunctionOnSet(TermValues(F, v, z), TermsOf(F))
    BY <1>1, QuboTotal
  <2>2. SumFunctionOnSet(TermValues(F, v, z), TermsOf(F)) = SumFunctionOnSet(w, D)
    BY <1>1, <1>3, ClauseByClause
  <2> QED BY <2>1, <2>2
<1>13. u = SumFunctionOnSet(o, D)
  BY <1>3
<1>14. PICK a \in Int, b \in Int : a = SumFunctionOnSet(w, D) /\ b = SumFunctionOnSet(o, D)
  BY <1>9
<1>15. q = -a /\ u = b /\ SumFunctionOnSet(h, D) = a + b
  BY <1>8, <1>12, <1>13, <1>14
<1> QED BY <1>6, <1>10, <1>11, <1>14, <1>15

(* The energy of the spins of an assignment, in units of its clauses.      *)
Ground(F, Q, t, n) == 4 * SumFunctionOnSet(Surpluses(F), DOMAIN F) - Zeros(Q, t, n)

(* The energy falls by four with each clause satisfied, at most; just by   *)
(* four when every ancilla has the value it should have.                   *)
LEMMA EnergyOfFormula ==
  ASSUME NEW F, Encodable(F), NEW v \in Nat, NEW z \in [Int -> {0, 1}], NEW Q, Q = get_idt(F, v),
         NEW V, IsFiniteSet(V), V \subseteq Int, NEW S, S = ProgramSet(V, Q),
         NEW t, t = Ascending(S), NEW n, n = Cardinality(S), NEW J, J = Ising(Q, t),
         NEW e, e = SumFunctionOnSet(PairTerms(J, n, SpinsOf(t, n, z)), Pairs(n))
  PROVE  /\ e \in Int /\ Ground(F, Q, t, n) \in Int /\ Satisfied(F, Shifted(z)) \in Nat
         /\ Ground(F, Q, t, n) <= e + 4 * Satisfied(F, Shifted(z))
         /\ AncillasRight(F, v, z) => Ground(F, Q, t, n) = e + 4 * Satisfied(F, Shifted(z))
<1>1. F \in Seq(Clause)
  BY DEF Encodable
<1>2. IsFiniteSet(S) /\ S \subseteq Int /\ QuboOver(Q, S)
  BY <1>1, ProgramQubo
<1>3. PICK q, u, o : /\ q = SumFunctionOnSet(QuboTerms(Q, z), DOMAIN Q)
                     /\ u = SumFunctionOnSet(Surpluses(F), DOMAIN F) /\ o = Zeros(Q, t, n)
  OBVIOUS
<1>4. q \in Int /\ o \in Int /\ e = 4 * q - o
  <2>1. /\ SumFunctionOnSet(QuboTerms(Q, z), DOMAIN Q) \in Int /\ Zeros(Q, t, n) \in Int
        /\ SumFunctionOnSet(PairTerms(J, n, SpinsOf(t, n, z)), Pairs(n)) =
              4 * SumFunctionOnSet(QuboTerms(Q, z), DOMAIN Q) - Zeros(Q, t, n)
    BY <1>2, IsingExact
  <2> QED BY <1>3, <2>1
<1>5. PICK s : s = Satisfied(F, Shifted(z))
  OBVIOUS
<1>6. u \in Int /\ s \in Nat /\ u - q <= s /\ (AncillasRight(F, v, z) => u - q = s)
  BY <1>3, <1>5, QuboSatisfies
<1>7. Ground(F, Q, t, n) = 4 * u - o
  BY <1>3 DEF Ground
<1> QED BY <1>4, <1>5, <1>6, <1>7

(* The positions of a split clause: those of the clause, and one for each  *)
(* new variable.  B holds the true ones, piece k two of them and, but for  *)
(* the last, the new variable the other way round.                         *)
PieceMet(B, n, k) ==
  IF k <= n THEN 2 * k - 1 \in B \/ 2 * k \in B \/ n + 3 + k \notin B
            ELSE 2 * n + 1 \in B \/ 2 * n + 2 \in B \/ 2 * n + 3 \in B

LEMMA PiecesSound ==
  ASSUME NEW n \in Nat, NEW B, \A k \in 1 .. n + 1 : PieceMet(B, n, k)
  PROVE  \E i \in 1 .. n + 3 : i \in B
<1>1. PICK T : T = {d \in Nat : (\E i \in 1 .. n + 3 : i \in B) \/ \A i \in 1 .. 2 * n + 3 : i <= d => i \notin B}
  OBVIOUS
<1>2. 0 \in T
  BY <1>1
<1>3. ASSUME NEW d \in Nat, d \in T PROVE d + 1 \in T
  <2> SUFFICES ASSUME ~\E i \in 1 .. n + 3 : i \in B, NEW i \in 1 .. 2 * n + 3, i <= d + 1, i \in B
               PROVE  FALSE
    BY <1>1
  <2>1. \A j \in 1 .. 2 * n + 3 : j <= d => j \notin B
    BY <1>1, <1>3
  <2>2. i = d + 1 /\ i > n + 3
    BY <2>1
  <2>3. PICK k \in 1 .. n : i = n + 3 + k
    <3>1. i - (n + 3) \in 1 .. n /\ i = n + 3 + (i - (n + 3))
      BY <2>2
    <3> QED BY <3>1
  <2>4. PieceMet(B, n, k) /\ k <= n
    OBVIOUS
  <2>5. 2 * k - 1 \in B \/ 2 * k \in B
    BY <2>3, <2>4 DEF PieceMet
  <2>6. 2 * k - 1 \in 1 .. 2 * n + 3 /\ 2 * k \in 1 .. 2 * n + 3 /\ 2 * k <= d
    BY <2>2, <2>3
  <2> QED BY <2>1, <2>5, <2>6
<1>4. \A d \in Nat : d \in T
  BY <1>2, <1>3, AllNaturals
<1>5. 2 * n + 3 \in T
  BY <1>4
<1>6. (2 * n + 1 \notin B /\ 2 * n + 2 \notin B /\ 2 * n + 3 \notin B) \/ \E i \in 1 .. n + 3 : i \in B
  BY <1>1, <1>5
<1>7. PieceMet(B, n, n + 1)
  OBVIOUS
<1> QED BY <1>6, <1>7 DEF PieceMet

Settles(B, n) == \A k \in 1 .. n : n + 3 + k \in B <=> 2 * k - 1 \in B \/ 2 * k \in B

LEMMA PiecesComplete ==
  ASSUME NEW n \in Nat, NEW B, Settles(B, n)
  PROVE  /\ \A k \in 1 .. n : PieceMet(B, n, k)
         /\ (\E i \in 1 .. n + 3 : i \in B) => PieceMet(B, n, n + 1)
<1>1. \A k \in 1 .. n : PieceMet(B, n, k)
  BY DEF Settles, PieceMet
<1>2. ASSUME ~PieceMet(B, n, n + 1), NEW i \in 1 .. n + 3 PROVE i \notin B
  <2>1. 2 * n + 1 \notin B /\ 2 * n + 2 \notin B /\ 2 * n + 3 \notin B
    BY <1>2 DEF PieceMet
  <2>2. PICK T : T = {d \in Nat : \A j \in 1 .. 2 * n + 3 : j + d >= 2 * n + 1 => j \notin B}
    OBVIOUS
  <2>3. 0 \in T
    <3>1. \A j \in 1 .. 2 * n + 3 : j >= 2 * n + 1 => j = 2 * n + 1 \/ j = 2 * n + 2 \/ j = 2 * n + 3
      OBVIOUS
    <3> QED BY <2>1, <2>2, <3>1
  <2>4. ASSUME NEW d \in Nat, d \in T PROVE d + 1 \in T
    <3> SUFFICES ASSUME NEW j \in 1 .. 2 * n + 3, j + (d + 1) >= 2 * n + 1, j \in B PROVE FALSE
      BY <2>2
    <3>1. \A l \in 1 .. 2 * n + 3 : l + d >= 2 * n + 1 => l \notin B
      BY <2>2, <2>4
    <3>2. j + d = 2 * n /\ j <= 2 * n
      BY <3>1
    <3>3. PICK k \in 1 .. n : j = 2 * k - 1 \/ j = 2 * k
      <4>1. PICK k \in Int : j = 2 * k - 1 \/ j = 2 * k
        <5>1. j = 2 * (j \div 2) \/ j = 2 * (j \div 2) + 1
          OBVIOUS
        <5>2. PICK h \in Int : h = j \div 2
          OBVIOUS
        <5>3. PICK g \in Int : g = h + 1
          OBVIOUS
        <5>4. j = 2 * h \/ j = 2 * g - 1
          BY <5>1, <5>2, <5>3
        <5> QED BY <5>4
      <4>2. k \in 1 .. n
        BY <3>2, <4>1
      <4> QED BY <4>1, <4>2
    <3>4. n + 3 + k \in B
      BY <3>3 DEF Settles
    <3>5. n + 3 + k \in 1 .. 2 * n + 3 /\ (n + 3 + k) + d >= 2 * n + 1
      BY <3>2, <3>3
    <3> QED BY <3>1, <3>4, <3>5
  <2>5. \A d \in Nat : d \in T
    BY <2>3, <2>4, AllNaturals
  <2>6. 2 * n + 1 \in T
    BY <2>5
  <2>7. i \in 1 .. 2 * n + 3 /\ i + (2 * n + 1) >= 2 * n + 1
    OBVIOUS
  <2> QED BY <2>2, <2>6, <2>7
<1> QED BY <1>1, <1>2

(* The literals at the positions, and the true ones of an assignment.      *)
NewLit(f, v, i) == IF i = NewVariables(f) /\ Len(f) \in {4, 8, 9} THEN v + i - 1 ELSE -(v + i - 1)
QLit(f, v, i)   == IF i <= Len(f) THEN f[i] ELSE -NewLit(f, v, i - Len(f))
TruePlaces(f, v, x) == {i \in 1 .. 2 * NewVariables(f) + 3 : True(QLit(f, v, i), x)}

LEMMA Opposite ==
  ASSUME NEW l \in Int, l # 0, NEW x, x[VariableOf(l)] \in {0, 1}
  PROVE  VariableOf(-l) = VariableOf(l) /\ (True(-l, x) <=> ~True(l, x))
<1>1. VariableOf(-l) = VariableOf(l)
  BY DEF VariableOf
<1>2. PICK b \in {0, 1} : b = x[VariableOf(l)]
  OBVIOUS
<1>3. (True(l, x) <=> b = IF l > 0 THEN 1 ELSE 0) /\ (True(-l, x) <=> b = IF -l > 0 THEN 1 ELSE 0)
  BY <1>1, <1>2, Zenon DEF True
<1>4. (l > 0 /\ ~(-l > 0)) \/ (~(l > 0) /\ -l > 0)
  OBVIOUS
<1> QED BY <1>1, <1>3, <1>4

LEMMA PieceIs ==
  ASSUME NEW f, NEW v, NEW n, n = NewVariables(f), n \in Nat, n # 0
  PROVE  /\ DOMAIN Clauses3(f, v) = 1 .. n + 1
         /\ \A k \in 1 .. n + 1 :
              Clauses3(f, v)[k] = <<QLit(f, v, 2 * k - 1), QLit(f, v, 2 * k),
                                    IF k <= n THEN NewLit(f, v, k) ELSE QLit(f, v, 2 * k + 1)>>
BY DEF Clauses3, QLit, NewLit

LEMMA TupleLiterals == ASSUME NEW a, NEW b, NEW c PROVE Literals(<<a, b, c>>) = {a, b, c}
<1>1. DOMAIN <<a, b, c>> = {1, 2, 3}
  OBVIOUS
<1> QED BY <1>1 DEF Literals

(* The pieces of a clause of more than three literals.                     *)
LongParts(f, v, n) ==
  /\ n \in Nat /\ Len(f) = n + 3 /\ DOMAIN f = 1 .. n + 3
  /\ \A i \in 1 .. n + 3 : QLit(f, v, i) = f[i]
  /\ \A i \in 1 .. n : /\ NewLit(f, v, i) \in Int /\ NewLit(f, v, i) # 0
                       /\ VariableOf(NewLit(f, v, i)) = v + i - 1
                       /\ QLit(f, v, n + 3 + i) = -NewLit(f, v, i)

LEMMA LongFacts ==
  ASSUME NEW f \in Seq(Literal), NEW v \in Nat \ {0}, NEW n, n = NewVariables(f), n # 0
  PROVE  LongParts(f, v, n)
<1>1. PICK m \in Nat : m = Len(f) /\ DOMAIN f = 1 .. m
  OBVIOUS
<1>2. n = IF m > 3 THEN m - 3 ELSE 0
  BY <1>1 DEF NewVariables
<1>3. n \in Nat /\ m = n + 3
  BY <1>2
<1>4. \A i \in 1 .. n + 3 : QLit(f, v, i) = f[i]
  BY <1>1, <1>3 DEF QLit
<1>5. ASSUME NEW i \in 1 .. n
      PROVE  /\ NewLit(f, v, i) \in Int /\ NewLit(f, v, i) # 0
             /\ VariableOf(NewLit(f, v, i)) = v + i - 1
             /\ QLit(f, v, n + 3 + i) = -NewLit(f, v, i)
  <2>1. NewLit(f, v, i) = v + i - 1 \/ NewLit(f, v, i) = -(v + i - 1)
    BY DEF NewLit
  <2>2. NewLit(f, v, i) \in Int /\ NewLit(f, v, i) # 0 /\ VariableOf(NewLit(f, v, i)) = v + i - 1
    BY <1>3, <2>1 DEF VariableOf
  <2>3. PICK h \in Int : h = n + 3 + i
    BY <1>3
  <2>4. ~(h <= Len(f)) /\ h - Len(f) = i
    BY <1>1, <1>3, <2>3
  <2>5. QLit(f, v, h) = -NewLit(f, v, i)
    BY <2>4, Zenon DEF QLit
  <2> QED BY <2>2, <2>3, <2>5
<1> QED BY <1>1, <1>3, <1>4, <1>5 DEF LongParts

LEMMA PieceTrue ==
  ASSUME NEW f \in Seq(Literal), NEW v \in Nat \ {0}, NEW x \in [Int -> {0, 1}],
         NEW n, n = NewVariables(f), n # 0
  PROVE  /\ \A k \in 1 .. n + 1 :
              (\E l \in Literals(Clauses3(f, v)[k]) : True(l, x)) <=> PieceMet(TruePlaces(f, v, x), n, k)
         /\ (\E i \in 1 .. n + 3 : i \in TruePlaces(f, v, x)) <=> \E l \in Literals(f) : True(l, x)
<1>1. /\ n \in Nat /\ Len(f) = n + 3 /\ DOMAIN f = 1 .. n + 3
      /\ \A i \in 1 .. n + 3 : QLit(f, v, i) = f[i]
      /\ \A i \in 1 .. n : /\ NewLit(f, v, i) \in Int /\ NewLit(f, v, i) # 0
                           /\ QLit(f, v, n + 3 + i) = -NewLit(f, v, i)
  <2>1. LongParts(f, v, n)
    BY LongFacts
  <2> QED BY <2>1, Zenon DEF LongParts
<1>2. n \in Nat
  BY <1>1
<1>3. PICK B : B = TruePlaces(f, v, x)
  OBVIOUS
<1>4. B \subseteq 1 .. 2 * n + 3 /\ \A i \in 1 .. 2 * n + 3 : i \in B <=> True(QLit(f, v, i), x)
  BY <1>3 DEF TruePlaces
<1>5. ASSUME NEW k \in 1 .. n + 1
      PROVE  (\E l \in Literals(Clauses3(f, v)[k]) : True(l, x)) <=> PieceMet(B, n, k)
  <2>1. PICK a, b, c : a = QLit(f, v, 2 * k - 1) /\ b = QLit(f, v, 2 * k)
                       /\ c = IF k <= n THEN NewLit(f, v, k) ELSE QLit(f, v, 2 * k + 1)
    OBVIOUS
  <2>2. Clauses3(f, v)[k] = <<a, b, c>>
    BY <1>1, <2>1, PieceIs
  <2>3. (\E l \in Literals(Clauses3(f, v)[k]) : True(l, x)) <=> True(a, x) \/ True(b, x) \/ True(c, x)
    <3>1. Literals(<<a, b, c>>) = {a, b, c}
      BY TupleLiterals
    <3> QED BY <2>2, <3>1
  <2>4. 2 * k - 1 \in 1 .. 2 * n + 3 /\ 2 * k \in 1 .. 2 * n + 3
    BY <1>1
  <2>5. (True(a, x) <=> 2 * k - 1 \in B) /\ (True(b, x) <=> 2 * k \in B)
    BY <1>4, <2>1, <2>4
  <2>6. CASE k <= n
    <3>1. k \in 1 .. n /\ n + 3 + k \in 1 .. 2 * n + 3
      BY <1>1, <2>6
    <3>2. PICK l \in Int : l = NewLit(f, v, k) /\ l # 0 /\ QLit(f, v, n + 3 + k) = -l
      BY <1>1, <3>1
    <3>3. VariableOf(l) \in Int
      BY <3>2 DEF VariableOf
    <3>4. x[VariableOf(l)] \in {0, 1}
      BY <3>3
    <3>5. True(-l, x) <=> ~True(l, x)
      BY <3>2, <3>4, Opposite
    <3>6. True(c, x) <=> n + 3 + k \notin B
      BY <1>4, <2>1, <2>6, <3>1, <3>2, <3>5
    <3> QED BY <2>3, <2>5, <2>6, <3>6 DEF PieceMet
  <2>7. CASE ~(k <= n)
    <3>1. k = n + 1
      BY <1>1, <2>7
    <3>2. 2 * k + 1 \in 1 .. 2 * n + 3 /\ 2 * k + 1 = 2 * n + 3 /\ 2 * k = 2 * n + 2 /\ 2 * k - 1 = 2 * n + 1
      BY <1>2, <3>1
    <3>3. True(c, x) <=> 2 * k + 1 \in B
      BY <1>4, <2>1, <2>7, <3>2
    <3> QED BY <2>3, <2>5, <2>7, <3>2, <3>3 DEF PieceMet
  <2> QED BY <2>6, <2>7
<1>6. (\E i \in 1 .. n + 3 : i \in B) <=> \E l \in Literals(f) : True(l, x)
  <2>1. \A i \in 1 .. n + 3 : i \in B <=> True(f[i], x)
    <3>1. \A i \in 1 .. n + 3 : i \in 1 .. 2 * n + 3
      BY <1>1
    <3> QED BY <1>1, <1>4, <3>1
  <2> QED BY <1>1, <2>1 DEF Literals
<1> QED BY <1>3, <1>5, <1>6

(* Whether a clause is met, and whether its new variables have the values  *)
(* they should have.                                                       *)
MetBit(f, x) == IF \E l \in Literals(f) : True(l, x) THEN 1 ELSE 0
Chosen(f, v, x) == NewVariables(f) = 0 \/ Settles(TruePlaces(f, v, x), NewVariables(f))

(* Of the pieces of a clause an assignment meets at most one more than     *)
(* there are new variables, and that many only if it meets the clause.     *)
LEMMA SplitMet ==
  ASSUME NEW f \in Seq(Literal), NEW v \in Nat \ {0}, NEW x \in [Int -> {0, 1}]
  PROVE  /\ Satisfied(Clauses3(f, v), x) \in Nat /\ NewVariables(f) \in Nat
         /\ Satisfied(Clauses3(f, v), x) <= NewVariables(f) + MetBit(f, x)
         /\ Chosen(f, v, x) => Satisfied(Clauses3(f, v), x) = NewVariables(f) + MetBit(f, x)
<1>1. PICK n, G, B, m : /\ n = NewVariables(f) /\ G = Clauses3(f, v) /\ B = TruePlaces(f, v, x)
                        /\ m = ClauseMet(Clauses3(f, v), x)
  OBVIOUS
<1>2. n \in Nat
  BY <1>1, ClauseSplit
<1>3. CASE n = 0
  <2>1. DOMAIN G = 1 .. 1 /\ G[1] = f
    BY <1>1, <1>3, ShortClause
  <2>2. PICK one \in Nat : one = 1
    OBVIOUS
  <2>3. DOMAIN G = 1 .. one
    BY <2>1, <2>2
  <2>4. Satisfied(G, x) \in Nat /\ Satisfied(G, x) = SumFunctionOnSet(m, DOMAIN G)
    BY <1>1, <2>3, SatisfiedSum
  <2>5. DOMAIN G = {1}
    BY <2>1
  <2>6. m[1] = MetBit(f, x) /\ m[1] \in Int
    BY <1>1, <2>1, <2>5 DEF ClauseMet, MetBit
  <2>7. SumFunctionOnSet(m, {1}) = m[1]
    BY <2>6, SumOfOne
  <2>8. Satisfied(G, x) = MetBit(f, x) /\ MetBit(f, x) \in Int
    BY <2>4, <2>5, <2>6, <2>7
  <2> QED BY <1>1, <1>3, <2>4, <2>8
<1>4. CASE n # 0
  <2>1. DOMAIN G = 1 .. n + 1 /\ n + 1 \in Nat
    BY <1>1, <1>2, <1>4, PieceIs
  <2>2. PICK N \in Nat : N = n + 1
    BY <2>1
  <2>3. DOMAIN G = 1 .. N
    BY <2>1, <2>2
  <2>4. /\ Satisfied(G, x) \in Nat /\ Satisfied(G, x) = SumFunctionOnSet(m, DOMAIN G)
        /\ \A k \in DOMAIN G : m[k] \in {0, 1}
    BY <1>1, <2>3, SatisfiedSum
  <2>5. \A k \in 1 .. n + 1 : m[k] = IF PieceMet(B, n, k) THEN 1 ELSE 0
    <3>1. \A k \in 1 .. n + 1 : (\E l \in Literals(G[k]) : True(l, x)) <=> PieceMet(B, n, k)
      BY <1>1, <1>4, PieceTrue
    <3> QED BY <1>1, <2>1, <3>1 DEF ClauseMet
  <2>6. (\E i \in 1 .. n + 3 : i \in B) <=> MetBit(f, x) = 1
    <3>1. (\E i \in 1 .. n + 3 : i \in B) <=> \E l \in Literals(f) : True(l, x)
      BY <1>1, <1>4, PieceTrue
    <3> QED BY <3>1 DEF MetBit
  <2>7. MetBit(f, x) \in {0, 1}
    BY DEF MetBit
  <2>8. PICK D : D = 1 .. n + 1
    OBVIOUS
  <2>9. IsFiniteSet(D) /\ Cardinality(D) = n + 1
    <3>1. D = 1 .. N
      BY <2>2, <2>8
    <3>2. IsFiniteSet(D) /\ Cardinality(D) = N
      BY <3>1, FS_Interval
    <3> QED BY <2>2, <3>2
  <2>10. /\ Satisfied(G, x) \in 0 .. n + 1
         /\ Satisfied(G, x) = n + 1 <=> \A k \in D : m[k] = 1
    <3>1. \A k \in D : m[k] \in {0, 1}
      BY <2>1, <2>4, <2>8
    <3>2. /\ SumFunctionOnSet(m, D) \in 0 .. Cardinality(D)
          /\ SumFunctionOnSet(m, D) = Cardinality(D) <=> \A k \in D : m[k] = 1
      BY <2>9, <3>1, SumBits
    <3>3. Satisfied(G, x) = SumFunctionOnSet(m, D)
      BY <2>1, <2>4, <2>8
    <3> QED BY <2>9, <3>2, <3>3
  <2>11. MetBit(f, x) = 0 => Satisfied(G, x) <= n
    <3> SUFFICES ASSUME Satisfied(G, x) = n + 1 PROVE MetBit(f, x) = 1
      BY <1>2, <2>7, <2>10
    <3>1. \A k \in 1 .. n + 1 : PieceMet(B, n, k)
      BY <2>5, <2>8, <2>10
    <3> QED BY <1>2, <2>6, <3>1, PiecesSound
  <2>12. Satisfied(G, x) <= n + MetBit(f, x)
    BY <1>2, <2>7, <2>10, <2>11
  <2>13. ASSUME Chosen(f, v, x) PROVE Satisfied(G, x) = n + MetBit(f, x)
    <3>1. Settles(B, n)
      BY <1>1, <1>4, <2>13 DEF Chosen
    <3>2. /\ \A k \in 1 .. n : PieceMet(B, n, k)
          /\ (\E i \in 1 .. n + 3 : i \in B) => PieceMet(B, n, n + 1)
      BY <1>2, <3>1, PiecesComplete
    <3>3. \A k \in D : k \in 1 .. n \/ k = n + 1
      BY <1>2, <2>8
    <3>4. \A k \in 1 .. n : k \in D /\ m[k] = 1
      BY <1>2, <2>5, <2>8, <3>2
    <3>5. CASE MetBit(f, x) = 1
      <4>1. PieceMet(B, n, n + 1) /\ n + 1 \in 1 .. n + 1
        BY <1>2, <2>6, <3>2, <3>5
      <4>2. m[n + 1] = 1
        BY <2>5, <4>1
      <4>3. \A k \in D : m[k] = 1
        BY <3>3, <3>4, <4>2
      <4> QED BY <2>10, <3>5, <4>3
    <3>6. CASE MetBit(f, x) = 0
      <4>1. PICK E : E = 1 .. n
        OBVIOUS
      <4>2. IsFiniteSet(E) /\ Cardinality(E) = n
        BY <1>2, <4>1, FS_Interval
      <4>3. \A k \in E : m[k] = 1
        BY <3>4, <4>1
      <4>4. SumFunctionOnSet(m, E) = n
        <5>1. \A k \in E : m[k] \in {0, 1}
          BY <4>3
        <5> QED BY <4>2, <4>3, <5>1, SumBits
      <4>5. D = E \cup {n + 1} /\ n + 1 \notin E
        BY <1>2, <2>8, <4>1
      <4>6. m[n + 1] \in {0, 1}
        BY <2>1, <2>4, <2>8, <4>5
      <4>7. SumFunctionOnSet(m, D) = SumFunctionOnSet(m, E) + m[n + 1]
        <5>1. \A k \in E : m[k] \in Int
          BY <4>3
        <5>2. PICK last : last = n + 1
          OBVIOUS
        <5>3. last \notin E /\ m[last] \in Int
          BY <4>5, <4>6, <5>2
        <5>4. SumFunctionOnSet(m, E \cup {last}) = SumFunctionOnSet(m, E) + m[last]
          BY <4>2, <5>1, <5>3, SumInsert
        <5> QED BY <4>5, <5>2, <5>4, Zenon
      <4>8. Satisfied(G, x) = SumFunctionOnSet(m, D)
        BY <2>1, <2>4, <2>8
      <4> QED BY <1>2, <2>10, <2>11, <3>6, <4>4, <4>6, <4>7, <4>8
    <3> QED BY <2>7, <3>5, <3>6
  <2> QED BY <1>1, <1>2, <2>4, <2>12, <2>13
<1> QED BY <1>3, <1>4

(* The variable at each position of a split clause.                        *)
Fresh(f, v, n)    == \A u \in Variables(f) : u < v \/ v + n <= u
NumberAt(v, n, i) == v + (i - (n + 3)) - 1

LEMMA PositionVariable ==
  ASSUME NEW f \in Seq(Literal), NEW v \in Nat \ {0}, NEW n, n = NewVariables(f), n # 0,
         NEW i \in 1 .. 2 * n + 3
  PROVE  /\ QLit(f, v, i) \in Int /\ QLit(f, v, i) # 0
         /\ i <= n + 3 => VariableOf(QLit(f, v, i)) \in Variables(f)
         /\ ~(i <= n + 3) => VariableOf(QLit(f, v, i)) = NumberAt(v, n, i)
<1>1. LongParts(f, v, n)
  BY LongFacts
<1>2. n \in Nat /\ DOMAIN f = 1 .. n + 3
  BY <1>1, Zenon DEF LongParts
<1>3. CASE i <= n + 3
  <2>1. i \in 1 .. n + 3
    BY <1>2, <1>3
  <2>2. QLit(f, v, i) = f[i]
    BY <1>1, <2>1 DEF LongParts
  <2>3. f[i] \in Literal
    BY <1>2, <2>1
  <2>4. VariableOf(f[i]) \in Variables(f)
    BY <1>2, <2>1 DEF Variables, Literals
  <2> QED BY <1>3, <2>2, <2>3, <2>4, LiteralInt DEF Literal
<1>4. CASE ~(i <= n + 3)
  <2>1. PICK j \in 1 .. n : j = i - (n + 3) /\ i = n + 3 + j
    <3>1. i - (n + 3) \in 1 .. n /\ i = n + 3 + (i - (n + 3))
      BY <1>2, <1>4
    <3> QED BY <3>1
  <2>2. PICK l \in Int : /\ l = NewLit(f, v, j) /\ l # 0 /\ VariableOf(l) = v + j - 1
                         /\ QLit(f, v, n + 3 + j) = -l
    BY <1>1 DEF LongParts
  <2>3. VariableOf(-l) = VariableOf(l)
    BY <2>2 DEF VariableOf
  <2>4. -l \in Int /\ -l # 0
    BY <2>2
  <2>5. NumberAt(v, n, i) = v + j - 1
    BY <2>1 DEF NumberAt
  <2> QED BY <1>4, <2>1, <2>2, <2>3, <2>4, <2>5
<1> QED BY <1>3, <1>4

LEMMA PlaceShift ==
  ASSUME NEW v \in Int, NEW n \in Int, NEW m \in Int, NEW i \in Int
  PROVE  NumberAt(v, n, i) = v + m <=> i = n + 3 + (m + 1)
BY DEF NumberAt

(* Only one position has a new variable.                                   *)
NewAt(f, v, n, m)      == n \in Nat /\ n = NewVariables(f) /\ n # 0 /\ Fresh(f, v, n) /\ m \in Nat /\ m < n
OnlyAt(f, v, n, m, i)  == VariableOf(QLit(f, v, i)) = v + m <=> i = n + 3 + (m + 1)

LEMMA NewPlace ==
  ASSUME NEW f \in Seq(Literal), NEW v \in Nat \ {0}, NEW n, NEW m, NewAt(f, v, n, m)
  PROVE  \A i \in 1 .. 2 * n + 3 : OnlyAt(f, v, n, m, i)
<1>1. v \in Int /\ n \in Int /\ m \in Int /\ n \in Nat /\ m \in Nat /\ m < n
  BY DEF NewAt
<1>2. \A j \in Int : NumberAt(v, n, j) = v + m <=> j = n + 3 + (m + 1)
  BY <1>1, PlaceShift
<1> SUFFICES ASSUME NEW i \in 1 .. 2 * n + 3 PROVE OnlyAt(f, v, n, m, i)
  OBVIOUS
<1>3. i \in Int
  BY <1>1
<1>4. CASE i <= n + 3
  <2>1. PICK u : u = VariableOf(QLit(f, v, i))
    OBVIOUS
  <2>2. u \in Variables(f)
    BY <1>4, <2>1, PositionVariable DEF NewAt
  <2>3. u < v \/ v + n <= u
    BY <2>2 DEF Fresh, NewAt
  <2>4. u # v + m /\ i # n + 3 + (m + 1)
    BY <1>1, <1>3, <1>4, <2>3
  <2> QED BY <2>1, <2>4, Zenon DEF OnlyAt
<1>5. CASE ~(i <= n + 3)
  <2>1. VariableOf(QLit(f, v, i)) = NumberAt(v, n, i)
    BY <1>5, PositionVariable DEF NewAt
  <2>2. NumberAt(v, n, i) = v + m <=> i = n + 3 + (m + 1)
    BY <1>2, <1>3, Zenon
  <2> QED BY <2>1, <2>2, Zenon DEF OnlyAt
<1> QED BY <1>4, <1>5

(* The new variables can be given values, one after the other, that settle *)
(* all pieces but the last.                                                *)
SettlesTo(B, n, m) == \A k \in 1 .. m : n + 3 + k \in B <=> 2 * k - 1 \in B \/ 2 * k \in B
Elsewhere(y, x, v, n) == \A u \in Int : u < v \/ v + n <= u => y[u] = x[u]

LEMMA SettleNext ==
  ASSUME NEW f \in Seq(Literal), NEW v \in Nat, v # 0, NEW n \in Nat, n = NewVariables(f), n # 0,
         Fresh(f, v, n),
         NEW m \in Nat, m < n, NEW y \in [Int -> {0, 1}], SettlesTo(TruePlaces(f, v, y), n, m)
  PROVE  \E z \in [Int -> {0, 1}] : SettlesTo(TruePlaces(f, v, z), n, m + 1) /\ Elsewhere(z, y, v, n)
<1>1. PICK w, h \in Int : w = v + m /\ h = n + 3 + (m + 1)
  OBVIOUS
<1>2. PICK l, b : /\ l = QLit(f, v, h)
                  /\ b = (2 * (m + 1) - 1 \in TruePlaces(f, v, y) \/ 2 * (m + 1) \in TruePlaces(f, v, y))
  OBVIOUS
<1>3. PICK d \in {0, 1} : d = IF l > 0 THEN 1 ELSE 0
  OBVIOUS
<1>4. PICK e \in {0, 1} : e = IF b THEN d ELSE 1 - d
  <2>1. (IF b THEN d ELSE 1 - d) \in {0, 1}
    OBVIOUS
  <2> QED BY <2>1
<1>5. PICK z : z = [u \in Int |-> IF u = w THEN e ELSE y[u]]
  OBVIOUS
<1>6. z \in [Int -> {0, 1}] /\ z[w] = e /\ \A u \in Int : u # w => z[u] = y[u]
  BY <1>1, <1>5
<1>7. Elsewhere(z, y, v, n)
  BY <1>1, <1>6 DEF Elsewhere
<1>8. PICK A, B : A = TruePlaces(f, v, y) /\ B = TruePlaces(f, v, z)
  OBVIOUS
<1>9. \A i \in 1 .. 2 * n + 3 : (i \in A <=> True(QLit(f, v, i), y)) /\ (i \in B <=> True(QLit(f, v, i), z))
  BY <1>8 DEF TruePlaces
<1>10. ASSUME NEW i \in 1 .. 2 * n + 3, i # h PROVE i \in B <=> i \in A
  <2>1. PICK u \in Int : u = VariableOf(QLit(f, v, i))
    <3>1. QLit(f, v, i) \in Int
      BY PositionVariable
    <3> QED BY <3>1 DEF VariableOf
  <2>2. u # w
    <3>1. VariableOf(QLit(f, v, i)) = v + m <=> i = n + 3 + (m + 1)
      <4>1. NewAt(f, v, n, m) /\ v \in Nat \ {0}
        BY Zenon DEF NewAt
      <4>2. OnlyAt(f, v, n, m, i)
        BY <4>1, NewPlace
      <4> QED BY <4>2, Zenon DEF OnlyAt
    <3> QED BY <1>1, <1>10, <2>1, <3>1, Zenon
  <2>3. z[u] = y[u]
    BY <1>6, <2>2
  <2>4. True(QLit(f, v, i), z) <=> True(QLit(f, v, i), y)
    BY <2>1, <2>3 DEF True
  <2> QED BY <1>9, <2>4
<1>11. h \in 1 .. 2 * n + 3
  BY <1>1
<1>12. h \in B <=> b
  <2>1. VariableOf(l) = w
    <3>1. VariableOf(QLit(f, v, h)) = v + m <=> h = n + 3 + (m + 1)
      <4>1. NewAt(f, v, n, m)
        BY Zenon DEF NewAt
      <4>2. OnlyAt(f, v, n, m, h)
        BY <1>11, <4>1, NewPlace
      <4> QED BY <4>2, Zenon DEF OnlyAt
    <3> QED BY <1>1, <1>2, <3>1, Zenon
  <2>2. True(l, z) <=> e = d
    BY <1>3, <1>6, <2>1 DEF True
  <2>3. e = d <=> b
    BY <1>2, <1>4
  <2> QED BY <1>2, <1>9, <1>11, <2>2, <2>3
<1>13. ASSUME NEW k \in 1 .. m + 1 PROVE n + 3 + k \in B <=> 2 * k - 1 \in B \/ 2 * k \in B
  <2>1. /\ 2 * k - 1 \in 1 .. 2 * n + 3 /\ 2 * k \in 1 .. 2 * n + 3
        /\ 2 * k - 1 # h /\ 2 * k # h
    BY <1>1
  <2>2. (2 * k - 1 \in B <=> 2 * k - 1 \in A) /\ (2 * k \in B <=> 2 * k \in A)
    BY <1>10, <2>1
  <2>3. CASE k = m + 1
    BY <1>1, <1>2, <1>8, <1>12, <2>2, <2>3
  <2>4. CASE k # m + 1
    <3>1. k \in 1 .. m /\ n + 3 + k \in 1 .. 2 * n + 3 /\ n + 3 + k # h
      BY <1>1, <2>4
    <3>2. n + 3 + k \in B <=> n + 3 + k \in A
      BY <1>10, <3>1
    <3>3. n + 3 + k \in A <=> 2 * k - 1 \in A \/ 2 * k \in A
      BY <1>8, <3>1 DEF SettlesTo
    <3> QED BY <2>2, <3>2, <3>3
  <2> QED BY <2>3, <2>4
<1>14. SettlesTo(B, n, m + 1)
  BY <1>13 DEF SettlesTo
<1> QED BY <1>6, <1>7, <1>8, <1>14

LEMMA ChosenExists ==
  ASSUME NEW f \in Seq(Literal), NEW v \in Nat \ {0}, NEW n, n = NewVariables(f),
         Fresh(f, v, n), NEW x \in [Int -> {0, 1}]
  PROVE  \E y \in [Int -> {0, 1}] : Chosen(f, v, y) /\ Elsewhere(y, x, v, n)
<1>1. n \in Nat
  BY ClauseSplit
<1>2. Elsewhere(x, x, v, n)
  BY DEF Elsewhere
<1>3. CASE n = 0
  <2>1. Chosen(f, v, x)
    BY <1>3 DEF Chosen
  <2> QED BY <1>2, <2>1
<1>4. CASE n # 0
  <2>1. PICK T : T = {m \in Nat : m <= n => \E y \in [Int -> {0, 1}] :
                                    SettlesTo(TruePlaces(f, v, y), n, m) /\ Elsewhere(y, x, v, n)}
    OBVIOUS
  <2>2. 0 \in T
    <3>1. SettlesTo(TruePlaces(f, v, x), n, 0)
      BY DEF SettlesTo
    <3> QED BY <1>2, <2>1, <3>1
  <2>3. ASSUME NEW m \in Nat, m \in T PROVE m + 1 \in T
    <3> SUFFICES ASSUME m + 1 <= n
                 PROVE  \E y \in [Int -> {0, 1}] :
                          SettlesTo(TruePlaces(f, v, y), n, m + 1) /\ Elsewhere(y, x, v, n)
      BY <2>1
    <3>1. PICK y \in [Int -> {0, 1}] : SettlesTo(TruePlaces(f, v, y), n, m) /\ Elsewhere(y, x, v, n)
      BY <1>1, <2>1, <2>3
    <3>2. m < n
      BY <1>1
    <3>3. PICK z \in [Int -> {0, 1}] : SettlesTo(TruePlaces(f, v, z), n, m + 1) /\ Elsewhere(z, y, v, n)
      BY <1>1, <1>4, <3>1, <3>2, SettleNext
    <3>4. Elsewhere(z, x, v, n)
      BY <3>1, <3>3 DEF Elsewhere
    <3> QED BY <3>3, <3>4
  <2>4. n \in T
    BY <1>1, <2>2, <2>3, AllNaturals
  <2>5. PICK y \in [Int -> {0, 1}] : SettlesTo(TruePlaces(f, v, y), n, n) /\ Elsewhere(y, x, v, n)
    BY <1>1, <2>1, <2>4
  <2>6. Chosen(f, v, y)
    BY <2>5 DEF Chosen, SettlesTo, Settles
  <2> QED BY <2>5, <2>6
<1> QED BY <1>3, <1>4

(* The ancillas are numbered apart.                                        *)
Rank(F, k) == Cardinality({n \in 1 .. k - 1 : Len(F[n]) = 3})

LEMMA RanksApart ==
  ASSUME NEW F \in Seq(Clause), NEW j \in Threes(F), NEW k \in Threes(F)
  PROVE  Rank(F, k) \in Nat /\ (Rank(F, j) = Rank(F, k) => j = k)
<1>1. PICK L \in Nat : L = Len(F) /\ DOMAIN F = 1 .. L
  OBVIOUS
<1>2. \A a \in Threes(F) : a \in 1 .. L /\ Len(F[a]) = 3
  BY <1>1 DEF Threes
<1>3. \A a \in Threes(F) : IsFiniteSet({n \in 1 .. a - 1 : Len(F[n]) = 3}) /\ Rank(F, a) \in Nat
  <2> SUFFICES ASSUME NEW a \in Threes(F)
               PROVE  IsFiniteSet({n \in 1 .. a - 1 : Len(F[n]) = 3}) /\ Rank(F, a) \in Nat
    OBVIOUS
  <2>1. PICK A : A = {n \in 1 .. a - 1 : Len(F[n]) = 3}
    OBVIOUS
  <2>2. A \subseteq 1 .. L
    BY <1>2, <2>1
  <2>3. IsFiniteSet(A) /\ Cardinality(A) \in Nat
    BY <2>2, PlacesFinite
  <2> QED BY <2>1, <2>3 DEF Rank
<1>4. ASSUME NEW a \in Threes(F), NEW b \in Threes(F), a < b PROVE Rank(F, a) < Rank(F, b)
  <2>1. PICK A, B : A = {n \in 1 .. a - 1 : Len(F[n]) = 3} /\ B = {n \in 1 .. b - 1 : Len(F[n]) = 3}
    OBVIOUS
  <2>2. a \in 1 .. L /\ b \in 1 .. L /\ Len(F[a]) = 3
    BY <1>2
  <2>3. A \subseteq B \ {a} /\ a \in B
    BY <1>4, <2>1, <2>2
  <2>4. IsFiniteSet(A) /\ IsFiniteSet(B)
    BY <1>3, <2>1
  <2>5. IsFiniteSet(B \ {a}) /\ Cardinality(B \ {a}) = Cardinality(B) - 1
    BY <2>3, <2>4, FS_RemoveElement
  <2>6. Cardinality(A) <= Cardinality(B \ {a})
    BY <2>3, <2>5, FS_Subset
  <2>7. Cardinality(A) \in Nat /\ Cardinality(B) \in Nat
    BY <2>4, FS_CardinalityType
  <2>8. Cardinality(A) < Cardinality(B)
    BY <2>5, <2>6, <2>7
  <2> QED BY <2>1, <2>8 DEF Rank
<1>5. Rank(F, j) = Rank(F, k) => j = k
  <2> SUFFICES ASSUME Rank(F, j) = Rank(F, k), j # k PROVE FALSE
    OBVIOUS
  <2>1. PICK r \in Nat : r = Rank(F, j) /\ r = Rank(F, k)
    BY <1>3
  <2>2. j < k \/ k < j
    BY <1>2
  <2>3. r < r
    BY <1>4, <2>1, <2>2
  <2> QED BY <2>3
<1> QED BY <1>3, <1>5

(* Every assignment can be given ancillas with the values they should have.*)
TrueThroughout(c, x) == \A i \in DOMAIN c : x[VariableOf(c[i])] # Negative(c[i])
Ancilled(F, v, x) ==
  [i \in Int |-> IF i < v THEN x[i + 1]
                 ELSE IF \E k \in Threes(F) : i = v + Rank(F, k) /\ TrueThroughout(F[k], x) THEN 1 ELSE 0]

LEMMA AncillasExist ==
  ASSUME NEW F, Encodable(F), NEW v \in Nat, \A u \in AllVariables(F) : u <= v, NEW x \in [Int -> {0, 1}]
  PROVE  /\ Ancilled(F, v, x) \in [Int -> {0, 1}] /\ AncillasRight(F, v, Ancilled(F, v, x))
         /\ \A u \in AllVariables(F) : Ancilled(F, v, x)[u - 1] = x[u]
<1>1. PICK z : z = Ancilled(F, v, x)
  OBVIOUS
<1>2. z \in [Int -> {0, 1}]
  BY <1>1 DEF Ancilled
<1>3. F \in Seq(Clause)
  BY DEF Encodable
<1>4. \A k \in DOMAIN F : \A i \in DOMAIN F[k] : /\ VariableOf(F[k][i]) \in Int
                                                /\ VariableOf(F[k][i]) \in AllVariables(F)
  <2> SUFFICES ASSUME NEW k \in DOMAIN F, NEW i \in DOMAIN F[k]
               PROVE  VariableOf(F[k][i]) \in Int /\ VariableOf(F[k][i]) \in AllVariables(F)
    OBVIOUS
  <2>1. F[k] \in Clause
    BY <1>3
  <2>2. F[k] \in Seq(Int)
    BY <2>1 DEF Clause
  <2>3. F[k][i] \in Int
    BY <2>2
  <2>4. VariableOf(F[k][i]) \in Int
    BY <2>3 DEF VariableOf
  <2>5. VariableOf(F[k][i]) \in AllVariables(F)
    BY DEF AllVariables, Variables, Literals
  <2> QED BY <2>4, <2>5
<1>5. \A u \in AllVariables(F) : u \in Int
  BY <1>4 DEF AllVariables, Variables, Literals
<1>6. \A u \in AllVariables(F) : z[u - 1] = x[u]
  <2> SUFFICES ASSUME NEW u \in AllVariables(F) PROVE z[u - 1] = x[u]
    OBVIOUS
  <2>1. PICK i \in Int : i = u - 1 /\ i < v /\ i + 1 = u
    BY <1>5
  <2>2. z[i] = x[i + 1]
    BY <1>1, <2>1 DEF Ancilled
  <2> QED BY <2>1, <2>2, Zenon
<1>7. ASSUME NEW k \in Threes(F)
      PROVE  z[NumberOf(F, v, k, 4)] = IF AllMet(F[k], PlaceValues(F, v, z, k)) THEN 1 ELSE 0
  <2>1. k \in DOMAIN F /\ Len(F[k]) = 3 /\ F[k] \in Seq(Int)
    BY <1>3 DEF Threes, Clause
  <2>2. PICK r \in Nat : r = Rank(F, k)
    BY <1>3, RanksApart
  <2>3. PICK h \in Int : h = v + r /\ ~(h < v)
    BY <2>2
  <2>4. NumberOf(F, v, k, 4) = h
    BY <2>2, <2>3 DEF NumberOf, Rank
  <2>5. (\E j \in Threes(F) : h = v + Rank(F, j) /\ TrueThroughout(F[j], x)) <=> TrueThroughout(F[k], x)
    <3>1. \A j \in Threes(F) : h = v + Rank(F, j) <=> j = k
      <4> SUFFICES ASSUME NEW j \in Threes(F) PROVE h = v + Rank(F, j) <=> j = k
        OBVIOUS
      <4>1. PICK q \in Nat : q = Rank(F, j)
        BY <1>3, RanksApart
      <4>2. q = r <=> j = k
        BY <1>3, <2>2, <4>1, RanksApart
      <4>3. h = v + q <=> q = r
        BY <2>3
      <4> QED BY <4>1, <4>2, <4>3, Zenon
    <3> QED BY <3>1, Zenon
  <2>6. z[h] = IF TrueThroughout(F[k], x) THEN 1 ELSE 0
    <3>1. z[h] = IF h < v THEN x[h + 1]
                 ELSE IF \E j \in Threes(F) : h = v + Rank(F, j) /\ TrueThroughout(F[j], x) THEN 1 ELSE 0
      BY <1>1 DEF Ancilled
    <3> QED BY <2>3, <2>5, <3>1, Zenon
  <2>7. \A i \in DOMAIN F[k] : PlaceValues(F, v, z, k)[i] = x[VariableOf(F[k][i])]
    <3> SUFFICES ASSUME NEW i \in DOMAIN F[k] PROVE PlaceValues(F, v, z, k)[i] = x[VariableOf(F[k][i])]
      OBVIOUS
    <3>1. i \in 1 .. 4 /\ i # 4
      BY <2>1
    <3>2. PlaceValues(F, v, z, k)[i] = z[VariableOf(F[k][i]) - 1]
      BY <3>1 DEF PlaceValues, NumberOf
    <3> QED BY <1>4, <1>6, <2>1, <3>2
  <2>8. AllMet(F[k], PlaceValues(F, v, z, k)) <=> TrueThroughout(F[k], x)
    BY <2>7 DEF AllMet, TrueThroughout
  <2> QED BY <2>4, <2>6, <2>8, Zenon
<1>8. AncillasRight(F, v, z)
  BY <1>7 DEF AncillasRight
<1> QED BY <1>1, <1>2, <1>6, <1>8

(* A place after those of the clause is that of a new variable.            *)
LEMMA PlaceBeyond ==
  ASSUME NEW n \in Nat, NEW i \in Int, i <= 2 * n + 3, ~(i <= n + 3)
  PROVE  \E p \in Int : p = i - (n + 3) /\ p \in 1 .. n /\ i = n + 3 + p
OBVIOUS

(* No two positions of a split clause have the same variable.              *)
LEMMA PositionsApart ==
  ASSUME NEW f \in Seq(Literal), DistinctVariables(f), NEW v \in Nat \ {0}, NEW n, n = NewVariables(f), n # 0,
         Fresh(f, v, n), NEW i \in 1 .. 2 * n + 3, NEW j \in 1 .. 2 * n + 3, i < j
  PROVE  VariableOf(QLit(f, v, i)) # VariableOf(QLit(f, v, j))
<1>1. LongParts(f, v, n)
  BY LongFacts
<1>2. n \in Nat /\ DOMAIN f = 1 .. n + 3
  BY <1>1, Zenon DEF LongParts
<1>3. i \in Int /\ j \in Int /\ i <= 2 * n + 3 /\ j <= 2 * n + 3
  OBVIOUS
<1>4. PICK a, b : a = VariableOf(QLit(f, v, i)) /\ b = VariableOf(QLit(f, v, j))
  OBVIOUS
<1>5. CASE j <= n + 3
  <2>1. i \in 1 .. n + 3 /\ j \in 1 .. n + 3 /\ i # j
    BY <1>2, <1>5
  <2>2. QLit(f, v, i) = f[i] /\ QLit(f, v, j) = f[j]
    BY <1>1, <2>1 DEF LongParts
  <2> QED BY <1>2, <2>1, <2>2 DEF DistinctVariables
<1>6. CASE ~(j <= n + 3)
  <2>1. PICK q \in Int : q = j - (n + 3) /\ q \in 1 .. n /\ j = n + 3 + q
    BY <1>2, <1>6, <1>3, PlaceBeyond, Zenon
  <2>2. b = v + q - 1
    <3>1. b = NumberAt(v, n, j)
      BY <1>4, <1>6, PositionVariable
    <3>2. NumberAt(v, n, j) = v + q - 1
      BY <2>1 DEF NumberAt
    <3> QED BY <3>1, <3>2
  <2>3. CASE i <= n + 3
    <3>1. a \in Variables(f)
      BY <1>4, <2>3, PositionVariable
    <3>2. a < v \/ v + n <= a
      BY <3>1 DEF Fresh
    <3>3. v \in Int /\ n \in Int /\ 1 <= q /\ q <= n
      BY <1>2, <2>1
    <3>4. a # b
      BY <2>2, <3>2, <3>3
    <3> QED BY <1>4, <3>4
  <2>4. CASE ~(i <= n + 3)
    <3>1. PICK p \in Int : p = i - (n + 3) /\ p \in 1 .. n /\ i = n + 3 + p
      BY <1>2, <1>3, <2>4, PlaceBeyond, Zenon
    <3>2. a = v + p - 1
      <4>1. a = NumberAt(v, n, i)
        BY <1>4, <2>4, PositionVariable
      <4>2. NumberAt(v, n, i) = v + p - 1
        BY <3>1 DEF NumberAt
      <4> QED BY <4>1, <4>2
    <3>3. p < q
      <4>1. \A m, a1, a2 \in Int : m + a1 < m + a2 => a1 < a2
        OBVIOUS
      <4>2. n + 3 \in Int /\ n + 3 + p < n + 3 + q
        BY <1>2, <2>1, <3>1
      <4> QED BY <4>1, <4>2, Zenon
    <3>4. a # b
      BY <2>2, <3>2, <3>3
    <3> QED BY <1>4, <3>4
  <2> QED BY <2>3, <2>4
<1> QED BY <1>5, <1>6

LEMMA PairUp == ASSUME NEW i \in Int PROVE \E m \in Int : i = 2 * m - 1 \/ i = 2 * m
<1>1. PICK h : h = (i + 1) \div 2
  OBVIOUS
<1>2. h \in Int /\ (i = 2 * h - 1 \/ i = 2 * h)
  BY <1>1
<1> QED BY <1>2

(* The literals of piece k of a split clause.                              *)
PieceParts(f, v, piece, k, a, b, c) ==
  /\ piece = <<a, b, c>> /\ a = QLit(f, v, 2 * k - 1) /\ b = QLit(f, v, 2 * k)
  /\ a # 0 /\ b # 0 /\ c # 0
  /\ VariableOf(a) # VariableOf(b) /\ VariableOf(a) # VariableOf(c) /\ VariableOf(b) # VariableOf(c)

(* A tuple of three literals is a clause the encoding takes.               *)
LEMMA TupleClause ==
  ASSUME NEW a \in Int, NEW b \in Int, NEW c \in Int, a # 0, b # 0, c # 0,
         VariableOf(a) # VariableOf(b), VariableOf(a) # VariableOf(c), VariableOf(b) # VariableOf(c)
  PROVE  /\ Len(<<a, b, c>>) \in 1 .. 3 /\ DistinctVariables(<<a, b, c>>)
         /\ \A i \in DOMAIN <<a, b, c>> : <<a, b, c>>[i] # 0
<1>1. PICK t : t = <<a, b, c>>
  OBVIOUS
<1>2. DOMAIN t = {1, 2, 3} /\ Len(t) = 3 /\ t[1] = a /\ t[2] = b /\ t[3] = c
  BY <1>1
<1>3. DistinctVariables(t)
  BY <1>2 DEF DistinctVariables
<1> QED BY <1>1, <1>2, <1>3

LEMMA PiecesEncodable ==
  ASSUME NEW f \in Seq(Literal), Len(f) # 0, DistinctVariables(f), NEW v \in Nat \ {0}, NEW n, n = NewVariables(f),
         Fresh(f, v, n)
  PROVE  Encodable(Clauses3(f, v)) /\ Variables(f) \subseteq AllVariables(Clauses3(f, v))
<1>1. PICK G : G = Clauses3(f, v)
  OBVIOUS
<1>2. G \in Seq(Clause) /\ n \in Nat
  BY <1>1, ClauseSplit
<1>3. CASE n = 0
  <2>1. DOMAIN G = 1 .. 1 /\ G[1] = f /\ Len(f) <= 3
    BY <1>1, <1>3, ShortClause
  <2>2. PICK l \in Nat : l = Len(f)
    OBVIOUS
  <2>3. Len(f) \in 1 .. 3
    BY <2>1, <2>2
  <2>4. \A i \in DOMAIN f : f[i] # 0
    BY DEF Literal
  <2>5. Encodable(G)
    BY <1>2, <2>1, <2>3, <2>4 DEF Encodable
  <2>6. Variables(f) \subseteq AllVariables(G)
    BY <2>1 DEF AllVariables
  <2> QED BY <1>1, <2>5, <2>6
<1>4. CASE n # 0
  <2>1. DOMAIN G = 1 .. n + 1
    BY <1>1, <1>2, <1>4, PieceIs
  <2>2. LongParts(f, v, n)
    BY <1>4, LongFacts
  <2>3. \A i \in 1 .. 2 * n + 3 : QLit(f, v, i) \in Int /\ QLit(f, v, i) # 0
    BY <1>4, PositionVariable
  <2>4. \A i, j \in 1 .. 2 * n + 3 : i < j => VariableOf(QLit(f, v, i)) # VariableOf(QLit(f, v, j))
    BY <1>4, PositionsApart
  <2>5. ASSUME NEW k \in 1 .. n + 1
        PROVE  \E a, b, c \in Int : PieceParts(f, v, G[k], k, a, b, c)
    <3>1. PICK p \in Int, q \in Int, r \in Int :
             /\ p = 2 * k - 1 /\ q = 2 * k
             /\ r = IF k <= n THEN n + 3 + k ELSE 2 * k + 1
      <4>1. 2 * k - 1 \in Int /\ 2 * k \in Int /\ (IF k <= n THEN n + 3 + k ELSE 2 * k + 1) \in Int
        BY <1>2
      <4> QED BY <4>1
    <3>2. /\ p \in 1 .. 2 * n + 3 /\ q \in 1 .. 2 * n + 3 /\ r \in 1 .. 2 * n + 3
          /\ p < q /\ p < r /\ q < r
      BY <1>2, <3>1
    <3>3. PICK a, b, c : /\ a = QLit(f, v, p) /\ b = QLit(f, v, q)
                         /\ c = IF k <= n THEN NewLit(f, v, k) ELSE QLit(f, v, r)
      OBVIOUS
    <3>4. G[k] = <<a, b, c>>
      <4>1. G[k] = <<QLit(f, v, 2 * k - 1), QLit(f, v, 2 * k),
                     IF k <= n THEN NewLit(f, v, k) ELSE QLit(f, v, 2 * k + 1)>>
        BY <1>1, <1>2, <1>4, PieceIs
      <4>2. (IF k <= n THEN NewLit(f, v, k) ELSE QLit(f, v, 2 * k + 1)) = c
        BY <3>1, <3>3
      <4> QED BY <3>1, <3>3, <4>1, <4>2, Zenon
    <3>5. a \in Int /\ b \in Int /\ a # 0 /\ b # 0
      BY <2>3, <3>2, <3>3
    <3>6. c \in Int /\ c # 0 /\ VariableOf(c) = VariableOf(QLit(f, v, r))
      <4>1. CASE k <= n
        <5>1. k \in 1 .. n
          BY <1>2, <4>1
        <5>2. PICK l \in Int : /\ l = NewLit(f, v, k) /\ l # 0
                               /\ QLit(f, v, n + 3 + k) = -l
          BY <2>2, <5>1 DEF LongParts
        <5>3. VariableOf(-l) = VariableOf(l)
          BY <5>2 DEF VariableOf
        <5> QED BY <3>1, <3>3, <4>1, <5>2, <5>3, Zenon
      <4>2. CASE ~(k <= n)
        <5>1. c = QLit(f, v, r)
          BY <3>3, <4>2, Zenon
        <5> QED BY <2>3, <3>2, <5>1
      <4> QED BY <4>1, <4>2
    <3>7. /\ VariableOf(a) # VariableOf(b) /\ VariableOf(a) # VariableOf(QLit(f, v, r))
          /\ VariableOf(b) # VariableOf(QLit(f, v, r))
      BY <2>4, <3>2, <3>3, Zenon
    <3>8. a = QLit(f, v, 2 * k - 1) /\ b = QLit(f, v, 2 * k)
      BY <3>1, <3>3, Zenon
    <3>9. VariableOf(a) # VariableOf(b) /\ VariableOf(a) # VariableOf(c) /\ VariableOf(b) # VariableOf(c)
      BY <3>6, <3>7, Zenon
    <3>10. PieceParts(f, v, G[k], k, a, b, c)
      BY <3>4, <3>5, <3>6, <3>8, <3>9, Zenon DEF PieceParts
    <3> QED BY <3>5, <3>6, <3>10, Zenon
  <2>6. ASSUME NEW k \in DOMAIN G
        PROVE  Len(G[k]) \in 1 .. 3 /\ DistinctVariables(G[k]) /\ \A i \in DOMAIN G[k] : G[k][i] # 0
    <3>1. PICK a \in Int, b \in Int, c \in Int : PieceParts(f, v, G[k], k, a, b, c)
      BY <2>1, <2>5, Zenon
    <3>2. /\ G[k] = <<a, b, c>> /\ a # 0 /\ b # 0 /\ c # 0
          /\ VariableOf(a) # VariableOf(b) /\ VariableOf(a) # VariableOf(c) /\ VariableOf(b) # VariableOf(c)
      BY <3>1, Zenon DEF PieceParts
    <3>3. /\ Len(<<a, b, c>>) \in 1 .. 3 /\ DistinctVariables(<<a, b, c>>)
          /\ \A i \in DOMAIN <<a, b, c>> : <<a, b, c>>[i] # 0
      BY <3>2, TupleClause, Zenon
    <3> QED BY <3>2, <3>3, Zenon
  <2>7. Encodable(G)
    BY <1>2, <2>6 DEF Encodable
  <2>8. ASSUME NEW i \in DOMAIN f PROVE VariableOf(f[i]) \in AllVariables(G)
    <3>1. i \in 1 .. n + 3 /\ QLit(f, v, i) = f[i]
      BY <2>2 DEF LongParts
    <3>2. PICK k \in 1 .. n + 1 : i = 2 * k - 1 \/ i = 2 * k
      <4>1. PICK m \in Int : i = 2 * m - 1 \/ i = 2 * m
        <5>1. i \in Int
          BY <3>1
        <5> QED BY <5>1, PairUp
      <4>2. m \in 1 .. n + 1
        BY <1>2, <1>4, <3>1, <4>1
      <4> QED BY <4>1, <4>2
    <3>3. PICK a \in Int, b \in Int, c \in Int :
             G[k] = <<a, b, c>> /\ a = QLit(f, v, 2 * k - 1) /\ b = QLit(f, v, 2 * k)
      <4>1. PICK a \in Int, b \in Int, c \in Int : PieceParts(f, v, G[k], k, a, b, c)
        BY <2>5, Zenon
      <4> QED BY <4>1, Zenon DEF PieceParts
    <3>4. f[i] = a \/ f[i] = b
      BY <3>1, <3>2, <3>3
    <3>5. f[i] \in Literals(G[k])
      BY <3>3, <3>4, TupleLiterals
    <3> QED BY <2>1, <3>5 DEF AllVariables, Variables
  <2>9. Variables(f) \subseteq AllVariables(G)
    BY <2>8 DEF Variables, Literals
  <2> QED BY <1>1, <2>7, <2>9
<1> QED BY <1>3, <1>4

(* Clauses put together: what they need and hold, and how many of them are *)
(* satisfied.                                                              *)
Trues(F, x) == {k \in DOMAIN F : \E l \in Literals(F[k]) : True(l, x)}

LEMMA SatisfiedJoined ==
  ASSUME NEW F, NEW G, Encodable(F), Encodable(G)
  PROVE  /\ Encodable(F \o G)
         /\ AllVariables(F) \subseteq AllVariables(F \o G) /\ AllVariables(G) \subseteq AllVariables(F \o G)
         /\ \A x : /\ Satisfied(F, x) \in Nat /\ Satisfied(G, x) \in Nat
                   /\ Satisfied(F \o G, x) = Satisfied(F, x) + Satisfied(G, x)
<1>1. F \in Seq(Clause) /\ G \in Seq(Clause)
  BY DEF Encodable
<1>2. PICK m \in Nat, n \in Nat : m = Len(F) /\ n = Len(G) /\ DOMAIN F = 1 .. m /\ DOMAIN G = 1 .. n
  BY <1>1
<1>3. PICK H : H = F \o G
  OBVIOUS
<1>4. H \in Seq(Clause) /\ DOMAIN H = 1 .. m + n
  BY <1>1, <1>2, <1>3
<1>5. \A k \in 1 .. m : k \in 1 .. m + n /\ H[k] = F[k]
  BY <1>1, <1>2, <1>3
<1>6. \A k \in 1 .. n : m + k \in 1 .. m + n /\ H[m + k] = G[k]
  BY <1>1, <1>2, <1>3, JoinedSecond
<1>7. \A k \in 1 .. m + n : k \in 1 .. m \/ \E j \in 1 .. n : k = m + j
  <2> TAKE k \in 1 .. m + n
  <2>1. k \in 1 .. m \/ (k - m \in 1 .. n /\ k = m + (k - m))
    BY <1>2
  <2> QED BY <2>1
<1>8. Encodable(H)
  <2> SUFFICES ASSUME NEW k \in DOMAIN H
               PROVE  Len(H[k]) \in 1 .. 3 /\ DistinctVariables(H[k]) /\ \A i \in DOMAIN H[k] : H[k][i] # 0
    BY <1>4 DEF Encodable
  <2>1. PICK c : c = H[k] /\ ((\E i \in DOMAIN F : c = F[i]) \/ \E i \in DOMAIN G : c = G[i])
    <3>1. CASE k \in 1 .. m
      BY <1>2, <1>5, <3>1
    <3>2. CASE \E j \in 1 .. n : k = m + j
      BY <1>2, <1>6, <3>2
    <3> QED BY <1>4, <1>7, <3>1, <3>2
  <2> QED BY <2>1 DEF Encodable
<1>9. AllVariables(F) \subseteq AllVariables(H) /\ AllVariables(G) \subseteq AllVariables(H)
  <2>1. \A k \in DOMAIN F : \E i \in DOMAIN H : H[i] = F[k]
    BY <1>2, <1>4, <1>5
  <2>2. \A k \in DOMAIN G : \E i \in DOMAIN H : H[i] = G[k]
    BY <1>2, <1>4, <1>6
  <2> QED BY <2>1, <2>2 DEF AllVariables
<1>10. ASSUME NEW x
       PROVE  /\ Satisfied(F, x) \in Nat /\ Satisfied(G, x) \in Nat
              /\ Satisfied(H, x) = Satisfied(F, x) + Satisfied(G, x)
  <2>1. PICK A, B, C : A = Trues(F, x) /\ B = Trues(G, x) /\ C = Trues(H, x)
    OBVIOUS
  <2>2. Satisfied(F, x) = Cardinality(A) /\ Satisfied(G, x) = Cardinality(B) /\ Satisfied(H, x) = Cardinality(C)
    BY <2>1, Zenon DEF Satisfied, Trues
  <2>3. A \subseteq 1 .. m /\ B \subseteq 1 .. n /\ C \subseteq 1 .. m + n
    BY <1>2, <1>4, <2>1 DEF Trues
  <2>4. IsFiniteSet(A) /\ IsFiniteSet(B)
    BY <2>3, PlacesFinite
  <2>5. PICK D : D = {m + k : k \in B}
    OBVIOUS
  <2>6. IsFiniteSet(D) /\ Cardinality(D) = Cardinality(B)
    <3>1. PICK f : f = [k \in B |-> m + k]
      OBVIOUS
    <3>2. \A a, b \in B : f[a] = f[b] => a = b
      BY <2>3, <3>1
    <3>3. D = {f[a] : a \in B}
      BY <2>5, <3>1
    <3> QED BY <2>4, <3>2, <3>3, RenamedSize
  <2>7. C = A \cup D
    <3>1. \A k \in 1 .. m : k \in C <=> k \in A
      BY <1>2, <1>4, <1>5, <2>1 DEF Trues
    <3>2. \A j \in 1 .. n : m + j \in C <=> j \in B
      BY <1>2, <1>4, <1>6, <2>1 DEF Trues
    <3>3. \A j \in 1 .. n : j \in B => m + j \in D
      BY <2>5
    <3>4. \A k \in D : \E j \in 1 .. n : k = m + j /\ j \in B
      BY <2>3, <2>5
    <3>5. \A k \in C : k \in A \cup D
      BY <1>7, <2>3, <3>1, <3>2, <3>3
    <3>6. \A k \in A \cup D : k \in C
      BY <2>3, <3>1, <3>2, <3>4
    <3> QED BY <3>5, <3>6
  <2>8. A \cap D = {}
    BY <1>2, <2>3, <2>5
  <2>9. Cardinality(C) = Cardinality(A) + Cardinality(B) /\ Cardinality(A) \in Nat /\ Cardinality(B) \in Nat
    BY <2>4, <2>6, <2>7, <2>8, DisjointSize
  <2> QED BY <2>2, <2>9
<1> QED BY <1>3, <1>8, <1>9, <1>10

(* Only the values of its variables matter to a formula.                   *)
LEMMA SatisfiedAgree ==
  ASSUME NEW F, NEW x, NEW y, \A u \in AllVariables(F) : x[u] = y[u]
  PROVE  Satisfied(F, x) = Satisfied(F, y)
<1>1. \A k \in DOMAIN F : \A l \in Literals(F[k]) : True(l, x) <=> True(l, y)
  BY DEF AllVariables, Variables, True
<1>2. Trues(F, x) = Trues(F, y)
  BY <1>1 DEF Trues
<1> QED BY <1>2, Zenon DEF Satisfied, Trues

LEMMA MetAgree ==
  ASSUME NEW f, NEW x, NEW y, \A u \in Variables(f) : x[u] = y[u] PROVE MetBit(f, x) = MetBit(f, y)
<1>1. \A l \in Literals(f) : True(l, x) <=> True(l, y)
  BY DEF Variables, True
<1> QED BY <1>1 DEF MetBit

(* The clauses among the first ones that an assignment satisfies.          *)
MetUpTo(formula, x, n) == SumFunctionOnSet(ClauseMet(formula, x), 1 .. n)

(* One clause more.                                                        *)
LEMMA MetNext ==
  ASSUME NEW formula \in Formula, NEW n \in Nat, n + 1 <= Len(formula), NEW x
  PROVE  /\ MetUpTo(formula, x, n) \in Int
         /\ MetUpTo(formula, x, n + 1) = MetUpTo(formula, x, n) + MetBit(formula[n + 1], x)
<1>1. PICK L \in Nat : L = Len(formula) /\ DOMAIN formula = 1 .. L
  BY DEF Formula
<1>2. PICK m : m = ClauseMet(formula, x)
  OBVIOUS
<1>3. \A k \in 1 .. L : m[k] = MetBit(formula[k], x) /\ m[k] \in Int
  BY <1>1, <1>2 DEF ClauseMet, MetBit
<1>4. PICK E, last : E = 1 .. n /\ last = n + 1
  OBVIOUS
<1>5. last \in 1 .. L /\ last \notin E /\ E \subseteq 1 .. L
  BY <1>1, <1>4
<1>6. IsFiniteSet(E)
  <2>1. E \subseteq 1 .. n
    BY <1>4
  <2> QED BY <2>1, PlacesFinite
<1>7. \A k \in E : m[k] \in Int
  BY <1>3, <1>5
<1>8. m[last] \in Int
  BY <1>3, <1>5
<1>9. SumFunctionOnSet(m, E \cup {last}) = SumFunctionOnSet(m, E) + m[last]
  BY <1>5, <1>6, <1>7, <1>8, SumInsert
<1>10. SumFunctionOnSet(m, E) \in Int
  BY <1>6, <1>7, SumInt
<1>11. E \cup {last} = 1 .. n + 1
  BY <1>4
<1>12. m[last] = MetBit(formula[n + 1], x)
  BY <1>3, <1>4, <1>5
<1> QED BY <1>2, <1>4, <1>9, <1>10, <1>11, <1>12, Zenon DEF MetUpTo

(* The clauses that can be split with new variables from V on.             *)
Splittable(formula, V) ==
  /\ \A k \in DOMAIN formula : Len(formula[k]) # 0 /\ DistinctVariables(formula[k])
  /\ (\A u \in AllVariables(formula) : u < V) \/ (\A k \in DOMAIN formula : NewVariables(formula[k]) = 0)

(* A clause of the formula at a time: the split clauses are satisfied like *)
(* the formula, and once more for each new variable if that has its value. *)
OffNew(formula, V, v) == \A u \in AllVariables(formula) : u \in Int /\ (u < V \/ v <= u)
AtMostMet(F, formula, V, v, n) ==
  \A x \in [Int -> {0, 1}] : Satisfied(F, x) \in Nat /\ Satisfied(F, x) <= (v - V) + MetUpTo(formula, x, n)
CanMeet(F, formula, V, v, n) ==
  \A x \in [Int -> {0, 1}] : \E y \in [Int -> {0, 1}] :
    /\ \A u \in Int : u < V \/ v <= u => y[u] = x[u]
    /\ Satisfied(F, y) = (v - V) + MetUpTo(formula, x, n)
MetLike(F, formula, V, v, n) ==
  /\ v \in Nat /\ V <= v /\ Encodable(F)
  /\ AllVariables(F) \subseteq AllVariables(formula) \cup (V .. v - 1)
  /\ \A k \in 1 .. n : Variables(formula[k]) \subseteq AllVariables(F)
  /\ OffNew(formula, V, v) /\ AtMostMet(F, formula, V, v, n) /\ CanMeet(F, formula, V, v, n)

LEMMA MeetNext ==
  ASSUME NEW formula \in Formula, NEW V \in Nat \ {0}, Splittable(formula, V),
         NEW n \in Nat, n + 1 <= Len(formula), NEW F, NEW v, MetLike(F, formula, V, v, n)
  PROVE  MetLike(F \o Clauses3(formula[n + 1], v), formula, V, v + NewVariables(formula[n + 1]), n + 1)
<1>1. PICK f, G, w : f = formula[n + 1] /\ G = Clauses3(f, v) /\ w = NewVariables(f)
  OBVIOUS
<1>2. n + 1 \in DOMAIN formula /\ f \in Seq(Literal)
  BY <1>1 DEF Formula
<1>3. v \in Nat \ {0} /\ V <= v /\ v \in Nat
  BY DEF MetLike
<1>4. /\ w \in Nat /\ G \in Seq(Clause)
      /\ AllVariables(G) \subseteq Variables(f) \cup (v .. v + w - 1)
  BY <1>1, <1>2, <1>3, ClauseSplit
<1>5. Variables(f) \subseteq AllVariables(formula)
  BY <1>1, <1>2 DEF AllVariables
<1>6. OffNew(formula, V, v + w)
  <2>1. OffNew(formula, V, v)
    BY DEF MetLike
  <2>2. CASE \A u \in AllVariables(formula) : u < V
    BY <2>1, <2>2 DEF OffNew
  <2>3. CASE \A k \in DOMAIN formula : NewVariables(formula[k]) = 0
    <3>1. w = 0
      BY <1>1, <1>2, <2>3
    <3>2. v + w = v
      BY <1>3, <3>1
    <3> QED BY <2>1, <3>2
  <2> QED BY <2>2, <2>3 DEF Splittable
<1>7. Fresh(f, v, w)
  BY <1>3, <1>5, <1>6 DEF Fresh, OffNew
<1>8. Encodable(G) /\ Variables(f) \subseteq AllVariables(G)
  <2>1. Len(f) # 0 /\ DistinctVariables(f)
    BY <1>1, <1>2 DEF Splittable
  <2> QED BY <1>1, <1>2, <1>3, <1>7, <2>1, PiecesEncodable
<1>9. PICK H : H = F \o G
  OBVIOUS
<1>10. Encodable(F) /\ AllVariables(F) \subseteq AllVariables(formula) \cup (V .. v - 1)
  BY DEF MetLike
<1>11. /\ Encodable(H)
       /\ AllVariables(F) \subseteq AllVariables(H) /\ AllVariables(G) \subseteq AllVariables(H)
       /\ \A x : /\ Satisfied(F, x) \in Nat /\ Satisfied(G, x) \in Nat
                 /\ Satisfied(H, x) = Satisfied(F, x) + Satisfied(G, x)
  BY <1>8, <1>9, <1>10, SatisfiedJoined
<1>12. AllVariables(H) \subseteq AllVariables(formula) \cup (V .. (v + w) - 1)
  <2>1. F \in Seq(Clause)
    BY <1>10 DEF Encodable
  <2>2. AllVariables(H) \subseteq AllVariables(F) \cup AllVariables(G)
    BY <1>4, <1>9, <2>1, ClausesJoined
  <2>3. (V .. v - 1) \cup (v .. v + w - 1) \subseteq V .. (v + w) - 1
    BY <1>3, <1>4
  <2> QED BY <1>4, <1>5, <1>10, <2>2, <2>3
<1>13. \A k \in 1 .. n + 1 : Variables(formula[k]) \subseteq AllVariables(H)
  <2> SUFFICES ASSUME NEW k \in 1 .. n + 1 PROVE Variables(formula[k]) \subseteq AllVariables(H)
    OBVIOUS
  <2>1. CASE k = n + 1
    BY <1>1, <1>8, <1>11, <2>1
  <2>2. CASE k # n + 1
    <3>1. k \in 1 .. n
      BY <2>2
    <3> QED BY <1>11, <3>1 DEF MetLike
  <2> QED BY <2>1, <2>2
<1>14. \A x : /\ MetUpTo(formula, x, n) \in Int
              /\ MetUpTo(formula, x, n + 1) = MetUpTo(formula, x, n) + MetBit(f, x)
  BY <1>1, MetNext
<1>15. \A x : MetBit(f, x) \in {0, 1}
  BY DEF MetBit
<1>16. AtMostMet(H, formula, V, v + w, n + 1)
  <2> SUFFICES ASSUME NEW x \in [Int -> {0, 1}]
               PROVE  Satisfied(H, x) \in Nat /\ Satisfied(H, x) <= ((v + w) - V) + MetUpTo(formula, x, n + 1)
    BY DEF AtMostMet
  <2>1. Satisfied(F, x) <= (v - V) + MetUpTo(formula, x, n)
    BY DEF MetLike, AtMostMet
  <2>2. Satisfied(G, x) <= w + MetBit(f, x)
    BY <1>1, <1>2, <1>3, SplitMet
  <2>3. PICK a \in Int, b \in {0, 1}, p \in Nat, q \in Nat :
           /\ a = MetUpTo(formula, x, n) /\ b = MetBit(f, x) /\ p = Satisfied(F, x) /\ q = Satisfied(G, x)
    BY <1>11, <1>14, <1>15
  <2>4. Satisfied(H, x) = p + q /\ MetUpTo(formula, x, n + 1) = a + b
    BY <1>11, <1>14, <2>3
  <2>5. p <= (v - V) + a /\ q <= w + b
    BY <2>1, <2>2, <2>3
  <2>6. p + q \in Nat /\ p + q <= ((v + w) - V) + (a + b)
    BY <1>3, <1>4, <2>5
  <2> QED BY <2>4, <2>6
<1>17. CanMeet(H, formula, V, v + w, n + 1)
  <2> SUFFICES ASSUME NEW x \in [Int -> {0, 1}]
               PROVE  \E z \in [Int -> {0, 1}] :
                        /\ \A u \in Int : u < V \/ v + w <= u => z[u] = x[u]
                        /\ Satisfied(H, z) = ((v + w) - V) + MetUpTo(formula, x, n + 1)
    BY DEF CanMeet
  <2>1. PICK y \in [Int -> {0, 1}] :
          /\ \A u \in Int : u < V \/ v <= u => y[u] = x[u]
          /\ Satisfied(F, y) = (v - V) + MetUpTo(formula, x, n)
    BY DEF MetLike, CanMeet
  <2>2. PICK z \in [Int -> {0, 1}] : Chosen(f, v, z) /\ Elsewhere(z, y, v, w)
    BY <1>1, <1>2, <1>3, <1>7, ChosenExists
  <2>3. \A u \in Int : u < v \/ v + w <= u => z[u] = y[u]
    BY <2>2 DEF Elsewhere
  <2>4. \A u \in AllVariables(formula) : u \in Int /\ (u < V \/ v <= u) /\ (u < v \/ v + w <= u)
    BY <1>3, <1>6 DEF OffNew, MetLike
  <2>5. Satisfied(F, z) = Satisfied(F, y)
    <3>1. \A u \in AllVariables(F) : u \in Int /\ (u < v \/ v + w <= u)
      BY <1>3, <1>10, <2>4
    <3>2. \A u \in AllVariables(F) : z[u] = y[u]
      BY <2>3, <3>1
    <3> QED BY <3>2, SatisfiedAgree
  <2>6. MetBit(f, z) = MetBit(f, x)
    <3>1. \A u \in Variables(f) : z[u] = x[u]
      BY <1>5, <2>1, <2>3, <2>4
    <3> QED BY <3>1, MetAgree
  <2>7. Satisfied(G, z) = w + MetBit(f, z)
    BY <1>1, <1>2, <1>3, <2>2, SplitMet
  <2>8. PICK a \in Int, b \in {0, 1}, p \in Nat, q \in Nat :
           /\ a = MetUpTo(formula, x, n) /\ b = MetBit(f, x) /\ p = Satisfied(F, z) /\ q = Satisfied(G, z)
    BY <1>11, <1>14, <1>15
  <2>9. p = (v - V) + a /\ q = w + b
    BY <2>1, <2>5, <2>6, <2>7, <2>8
  <2>10. Satisfied(H, z) = p + q /\ MetUpTo(formula, x, n + 1) = a + b
    BY <1>11, <1>14, <2>8
  <2>11. p + q = ((v + w) - V) + (a + b)
    BY <1>3, <1>4, <2>9
  <2>12. \A u \in Int : u < V \/ v + w <= u => z[u] = x[u]
    <3> SUFFICES ASSUME NEW u \in Int, u < V \/ v + w <= u PROVE z[u] = x[u]
      OBVIOUS
    <3>1. (u < v \/ v + w <= u) /\ (u < V \/ v <= u)
      BY <1>3, <1>4
    <3> QED BY <2>1, <2>3, <3>1
  <2> QED BY <2>10, <2>11, <2>12
<1>18. v + w \in Nat /\ V <= v + w
  BY <1>3, <1>4
<1>19. MetLike(H, formula, V, v + w, n + 1)
  BY <1>6, <1>11, <1>12, <1>13, <1>16, <1>17, <1>18, Zenon DEF MetLike
<1> QED BY <1>1, <1>9, <1>19

(* Before the first clause, and after the last.                            *)
LEMMA MeetFirst ==
  ASSUME NEW formula \in Formula, NEW V \in Nat \ {0}
  PROVE  MetLike(<<>>, formula, V, V, 0)
<1>1. AllVariables(<<>>) = {} /\ Encodable(<<>>)
  BY DEF AllVariables, Encodable
<1>2. 1 .. 0 = {}
  OBVIOUS
<1>3. \A x : MetUpTo(formula, x, 0) = 0
  BY <1>2, SumEmpty DEF MetUpTo
<1>4. \A x : Satisfied(<<>>, x) = 0
  <2>1. \A x : {k \in DOMAIN <<>> : \E l \in Literals(<<>>[k]) : True(l, x)} = {}
    OBVIOUS
  <2> QED BY <2>1, FS_EmptySet DEF Satisfied
<1>5. OffNew(formula, V, V)
  <2>1. \A u \in AllVariables(formula) : u \in Int
    BY FormulaVariables
  <2> QED BY <2>1 DEF OffNew
<1>6. AtMostMet(<<>>, formula, V, V, 0)
  BY <1>3, <1>4 DEF AtMostMet
<1>7. CanMeet(<<>>, formula, V, V, 0)
  BY <1>3, <1>4 DEF CanMeet
<1> QED BY <1>1, <1>2, <1>5, <1>6, <1>7 DEF MetLike

LEMMA MeetFormula ==
  ASSUME NEW formula \in Formula, NEW V \in Nat \ {0}, Splittable(formula, V),
         NEW k3, k3 = sat_kN_to_k3(formula, V)
  PROVE  MetLike(k3.formula, formula, V, k3.v, Len(formula))
<1>1. PICK g : SplitsTo(g, formula, V, Len(formula)) /\ k3 = g[Len(formula)]
  BY SplitChosen
<1>2. PICK L \in Nat : L = Len(formula)
  BY DEF Formula
<1>3. g = [k \in 0 .. L |-> IF k = 0 THEN [formula |-> <<>>, v |-> V] ELSE NextClause(formula, g[k - 1], k)]
  BY <1>1, <1>2 DEF SplitsTo
<1>4. PICK T : T = {n \in Nat : n <= L => MetLike(g[n].formula, formula, V, g[n].v, n)}
  OBVIOUS
<1>5. 0 \in T
  <2>1. g[0] = [formula |-> <<>>, v |-> V]
    BY <1>2, <1>3
  <2>2. g[0].formula = <<>> /\ g[0].v = V
    BY <2>1
  <2>3. MetLike(<<>>, formula, V, V, 0)
    BY MeetFirst
  <2> QED BY <1>4, <2>2, <2>3
<1>6. ASSUME NEW n \in Nat, n \in T PROVE n + 1 \in T
  <2> SUFFICES ASSUME n + 1 <= L PROVE MetLike(g[n + 1].formula, formula, V, g[n + 1].v, n + 1)
    BY <1>4
  <2>1. PICK F, v : F = g[n].formula /\ v = g[n].v
    OBVIOUS
  <2>2. MetLike(F, formula, V, v, n)
    BY <1>2, <1>4, <1>6, <2>1
  <2>3. n + 1 \in 0 .. L /\ n + 1 # 0 /\ (n + 1) - 1 = n
    BY <1>2
  <2>4. g[n + 1] = NextClause(formula, g[n], n + 1)
    BY <1>3, <2>3, Zenon
  <2>5. /\ g[n + 1].formula = F \o Clauses3(formula[n + 1], v)
        /\ g[n + 1].v = v + NewVariables(formula[n + 1])
    <3>1. PICK H, w : H = F \o Clauses3(formula[n + 1], v) /\ w = v + NewVariables(formula[n + 1])
      OBVIOUS
    <3>2. g[n + 1] = [formula |-> H, v |-> w]
      BY <2>1, <2>4, <3>1, Zenon DEF NextClause
    <3>3. g[n + 1].formula = H /\ g[n + 1].v = w
      BY <3>2
    <3> QED BY <3>1, <3>3, Zenon
  <2>6. MetLike(F \o Clauses3(formula[n + 1], v), formula, V, v + NewVariables(formula[n + 1]), n + 1)
    BY <1>2, <2>2, MeetNext
  <2> QED BY <2>5, <2>6
<1>7. L \in T
  BY <1>2, <1>5, <1>6, AllNaturals
<1> QED BY <1>1, <1>2, <1>4, <1>7

(* The split formula satisfies as many clauses as the formula, and one for *)
(* each new variable, when those have the values they should have.         *)
SplitLike(F, v, formula, V) ==
  /\ Encodable(F) /\ v \in Nat /\ V <= v
  /\ IsFiniteSet(AllVariables(F)) /\ AllVariables(F) \subseteq Int
  /\ AllVariables(formula) \subseteq AllVariables(F)
  /\ \A u \in AllVariables(F) : u <= v
  /\ \A x \in [Int -> {0, 1}] : /\ Satisfied(F, x) \in Nat /\ Satisfied(formula, x) \in Nat
                                /\ Satisfied(F, x) <= (v - V) + Satisfied(formula, x)
  /\ \A x \in [Int -> {0, 1}] : \E y \in [Int -> {0, 1}] :
       (\A u \in AllVariables(formula) : y[u] = x[u]) /\ Satisfied(F, y) = (v - V) + Satisfied(formula, x)

LEMMA SplitExact ==
  ASSUME NEW formula \in Formula, Splittable(formula, maxvar), NEW k3, k3 = sat_kN_to_k3(formula, maxvar)
  PROVE  SplitLike(k3.formula, k3.v, formula, maxvar)
<1>1. PICK F, v, V : F = k3.formula /\ v = k3.v /\ V = maxvar
  OBVIOUS
<1>2. V \in Nat \ {0}
  BY <1>1, KsatAssumption
<1>3. PICK L \in Nat : L = Len(formula) /\ DOMAIN formula = 1 .. L
  BY DEF Formula
<1>4. MetLike(F, formula, V, v, L)
  BY <1>1, <1>2, <1>3, MeetFormula
<1>5. /\ v \in Nat /\ V <= v /\ Encodable(F)
      /\ AllVariables(F) \subseteq AllVariables(formula) \cup (V .. v - 1)
      /\ \A k \in 1 .. L : Variables(formula[k]) \subseteq AllVariables(F)
      /\ OffNew(formula, V, v) /\ AtMostMet(F, formula, V, v, L) /\ CanMeet(F, formula, V, v, L)
  BY <1>4, Zenon DEF MetLike
<1>6. AllVariables(formula) \subseteq 1 .. V
  BY <1>1, FormulaVariables
<1>7. \A u \in AllVariables(F) : u \in Int /\ u <= v
  BY <1>2, <1>5, <1>6
<1>8. AllVariables(formula) \subseteq AllVariables(F)
  BY <1>3, <1>5 DEF AllVariables
<1>9. IsFiniteSet(AllVariables(F))
  BY <1>1, SplitCount
<1>10. \A x : Satisfied(formula, x) \in Nat /\ Satisfied(formula, x) = MetUpTo(formula, x, L)
  <2> SUFFICES ASSUME NEW x
               PROVE  Satisfied(formula, x) \in Nat /\ Satisfied(formula, x) = MetUpTo(formula, x, L)
    OBVIOUS
  <2>1. /\ Satisfied(formula, x) \in Nat
        /\ Satisfied(formula, x) = SumFunctionOnSet(ClauseMet(formula, x), DOMAIN formula)
    BY <1>3, SatisfiedSum
  <2> QED BY <1>3, <2>1, Zenon DEF MetUpTo
<1>11. \A x \in [Int -> {0, 1}] : /\ Satisfied(F, x) \in Nat /\ Satisfied(formula, x) \in Nat
                                  /\ Satisfied(F, x) <= (v - V) + Satisfied(formula, x)
  BY <1>5, <1>10 DEF AtMostMet
<1>12. \A x \in [Int -> {0, 1}] : \E y \in [Int -> {0, 1}] :
         (\A u \in AllVariables(formula) : y[u] = x[u]) /\ Satisfied(F, y) = (v - V) + Satisfied(formula, x)
  <2> SUFFICES ASSUME NEW x \in [Int -> {0, 1}]
               PROVE  \E y \in [Int -> {0, 1}] :
                        /\ \A u \in AllVariables(formula) : y[u] = x[u]
                        /\ Satisfied(F, y) = (v - V) + Satisfied(formula, x)
    OBVIOUS
  <2>1. PICK y \in [Int -> {0, 1}] :
          /\ \A u \in Int : u < V \/ v <= u => y[u] = x[u]
          /\ Satisfied(F, y) = (v - V) + MetUpTo(formula, x, L)
    BY <1>5 DEF CanMeet
  <2>2. \A u \in AllVariables(formula) : y[u] = x[u]
    BY <1>5, <2>1 DEF OffNew
  <2>3. Satisfied(F, y) = (v - V) + Satisfied(formula, x)
    BY <1>10, <2>1, Zenon
  <2> QED BY <2>2, <2>3
<1>13. AllVariables(F) \subseteq Int /\ \A u \in AllVariables(F) : u <= v
  BY <1>7
<1>14. SplitLike(F, v, formula, V)
  BY <1>5, <1>8, <1>9, <1>11, <1>12, <1>13, Zenon DEF SplitLike
<1> QED BY <1>1, <1>14

(* Clauses keep their variables apart, and none is left without literals.  *)
WellFormed(formula) == \A k \in DOMAIN formula : formula[k] # <<>> /\ DistinctVariables(formula[k])

LEMMA DistinctListed ==
  ASSUME NEW c \in Seq(Literal), DistinctVariables(c), NEW lit, NEW order \in Orders
  PROVE  DistinctVariables(Without(c, lit, order))
<1>1. CASE lit \notin Literals(c)
  BY <1>1 DEF Without
<1>2. CASE lit \in Literals(c)
  <2>1. PICK r, A : r = Without(c, lit, order) /\ A = Literals(c) \ {lit}
    OBVIOUS
  <2>2. A \in SUBSET Literal
    BY <2>1 DEF Literals
  <2>3. r = Listed(order, A)
    BY <1>2, <2>1 DEF Without
  <2>4. /\ \A i \in DOMAIN r : r[i] \in A
        /\ \A i, j \in DOMAIN r : r[i] = r[j] => i = j
    BY <2>2, <2>3, OrderAssumption DEF Literals
  <2>5. \A a, b \in A : VariableOf(a) = VariableOf(b) => a = b
    BY <2>1 DEF Literals, DistinctVariables
  <2>6. DistinctVariables(r)
    BY <2>4, <2>5 DEF DistinctVariables
  <2> QED BY <2>1, <2>6
<1> QED BY <1>1, <1>2

LEMMA PropagatedFormed ==
  ASSUME NEW formula \in Formula, WellFormed(formula), NEW index, NEW value, NEW order \in Orders
  PROVE  WellFormed(unitProp2(formula, index, value, order))
<1>1. PICK true : true = IF value = 1 THEN index ELSE -index
  OBVIOUS
<1>2. PICK left : left = [k \in DOMAIN formula |-> Without(formula[k], -true, order)]
  OBVIOUS
<1>3. PICK S : S = {k \in DOMAIN formula : true \notin Literals(formula[k]) /\ left[k] # <<>>}
  OBVIOUS
<1>4. unitProp2(formula, index, value, order) = Kept(left, S)
  BY <1>1, <1>2, <1>3, Zenon DEF unitProp2, Without
<1>5. /\ DOMAIN formula = 1 .. Len(formula) /\ Len(formula) \in Nat
      /\ \A k \in DOMAIN formula : formula[k] \in Seq(Literal)
  BY DEF Formula
<1>6. \A k \in DOMAIN formula : left[k] \in Seq(Literal)
  BY <1>2, <1>5, WithoutLiteral
<1>7. left \in Seq(Seq(Literal)) /\ DOMAIN left = DOMAIN formula
  BY <1>2, <1>5, <1>6
<1>8. S \subseteq DOMAIN left
  BY <1>3, <1>7
<1>9. ASSUME NEW k \in DOMAIN formula PROVE DistinctVariables(left[k])
  <2>1. left[k] = Without(formula[k], -true, order)
    BY <1>2
  <2>2. formula[k] \in Seq(Literal) /\ DistinctVariables(formula[k])
    BY <1>5 DEF WellFormed
  <2> QED BY <2>1, <2>2, DistinctListed
<1>10. PICK r, n, t : r = Kept(left, S) /\ n = Cardinality(S) /\ t = Ascending(S)
  OBVIOUS
<1>11. DOMAIN r = 1 .. n /\ \A k \in 1 .. n : t[k] \in S /\ r[k] = left[t[k]]
  <2>1. PICK T : left \in Seq(T)
    BY <1>7
  <2>2. /\ DOMAIN Kept(left, S) = 1 .. Cardinality(S)
        /\ \A k \in 1 .. Cardinality(S) : Ascending(S)[k] \in S /\ Kept(left, S)[k] = left[Ascending(S)[k]]
    BY <1>8, <2>1, KeptFacts
  <2> QED BY <1>10, <2>2, Zenon
<1>12. \A k \in S : left[k] # <<>> /\ DistinctVariables(left[k])
  BY <1>3, <1>9
<1>13. WellFormed(r)
  BY <1>11, <1>12 DEF WellFormed
<1> QED BY <1>4, <1>10, <1>13

(* Where the program comes from.                                           *)
SplitOf(formula, k3) == k3 = sat_kN_to_k3(formula, maxvar)
FromSplit == \E k3 : /\ SplitOf(surrogate_cnf, k3)
                     /\ surrogate_vars = AllVariables(k3.formula) /\ curr_Q = get_idt(k3.formula, k3.v)
CurrentProgram == Ising(curr_Q, ProgramVariables(surrogate_vars, curr_Q))
KsatEncoded ==
  /\ WellFormed(surrogate_cnf)
  /\ step \in {"sample", "submit"} => FromSplit
  /\ step = "submit" => mtx = Matrix(CurrentProgram) /\ clamped = Cardinality(TooLarge(CurrentProgram))

LEMMA EncodedInit == ASSUME KsatInit PROVE KsatEncoded
<1>1. surrogate_cnf \in Cnfs /\ step = "freeze"
  BY DEF KsatInit
<1>2. ASSUME NEW k \in DOMAIN surrogate_cnf PROVE surrogate_cnf[k] # <<>> /\ DistinctVariables(surrogate_cnf[k])
  <2>1. Len(surrogate_cnf[k]) \in 1 .. 10 /\ DistinctVariables(surrogate_cnf[k])
    BY <1>1, KsatAssumption, ClauseAssumption
  <2>2. surrogate_cnf[k] # <<>>
    <3> SUFFICES ASSUME surrogate_cnf[k] = <<>> PROVE FALSE
      OBVIOUS
    <3>1. Len(<<>>) = 0
      OBVIOUS
    <3>2. 0 \in 1 .. 10
      BY <2>1, <3>1, Zenon
    <3> QED BY <3>2
  <2> QED BY <2>1, <2>2
<1> QED BY <1>1, <1>2 DEF KsatEncoded, WellFormed

LEMMA EncodedStep == ASSUME KsatEncoded, FormulaTypes, [KsatNext]_ksat PROVE KsatEncoded'
<1>1. ASSUME NEW node \in nodes, NEW value \in {0, 1}, Freeze(node, value) PROVE KsatEncoded'
  <2>1. PICK order \in Orders :
          step' \in {"freeze", "encode"} /\ surrogate_cnf' = unitProp2(surrogate_cnf, node, value, order)
    BY <1>1 DEF Freeze
  <2>2. surrogate_cnf \in Formula /\ WellFormed(surrogate_cnf)
    BY DEF KsatEncoded, FormulaTypes
  <2>3. WellFormed(unitProp2(surrogate_cnf, node, value, order))
    BY <2>2, PropagatedFormed
  <2>4. WellFormed(surrogate_cnf')
    BY <2>1, <2>3
  <2> QED BY <2>1, <2>4 DEF KsatEncoded
<1>2. CASE Encode
  <2>1. PICK k3 : k3 = sat_kN_to_k3(surrogate_cnf, maxvar)
    OBVIOUS
  <2>2. /\ surrogate_vars' = AllVariables(k3.formula) /\ curr_Q' = get_idt(k3.formula, k3.v)
        /\ step' \in {"sample", "assertion failed"} /\ surrogate_cnf' = surrogate_cnf
    BY <1>2, <2>1 DEF Encode
  <2>3. FromSplit'
    BY <2>1, <2>2, Zenon DEF FromSplit, SplitOf
  <2>4. WellFormed(surrogate_cnf')
    BY <2>2 DEF KsatEncoded
  <2> QED BY <2>2, <2>3, <2>4 DEF KsatEncoded
<1>3. CASE Sample
  <2>1. /\ step = "sample" /\ step' = "submit"
        /\ UNCHANGED <<surrogate_cnf, surrogate_vars, curr_Q>>
        /\ mtx' = Matrix(CurrentProgram) /\ clamped' = Cardinality(TooLarge(CurrentProgram))
    BY <1>3, Zenon DEF Sample, CurrentProgram
  <2>2. /\ CurrentProgram' = CurrentProgram /\ (FromSplit' <=> FromSplit)
        /\ (WellFormed(surrogate_cnf)' <=> WellFormed(surrogate_cnf))
    BY <2>1, Zenon DEF CurrentProgram, FromSplit
  <2>3. WellFormed(surrogate_cnf') /\ FromSplit'
    BY <2>1, <2>2 DEF KsatEncoded
  <2> QED BY <2>1, <2>2, <2>3 DEF KsatEncoded
<1>4. CASE UNCHANGED ksat
  <2>1. UNCHANGED <<step, surrogate_cnf, surrogate_vars, curr_Q, mtx, clamped>>
    BY <1>4 DEF ksat
  <2>2. CurrentProgram' = CurrentProgram /\ (FromSplit' <=> FromSplit)
    BY <2>1, Zenon DEF CurrentProgram, FromSplit
  <2> QED BY <2>1, <2>2 DEF KsatEncoded
<1> QED BY <1>1, <1>2, <1>3, <1>4 DEF KsatNext, NameError

LEMMA EncodedAlways == KsatSpec => [](KsatEncoded /\ KsatFits)
<1>1. KsatInit => KsatKept /\ KsatFits /\ KsatEncoded
  BY KsatKeptInit, FitsInit, EncodedInit
<1>2. KsatKept /\ KsatFits /\ KsatEncoded /\ [KsatNext]_ksat => (KsatKept /\ KsatFits /\ KsatEncoded)'
  BY KsatKeptStep, TypesKept, FitsStep, EncodedStep
<1> QED BY <1>1, <1>2, PTL DEF KsatSpec

LEMMA FormedSplittable ==
  ASSUME NEW formula \in Formula, WellFormed(formula),
         ~(maxvar \in AllVariables(formula) /\ \E k \in DOMAIN formula : Len(formula[k]) > 3)
  PROVE  Splittable(formula, maxvar)
<1>1. \A k \in DOMAIN formula : Len(formula[k]) # 0 /\ DistinctVariables(formula[k])
  <2> SUFFICES ASSUME NEW k \in DOMAIN formula PROVE Len(formula[k]) # 0 /\ DistinctVariables(formula[k])
    OBVIOUS
  <2>1. formula[k] \in Seq(Literal) /\ formula[k] # <<>>
    BY DEF Formula, WellFormed
  <2>2. Len(formula[k]) # 0
    BY <2>1
  <2> QED BY <2>2 DEF WellFormed
<1>2. CASE maxvar \notin AllVariables(formula)
  <2>1. \A u \in AllVariables(formula) : u \in 1 .. maxvar /\ u # maxvar
    BY <1>2, FormulaVariables
  <2>2. maxvar \in Nat
    BY KsatAssumption
  <2>3. \A u \in AllVariables(formula) : u < maxvar
    BY <2>1, <2>2
  <2> QED BY <1>1, <2>3 DEF Splittable
<1>3. CASE \A k \in DOMAIN formula : ~(Len(formula[k]) > 3)
  <2>1. \A k \in DOMAIN formula : NewVariables(formula[k]) = 0
    BY <1>3, Zenon DEF NewVariables
  <2> QED BY <1>1, <2>1 DEF Splittable
<1> QED BY <1>2, <1>3

LEMMA IsingInt ==
  ASSUME NEW S, IsFiniteSet(S), S \subseteq Int, NEW Q, QuboOver(Q, S),
         NEW t, t = Ascending(S), NEW n, n = Cardinality(S), NEW J, J = Ising(Q, t)
  PROVE  n \in Nat /\ Len(t) = n /\ DOMAIN J = Pairs(n) /\ \A p \in Pairs(n) : J[p] \in Int
<1>1. PICK w, r : w = Weighted(Q, t, n) /\ r = Crossed(Q, t, n)
  OBVIOUS
<1>2. IsingParts(Q, t, n, J, w, r)
  <2>1. IsingParts(Q, t, n, J, Weighted(Q, t, n), Crossed(Q, t, n))
    BY IsingWeights
  <2> QED BY <1>1, <2>1, Zenon
<1>3. /\ n \in Nat /\ Len(t) = n
      /\ \A k \in 1 .. n : w[k] \in Int
      /\ \A p \in Off(n) : r[p] \in Int
      /\ \A k \in 1 .. n : J[<<0, k>>] = 2 * w[k] + SumFunctionOnSet(r, {p \in Off(n) : p[1] = k})
      /\ \A p \in Upper(n) : J[p] = r[p]
      /\ DOMAIN J = {p \in (0 .. n) \X (1 .. n) : p[1] < p[2]}
  BY <1>2, Zenon DEF IsingParts
<1>4. DOMAIN J = Pairs(n)
  <2>1. {p \in (0 .. n) \X (1 .. n) : p[1] < p[2]} = {p \in (0 .. n) \X (0 .. n) : p[1] < p[2]}
    OBVIOUS
  <2> QED BY <1>3, <2>1 DEF Pairs
<1>5. ASSUME NEW p \in Pairs(n) PROVE J[p] \in Int
  <2>1. p = <<p[1], p[2]>> /\ p[1] \in 0 .. n /\ p[2] \in 1 .. n /\ p[1] < p[2]
    BY <1>3 DEF Pairs
  <2>2. CASE p[1] = 0
    <3>1. PICK k \in 1 .. n : k = p[2] /\ p = <<0, k>>
      BY <2>1, <2>2
    <3>2. PICK A : A = {q \in Off(n) : q[1] = k}
      OBVIOUS
    <3>3. A \subseteq Off(n)
      BY <3>2
    <3>4. IsFiniteSet(A)
      BY <1>3, <3>3, GridFinite, FS_Subset
    <3>5. \A q \in A : r[q] \in Int
      BY <1>3, <3>3
    <3>6. SumFunctionOnSet(r, A) \in Int
      BY <3>4, <3>5, SumInt
    <3>7. w[k] \in Int /\ J[p] = 2 * w[k] + SumFunctionOnSet(r, A)
      BY <1>3, <3>1, <3>2
    <3> QED BY <3>6, <3>7
  <2>3. CASE p[1] # 0
    <3>1. p[1] \in 1 .. n
      BY <2>1, <2>3
    <3>2. p \in Upper(n) /\ p \in Off(n)
      BY <2>1, <3>1 DEF Upper, Off
    <3> QED BY <1>3, <3>2
  <2> QED BY <2>2, <2>3
<1> QED BY <1>3, <1>4, <1>5

(* What the chip is programmed with are the values themselves, negated,    *)
(* when none is cut off.                                                   *)
LEMMA MatrixEntry ==
  ASSUME NEW n \in Nat, n <= SOLVER_SPINS, NEW J, DOMAIN J = Pairs(n),
         Cardinality(TooLarge(J)) = 0, NEW p \in Pairs(n)
  PROVE  Matrix(J)[p] = -J[p]
<1>1. TooLarge(J) = {}
  <2>1. TooLarge(J) \subseteq Pairs(n)
    BY DEF TooLarge
  <2>2. IsFiniteSet(TooLarge(J))
    BY <2>1, GridFinite, FS_Subset
  <2> QED BY <2>2, FS_EmptySet
<1>2. SOLVER_SPINS \in Nat
  BY KsatAssumption
<1>3. p \in (0 .. SOLVER_SPINS) \X (0 .. SOLVER_SPINS) /\ p[1] < p[2] /\ p \in DOMAIN J /\ p \notin TooLarge(J)
  BY <1>1, <1>2 DEF Pairs
<1> QED BY <1>3 DEF Matrix

LEMMA ProgramEnergy ==
  ASSUME NEW n \in Nat, n <= SOLVER_SPINS, NEW J, DOMAIN J = Pairs(n), \A p \in Pairs(n) : J[p] \in Int,
         Cardinality(TooLarge(J)) = 0, mtx = Matrix(J), NEW s, \A k \in 0 .. n : s[k] \in Int
  PROVE  Energy(n, s) = SumFunctionOnSet(PairTerms(J, n, s), Pairs(n))
<1>1. PICK P, f, g : /\ P = Pairs(n) /\ f = PairTerms(J, n, s)
                     /\ g = [p \in Pairs(n) |-> mtx[p] * s[p[1]] * s[p[2]]]
  OBVIOUS
<1>2. IsFiniteSet(P)
  BY <1>1, GridFinite
<1>3. \A p \in P : f[p] \in Int /\ g[p] = -f[p]
  <2> SUFFICES ASSUME NEW p \in P PROVE f[p] \in Int /\ g[p] = -f[p]
    OBVIOUS
  <2>1. p[1] \in 0 .. n /\ p[2] \in 0 .. n
    BY <1>1 DEF Pairs
  <2>2. PICK j \in Int, a \in Int, b \in Int : j = J[p] /\ a = s[p[1]] /\ b = s[p[2]]
    BY <1>1, <2>1
  <2>3. mtx[p] = -j
    BY <1>1, <2>2, MatrixEntry
  <2>4. f[p] = j * a * b /\ g[p] = (-j) * a * b
    BY <1>1, <2>2, <2>3 DEF PairTerms
  <2>5. j * a * b \in Int /\ (-j) * a * b = -(j * a * b)
    OBVIOUS
  <2> QED BY <2>4, <2>5
<1>4. SumFunctionOnSet(g, P) = -SumFunctionOnSet(f, P)
  BY <1>2, <1>3, SumNegate
<1>5. SumFunctionOnSet(f, P) \in Int
  <2>1. \A p \in P : f[p] \in Int
    BY <1>3
  <2> QED BY <1>2, <2>1, SumInt
<1>6. DOMAIN g = P
  BY <1>1
<1>7. Energy(n, s) = -SumFunctionOnSet(g, P)
  BY <1>1, <1>6, Zenon DEF Energy, SumFunction
<1>8. PICK e \in Int : e = SumFunctionOnSet(f, P)
  BY <1>5
<1>9. Energy(n, s) = -(-e)
  BY <1>4, <1>7, <1>8, Zenon
<1> QED BY <1>1, <1>8, <1>9

(* Spins and bits.                                                         *)
HasBits(t, n, s) == \E z \in [Int -> {0, 1}] : SpinsOf(t, n, z) = s

LEMMA BitsOfSpins ==
  ASSUME NEW S, IsFiniteSet(S), S \subseteq Int, NEW t, t = Ascending(S), NEW n, n = Cardinality(S),
         NEW s \in States(n)
  PROVE  HasBits(t, n, s)
<1>1. /\ n \in Nat /\ t \in [1 .. n -> S]
      /\ \A a, b \in 1 .. n : t[a] = t[b] => a = b
  BY AscendingFacts
<1>2. s \in [0 .. n -> {-1, 1}] /\ s[0] = 1
  BY DEF States
<1>3. PICK z : z = [i \in Int |-> IF \E k \in 1 .. n : t[k] = i /\ s[k] = 1 THEN 1 ELSE 0]
  OBVIOUS
<1>4. z \in [Int -> {0, 1}]
  BY <1>3
<1>5. PICK r : r = SpinsOf(t, n, z)
  OBVIOUS
<1>6. ASSUME NEW k \in 0 .. n PROVE r[k] = s[k]
  <2>1. r[k] = IF k = 0 THEN 1 ELSE 2 * z[t[k]] - 1
    BY <1>5 DEF SpinsOf
  <2>2. CASE k = 0
    BY <1>2, <2>1, <2>2
  <2>3. CASE k # 0
    <3>1. k \in 1 .. n /\ s[k] \in {-1, 1}
      BY <1>1, <1>2, <2>3
    <3>2. PICK i \in Int : i = t[k]
      BY <1>1, <3>1
    <3>3. (\E j \in 1 .. n : t[j] = i /\ s[j] = 1) <=> s[k] = 1
      BY <1>1, <3>1, <3>2
    <3>4. z[i] = IF s[k] = 1 THEN 1 ELSE 0
      BY <1>3, <3>3
    <3>5. r[k] = 2 * z[i] - 1
      BY <2>1, <2>3, <3>2
    <3> QED BY <3>1, <3>4, <3>5
  <2> QED BY <2>2, <2>3
<1>7. r = s
  BY <1>2, <1>5, <1>6 DEF SpinsOf
<1> QED BY <1>4, <1>5, <1>7 DEF HasBits

LEMMA SpinsOfBits ==
  ASSUME NEW S, IsFiniteSet(S), S \subseteq Int, NEW t, t = Ascending(S), NEW n, n = Cardinality(S),
         NEW z \in [Int -> {0, 1}]
  PROVE  SpinsOf(t, n, z) \in States(n) /\ \A k \in 0 .. n : SpinsOf(t, n, z)[k] \in Int
<1>1. n \in Nat /\ t \in [1 .. n -> S]
  BY AscendingFacts
<1>2. PICK r : r = SpinsOf(t, n, z)
  OBVIOUS
<1>3. ASSUME NEW k \in 0 .. n PROVE r[k] \in {-1, 1} /\ (k = 0 => r[k] = 1)
  <2>1. r[k] = IF k = 0 THEN 1 ELSE 2 * z[t[k]] - 1
    BY <1>2 DEF SpinsOf
  <2>2. CASE k # 0
    <3>1. k \in 1 .. n
      BY <1>1, <2>2
    <3>2. PICK i \in Int : i = t[k]
      BY <1>1, <3>1
    <3>3. z[i] \in {0, 1}
      OBVIOUS
    <3> QED BY <2>1, <2>2, <3>2, <3>3
  <2> QED BY <2>1, <2>2
<1>4. r \in [0 .. n -> {-1, 1}] /\ r[0] = 1
  <2>1. 0 \in 0 .. n
    BY <1>1
  <2> QED BY <1>2, <1>3, <2>1 DEF SpinsOf
<1>5. r \in States(n)
  BY <1>4 DEF States
<1> QED BY <1>2, <1>3, <1>5

(* The assignment that spins stand for.                                    *)
LEMMA AssignedBits ==
  ASSUME NEW S, IsFiniteSet(S), S \subseteq Int, NEW t, t = Ascending(S), NEW n, n = Cardinality(S),
         NEW z \in [Int -> {0, 1}],
         \A u \in AllVariables(surrogate_cnf) : u \in Int /\ u - 1 \in S
  PROVE  Assigned(t, SpinsOf(t, n, z)) = [u \in AllVariables(surrogate_cnf) |-> Shifted(z)[u]]
<1>1. /\ n \in Nat /\ t \in [1 .. n -> S]
      /\ \A a, b \in 1 .. n : t[a] = t[b] => a = b
      /\ \A i \in S : \E k \in 1 .. n : t[k] = i
  BY AscendingFacts
<1>2. Len(t) = n
  BY <1>1 DEF Ascending
<1>3. PICK r : r = SpinsOf(t, n, z)
  OBVIOUS
<1> DEFINE Place(u) == CHOOSE k \in 1 .. Len(t) : t[k] + 1 = u
<1>4. ASSUME NEW u \in AllVariables(surrogate_cnf) PROVE (r[Place(u)] + 1) \div 2 = Shifted(z)[u]
  <2>1. PICK i \in Int : i = u - 1 /\ i \in S /\ i + 1 = u /\ u \in Int
    OBVIOUS
  <2>2. \E k \in 1 .. Len(t) : t[k] + 1 = u
    BY <1>1, <1>2, <2>1
  <2>3. PICK k : k = Place(u)
    OBVIOUS
  <2>4. k \in 1 .. n /\ t[k] + 1 = u
    BY <1>2, <2>2, <2>3
  <2>5. t[k] = i
    <3>1. PICK j \in Int : j = t[k]
      BY <1>1, <2>4
    <3> QED BY <2>1, <2>4, <3>1
  <2>6. k \in 0 .. n /\ k # 0
    BY <2>4
  <2>7. r[k] = 2 * z[i] - 1
    BY <1>3, <2>5, <2>6 DEF SpinsOf
  <2>8. PICK b \in {0, 1} : b = z[i]
    OBVIOUS
  <2>9. (r[k] + 1) \div 2 = b
    BY <2>7, <2>8
  <2>10. Shifted(z)[u] = z[i]
    BY <2>1 DEF Shifted
  <2> QED BY <2>3, <2>8, <2>9, <2>10, Zenon
<1>5. Assigned(t, r) = [u \in AllVariables(surrogate_cnf) |-> (r[Place(u)] + 1) \div 2]
  BY Zenon DEF Assigned
<1> HIDE DEF Place
<1>6. Assigned(t, r) = [u \in AllVariables(surrogate_cnf) |-> Shifted(z)[u]]
  BY <1>4, <1>5
<1> QED BY <1>3, <1>6

(* What the split formula and the program over its variables are.          *)
ProgramOf(F, v, S, t, n) ==
  /\ S = ProgramSet(AllVariables(F), get_idt(F, v)) /\ t = Ascending(S) /\ n = Cardinality(S)
Restricted(x) == [u \in AllVariables(surrogate_cnf) |-> x[u]]

LEMMA SatisfiedRestricted == ASSUME NEW x PROVE Satisfied(surrogate_cnf, Restricted(x)) = Satisfied(surrogate_cnf, x)
<1>1. PICK F, y : F = surrogate_cnf /\ y = Restricted(x)
  OBVIOUS
<1>2. \A u \in AllVariables(F) : y[u] = x[u]
  BY <1>1 DEF Restricted
<1>3. Satisfied(F, y) = Satisfied(F, x)
  BY <1>2, SatisfiedAgree
<1> QED BY <1>1, <1>3

LEMMA ProgramParts ==
  ASSUME NEW F, NEW v, SplitLike(F, v, surrogate_cnf, maxvar), NEW S, NEW t, NEW n, ProgramOf(F, v, S, t, n)
  PROVE  /\ ProgramVariables(AllVariables(F), get_idt(F, v)) = t
         /\ IsFiniteSet(S) /\ S \subseteq Int /\ QuboOver(get_idt(F, v), S) /\ n \in Nat /\ Len(t) = n
         /\ \A u \in AllVariables(surrogate_cnf) : u \in Int /\ u - 1 \in S
<1>1. PICK V, Q : V = AllVariables(F) /\ Q = get_idt(F, v)
  OBVIOUS
<1>2. /\ Encodable(F) /\ v \in Nat /\ IsFiniteSet(V) /\ V \subseteq Int
      /\ AllVariables(surrogate_cnf) \subseteq V
  BY <1>1, Zenon DEF SplitLike
<1>3. F \in Seq(Clause)
  BY <1>2 DEF Encodable
<1>4. S = ProgramSet(V, Q) /\ t = Ascending(S) /\ n = Cardinality(S)
  BY <1>1, Zenon DEF ProgramOf
<1>5. ProgramVariables(V, Q) = t /\ IsFiniteSet(S) /\ S \subseteq Int /\ QuboOver(Q, S)
  BY <1>1, <1>2, <1>3, <1>4, ProgramQubo
<1>6. n \in Nat
  BY <1>4, <1>5, FS_CardinalityType
<1>7. Len(t) = n
  BY <1>4, <1>6 DEF Ascending
<1>8. \A u \in V : u - 1 \in S
  BY <1>4 DEF ProgramSet
<1> QED BY <1>1, <1>2, <1>5, <1>6, <1>7, <1>8

(* The energy that an assignment can at least reach, and some spins do.    *)
Floor(F, v, t, n) == Ground(F, get_idt(F, v), t, n) - 4 * (v - maxvar)

LEMMA EnergyOfBitsOf ==
  ASSUME NEW F, NEW v, SplitLike(F, v, surrogate_cnf, maxvar), NEW S, NEW t, NEW n, ProgramOf(F, v, S, t, n),
         NEW J, J = Ising(get_idt(F, v), t), n <= SOLVER_SPINS, Cardinality(TooLarge(J)) = 0, mtx = Matrix(J),
         NEW z \in [Int -> {0, 1}], NEW s, s = SpinsOf(t, n, z)
  PROVE  /\ Energy(n, s) \in Int /\ Ground(F, get_idt(F, v), t, n) \in Int
         /\ s \in States(n) /\ Assigned(t, s) = Restricted(Shifted(z))
         /\ Satisfied(F, Shifted(z)) \in Nat
         /\ Ground(F, get_idt(F, v), t, n) <= Energy(n, s) + 4 * Satisfied(F, Shifted(z))
         /\ AncillasRight(F, v, z) =>
              Ground(F, get_idt(F, v), t, n) = Energy(n, s) + 4 * Satisfied(F, Shifted(z))
<1>1. PICK V, Q : V = AllVariables(F) /\ Q = get_idt(F, v)
  OBVIOUS
<1>2. Encodable(F) /\ v \in Nat /\ IsFiniteSet(V) /\ V \subseteq Int
  BY <1>1, Zenon DEF SplitLike
<1>3. S = ProgramSet(V, Q) /\ t = Ascending(S) /\ n = Cardinality(S)
  BY <1>1, Zenon DEF ProgramOf
<1>4. /\ IsFiniteSet(S) /\ S \subseteq Int /\ QuboOver(Q, S) /\ n \in Nat
      /\ \A u \in AllVariables(surrogate_cnf) : u \in Int /\ u - 1 \in S
  BY <1>1, ProgramParts
<1>5. DOMAIN J = Pairs(n) /\ \A p \in Pairs(n) : J[p] \in Int
  BY <1>1, <1>3, <1>4, IsingInt
<1>6. s \in States(n) /\ \A k \in 0 .. n : s[k] \in Int
  BY <1>3, <1>4, SpinsOfBits
<1>7. PICK e : e = SumFunctionOnSet(PairTerms(J, n, SpinsOf(t, n, z)), Pairs(n))
  OBVIOUS
<1>8. Energy(n, s) = e
  <2>1. Energy(n, s) = SumFunctionOnSet(PairTerms(J, n, s), Pairs(n))
    BY <1>4, <1>5, <1>6, ProgramEnergy
  <2> QED BY <1>7, <2>1, Zenon
<1>9. /\ e \in Int /\ Ground(F, Q, t, n) \in Int /\ Satisfied(F, Shifted(z)) \in Nat
      /\ Ground(F, Q, t, n) <= e + 4 * Satisfied(F, Shifted(z))
      /\ AncillasRight(F, v, z) => Ground(F, Q, t, n) = e + 4 * Satisfied(F, Shifted(z))
  BY <1>1, <1>2, <1>3, <1>7, EnergyOfFormula
<1>10. Assigned(t, s) = Restricted(Shifted(z))
  <2>1. Assigned(t, SpinsOf(t, n, z)) = [u \in AllVariables(surrogate_cnf) |-> Shifted(z)[u]]
    BY <1>3, <1>4, AssignedBits
  <2> QED BY <2>1, Zenon DEF Restricted
<1> QED BY <1>1, <1>6, <1>8, <1>9, <1>10

LEMMA LeastEnergy ==
  ASSUME NEW F, NEW v, SplitLike(F, v, surrogate_cnf, maxvar), NEW S, NEW t, NEW n, ProgramOf(F, v, S, t, n),
         NEW J, J = Ising(get_idt(F, v), t), n <= SOLVER_SPINS, Cardinality(TooLarge(J)) = 0, mtx = Matrix(J),
         NEW s \in States(n)
  PROVE  /\ Energy(n, s) \in Int /\ Floor(F, v, t, n) \in Int /\ Satisfied(surrogate_cnf, Assigned(t, s)) \in Nat
         /\ Floor(F, v, t, n) <= Energy(n, s) + 4 * Satisfied(surrogate_cnf, Assigned(t, s))
         /\ \E r \in States(n) :
              /\ Assigned(t, r) = Assigned(t, s)
              /\ Floor(F, v, t, n) = Energy(n, r) + 4 * Satisfied(surrogate_cnf, Assigned(t, s))
<1>1. PICK V, G, g : V = maxvar /\ G = surrogate_cnf /\ g = Ground(F, get_idt(F, v), t, n)
  OBVIOUS
<1>2. /\ v \in Nat /\ V <= v /\ V \in Nat /\ Encodable(F)
      /\ AllVariables(F) \subseteq Int /\ AllVariables(G) \subseteq AllVariables(F)
      /\ \A u \in AllVariables(F) : u <= v
      /\ \A x \in [Int -> {0, 1}] : /\ Satisfied(F, x) \in Nat /\ Satisfied(G, x) \in Nat
                                    /\ Satisfied(F, x) <= (v - V) + Satisfied(G, x)
      /\ \A x \in [Int -> {0, 1}] : \E y \in [Int -> {0, 1}] :
           (\A u \in AllVariables(G) : y[u] = x[u]) /\ Satisfied(F, y) = (v - V) + Satisfied(G, x)
  <2>1. V \in Nat
    BY <1>1, KsatAssumption
  <2> QED BY <1>1, <2>1, Zenon DEF SplitLike
<1>3. IsFiniteSet(S) /\ S \subseteq Int /\ t = Ascending(S) /\ n = Cardinality(S) /\ n \in Nat
  <2>1. IsFiniteSet(S) /\ S \subseteq Int /\ n \in Nat
    BY ProgramParts
  <2>2. t = Ascending(S) /\ n = Cardinality(S)
    BY Zenon DEF ProgramOf
  <2> QED BY <2>1, <2>2
<1>4. PICK z \in [Int -> {0, 1}] : s = SpinsOf(t, n, z)
  <2>1. HasBits(t, n, s)
    BY <1>3, BitsOfSpins, Zenon
  <2> QED BY <2>1, Zenon DEF HasBits
<1>5. PICK x : x = Shifted(z)
  OBVIOUS
<1>6. x \in [Int -> {0, 1}]
  BY <1>5 DEF Shifted
<1>7. PICK e : e = Energy(n, s)
  OBVIOUS
<1>8. /\ e \in Int /\ g \in Int /\ Assigned(t, s) = Restricted(x)
      /\ Satisfied(F, x) \in Nat /\ g <= e + 4 * Satisfied(F, x)
  BY <1>1, <1>4, <1>5, <1>7, EnergyOfBitsOf
<1>9. PICK a \in Nat, b \in Nat : a = Satisfied(F, x) /\ b = Satisfied(G, x) /\ a <= (v - V) + b
  BY <1>2, <1>6
<1>10. Satisfied(G, Assigned(t, s)) = b
  BY <1>1, <1>8, <1>9, SatisfiedRestricted
<1>11. Floor(F, v, t, n) = g - 4 * (v - V)
  BY <1>1, Zenon DEF Floor
<1>12. g - 4 * (v - V) \in Int /\ g - 4 * (v - V) <= e + 4 * b
  <2>1. g <= e + 4 * a
    BY <1>8, <1>9
  <2>2. 4 * a <= 4 * (v - V) + 4 * b
    BY <1>2, <1>9
  <2> QED BY <1>2, <1>8, <2>1, <2>2
<1>13. PICK y \in [Int -> {0, 1}] : (\A u \in AllVariables(G) : y[u] = x[u]) /\ Satisfied(F, y) = (v - V) + b
  BY <1>2, <1>6, <1>9
<1>14. PICK q \in [Int -> {0, 1}] : AncillasRight(F, v, q) /\ \A u \in AllVariables(F) : q[u - 1] = y[u]
  <2>1. PICK q : q = Ancilled(F, v, y)
    OBVIOUS
  <2>2. \A u \in AllVariables(F) : u <= v
    BY <1>2
  <2>3. q \in [Int -> {0, 1}] /\ AncillasRight(F, v, q) /\ \A u \in AllVariables(F) : q[u - 1] = y[u]
    BY <1>2, <2>1, <2>2, AncillasExist
  <2> QED BY <2>3
<1>15. \A u \in AllVariables(F) : Shifted(q)[u] = y[u]
  BY <1>2, <1>14 DEF Shifted
<1>16. Satisfied(F, Shifted(q)) = (v - V) + b
  BY <1>13, <1>15, SatisfiedAgree
<1>17. PICK r, d : r = SpinsOf(t, n, q) /\ d = Energy(n, r)
  OBVIOUS
<1>18. /\ d \in Int /\ r \in States(n) /\ Assigned(t, r) = Restricted(Shifted(q))
       /\ g = d + 4 * Satisfied(F, Shifted(q))
  BY <1>1, <1>14, <1>17, EnergyOfBitsOf
<1>19. Restricted(Shifted(q)) = Restricted(x)
  <2>1. \A u \in AllVariables(surrogate_cnf) : Shifted(q)[u] = x[u]
    BY <1>1, <1>2, <1>13, <1>15
  <2> QED BY <2>1 DEF Restricted
<1>20. g - 4 * (v - V) = d + 4 * b
  <2>1. g = d + 4 * ((v - V) + b)
    BY <1>16, <1>18
  <2> QED BY <1>2, <1>8, <1>18, <2>1
<1> QED BY <1>1, <1>7, <1>8, <1>10, <1>11, <1>12, <1>17, <1>18, <1>19, <1>20

(* The least element of a set.                                             *)
LEMMA LeastOf ==
  ASSUME NEW A, A \subseteq Int, NEW e \in A, \A a \in A : e <= a PROVE Min(A) = e
<1>1. \E m \in A : \A a \in A : m <= a
  OBVIOUS
<1>2. Min(A) \in A /\ \A a \in A : Min(A) <= a
  <2>1. PICK m : m = Min(A)
    OBVIOUS
  <2>2. m = CHOOSE x \in A : \A a \in A : x <= a
    BY <2>1, Zenon DEF Min
  <2> QED BY <1>1, <2>1, <2>2
<1>3. PICK m \in Int : m = Min(A) /\ m <= e /\ e <= m
  BY <1>2
<1> QED BY <1>3

(* The invariant gives the property: each assignment has the same least    *)
(* energy, up to four for each clause it satisfies.                        *)
LEMMA EncodedShows == ASSUME KsatEncoded, KsatFits PROVE EncodingExact
<1> SUFFICES ASSUME step = "submit", clamped = 0, ~Collides PROVE EncodingExact
  BY Zenon DEF EncodingExact
<1>1. PICK G : G = surrogate_cnf
  OBVIOUS
<1>2. G \in Formula /\ WellFormed(G) /\ FromSplit
  BY <1>1 DEF KsatFits, FormulaTypes, KsatEncoded
<1>3. Splittable(G, maxvar)
  BY <1>1, <1>2, FormedSplittable DEF Collides
<1>4. PICK k3 : /\ SplitOf(surrogate_cnf, k3)
                /\ surrogate_vars = AllVariables(k3.formula) /\ curr_Q = get_idt(k3.formula, k3.v)
  BY <1>2, Zenon DEF FromSplit
<1>5. PICK F, v : F = k3.formula /\ v = k3.v
  OBVIOUS
<1>6. SplitLike(F, v, surrogate_cnf, maxvar)
  <2>1. k3 = sat_kN_to_k3(G, maxvar)
    BY <1>1, <1>4, Zenon DEF SplitOf
  <2>2. SplitLike(k3.formula, k3.v, G, maxvar)
    BY <1>2, <1>3, <2>1, SplitExact
  <2> QED BY <1>1, <1>5, <2>2, Zenon
<1>7. PICK S : S = ProgramSet(AllVariables(F), get_idt(F, v))
  OBVIOUS
<1>8. PICK t, n : t = Ascending(S) /\ n = Cardinality(S)
  OBVIOUS
<1>9. ProgramOf(F, v, S, t, n)
  BY <1>7, <1>8, Zenon DEF ProgramOf
<1>10. ProgramVariables(surrogate_vars, curr_Q) = t /\ Len(t) = n /\ n \in Nat
  BY <1>4, <1>5, <1>6, <1>9, ProgramParts
<1>11. n <= SOLVER_SPINS
  <2>1. Len(ProgramVariables(surrogate_vars, curr_Q)) <= SOLVER_SPINS
    BY DEF KsatFits
  <2> QED BY <1>10, <2>1, Zenon
<1>12. PICK J : J = Ising(get_idt(F, v), t)
  OBVIOUS
<1>13. CurrentProgram = J
  BY <1>4, <1>5, <1>10, <1>12, Zenon DEF CurrentProgram
<1>14. mtx = Matrix(J) /\ Cardinality(TooLarge(J)) = 0
  BY <1>13 DEF KsatEncoded
<1> DEFINE variables == ProgramVariables(surrogate_vars, curr_Q)
           m         == Len(variables)
           energy    == [s \in States(m) |-> Energy(m, s)]
           bits      == [s \in States(m) |-> Assigned(variables, s)]
           Least(x)  == Min({energy[s] : s \in {r \in States(m) : bits[r] = x}})
           Goal      == Cardinality({Least(x) + 4 * Satisfied(surrogate_cnf, x) : x \in Range(bits)}) = 1
<1>15. Goal => EncodingExact
  BY Zenon DEF EncodingExact
<1>16. /\ m = n /\ DOMAIN bits = States(n)
       /\ \A s \in States(n) : energy[s] = Energy(n, s) /\ bits[s] = Assigned(t, s)
  <2>1. variables = t /\ m = n
    BY <1>10
  <2> HIDE DEF variables, m
  <2> QED BY <2>1
<1> HIDE DEF variables, m, energy, bits
<1>17. PICK c : c = Floor(F, v, t, n)
  OBVIOUS
<1>18. ASSUME NEW s \in States(n)
       PROVE  /\ energy[s] \in Int /\ c \in Int /\ Satisfied(surrogate_cnf, bits[s]) \in Nat
              /\ c <= energy[s] + 4 * Satisfied(surrogate_cnf, bits[s])
              /\ \E r \in States(n) : bits[r] = bits[s] /\ c = energy[r] + 4 * Satisfied(surrogate_cnf, bits[s])
  <2>1. energy[s] = Energy(n, s) /\ bits[s] = Assigned(t, s)
    BY <1>16
  <2>2. /\ Energy(n, s) \in Int /\ c \in Int /\ Satisfied(surrogate_cnf, Assigned(t, s)) \in Nat
        /\ c <= Energy(n, s) + 4 * Satisfied(surrogate_cnf, Assigned(t, s))
        /\ \E r \in States(n) :
             /\ Assigned(t, r) = Assigned(t, s)
             /\ c = Energy(n, r) + 4 * Satisfied(surrogate_cnf, Assigned(t, s))
    BY <1>6, <1>9, <1>11, <1>12, <1>14, <1>17, LeastEnergy
  <2>3. \A r \in States(n) : energy[r] = Energy(n, r) /\ bits[r] = Assigned(t, r)
    BY <1>16
  <2> QED BY <2>1, <2>2, <2>3, Zenon
<1>19. \A x \in Range(bits) : Least(x) + 4 * Satisfied(surrogate_cnf, x) = c
  <2> SUFFICES ASSUME NEW x \in Range(bits) PROVE Least(x) + 4 * Satisfied(surrogate_cnf, x) = c
    OBVIOUS
  <2>1. PICK s \in States(n) : bits[s] = x
    BY <1>16 DEF Range
  <2>2. PICK A : A = {energy[r] : r \in {q \in States(n) : bits[q] = x}} /\ Least(x) = Min(A)
    BY <1>16
  <2>3. PICK k \in Nat : k = Satisfied(surrogate_cnf, x)
    BY <1>18, <2>1
  <2>4. c \in Int
    BY <1>18, <2>1
  <2>5. \A a \in A : a \in Int /\ c <= a + 4 * k
    BY <1>18, <2>2, <2>3
  <2>6. PICK e \in A : c = e + 4 * k
    BY <1>18, <2>1, <2>2, <2>3
  <2>7. \A a \in A : e <= a
    BY <2>4, <2>5, <2>6
  <2>8. A \subseteq Int
    BY <2>5
  <2>9. Min(A) = e
    BY <2>6, <2>7, <2>8, LeastOf
  <2> QED BY <2>2, <2>3, <2>6, <2>9
<1>20. \E s : s \in States(n)
  <2>1. [k \in 0 .. n |-> 1] \in States(n)
    BY <1>10 DEF States
  <2> QED BY <2>1
<1>21. Range(bits) # {}
  BY <1>16, <1>20 DEF Range
<1> HIDE DEF Least
<1>22. {Least(x) + 4 * Satisfied(surrogate_cnf, x) : x \in Range(bits)} = {c}
  BY <1>19, <1>21
<1>23. Goal
  BY <1>22, FS_Singleton
<1> QED BY <1>23, <1>15

(* The program encodes the formula: for every formula, every order and     *)
(* every value of the frozen variables and every size of the chip, the     *)
(* least energy over all new variables and ancillas falls by SCALE = 4     *)
(* with each clause an assignment satisfies, unless a split has reused the *)
(* number of the last variable or a weight was cut off (sat_kN_to_k3,      *)
(* get_idt, cobidualres_sample).                                           *)
THEOREM ProgramEncodesFormula == KsatSpec => []EncodingExact
<1>1. KsatSpec => [](KsatEncoded /\ KsatFits)
  BY EncodedAlways
<1>2. KsatEncoded /\ KsatFits => EncodingExact
  BY EncodedShows
<1> QED BY <1>1, <1>2, PTL
=============================================================================
