------------------------------- MODULE FrontEnd -------------------------------
(***************************************************************************)
(* From the command line to the call of solve(), src/cmd/main.c: the       *)
(* options are read one by one in the order given, then the input file     *)
(* (QuboReader), then, with -C, a COBI card is claimed (cobi_init of       *)
(* src/cobi.cc) and the sub-sampler replaced.  Any of it may end the       *)
(* program.                                                                *)
(***************************************************************************)
EXTENDS QuboReader

CONSTANTS
  Algos,       \* arguments of -a
  SubSizes,    \* arguments of -S
  Settings,    \* other options with a number: <<name, number>>
  NUM_SPINS,   \* COBI_NUM_SPINS, 45
  Card,        \* numbers a card may have
  MaxOptions   \* bound: options given

ASSUME FrontEndAssumption ==
  /\ Settings \subseteq {"num_samples", "card", "repeats"} \X Int
  /\ Card \subseteq Nat

VARIABLES
  algo_, use_cobi, findMax_,
  inFile,        \* an input file is open
  param,         \* name -> number
  sub_size, sub_sampler,
  errorCount,
  device,        \* card -> what is found at /dev/cobi_<card>
  untried,       \* cards cobi_init has found and not opened yet
  claimed,       \* the card in cobi_fds, if any
  reset,         \* cards that have been reset
  val, QLEN,
  given,         \* history: the options so far
  pc, status     \* exit status, once pc = "exited"

file    == <<maxNodes_, nNodes_, nCouplers_, pFound, nodes_, couplers_, stated, reading>>
options == <<algo_, use_cobi, findMax_, inFile, param, sub_size, errorCount, given>>
cards   == <<untried, claimed, reset>>
program == <<sub_sampler, val, QLEN>>
allvars == <<file, options, cards, program, device, pc, status>>

Setting  == {"num_samples", "card", "repeats"}
Default  == [name \in Setting |-> CASE name = "num_samples" -> 5
                                    [] name = "card" -> -1 [] name = "repeats" -> 50]
FirmwareOK_Any(k) == TRUE
FirmwareOK(k) == device[k] = "quad"

FrontEndInit ==
  /\ Init
  /\ algo_ = "o" /\ use_cobi = FALSE /\ findMax_ = FALSE /\ inFile = FALSE
  /\ param = Default
  /\ sub_size = NUM_SPINS /\ sub_sampler = "tabu"
  /\ errorCount = 0
  /\ device = [k \in Card |-> "absent"]
  /\ untried = {} /\ claimed = {} /\ reset = {}
  /\ val = <<>> /\ QLEN = 0
  /\ given = <<>>
  /\ pc = "options" /\ status = 0

exit(code) == pc' = "exited" /\ status' = code
goto(where) == pc' = where /\ UNCHANGED status
------------------------------------------------------------------------------
Given(option) ==
  /\ pc = "options" /\ Len(given) < MaxOptions
  /\ given' = Append(given, option)
  /\ UNCHANGED <<file, cards, program, device>>

Option_a(algo) ==
  /\ Given(<<"a", algo>>)
  /\ algo_' = algo
  /\ IF algo \in {"o", "d", "b"} THEN goto("options") ELSE exit(9)
  /\ UNCHANGED <<use_cobi, findMax_, inFile, param, sub_size, errorCount>>

Option_i(found) ==
  /\ Given(<<"i">>)
  /\ inFile' = found
  /\ IF found THEN goto("options") ELSE exit(9)
  /\ UNCHANGED <<algo_, use_cobi, findMax_, param, sub_size, errorCount>>

(* A size is taken whatever it is, and takes back an earlier -C.           *)
Option_S_KeepsCobi(n) ==
  /\ Given(<<"S", n>>)
  /\ sub_size' = n
  /\ errorCount' = IF n < 10 /\ n # 0 THEN errorCount + 1 ELSE errorCount
  /\ goto("options")
  /\ UNCHANGED <<algo_, use_cobi, findMax_, inFile, param>>
Option_S(n) ==
  /\ Given(<<"S", n>>)
  /\ sub_size' = n
  /\ errorCount' = IF n < 10 /\ n # 0 THEN errorCount + 1 ELSE errorCount
  /\ use_cobi' = FALSE
  /\ goto("options")
  /\ UNCHANGED <<algo_, findMax_, inFile, param>>

Option_C ==
  /\ Given(<<"C">>)
  /\ use_cobi' = TRUE
  /\ goto("options")
  /\ UNCHANGED <<algo_, findMax_, inFile, param, sub_size, errorCount>>

Option_m ==
  /\ Given(<<"m">>)
  /\ findMax_' = TRUE
  /\ goto("options")
  /\ UNCHANGED <<algo_, use_cobi, inFile, param, sub_size, errorCount>>

(* An option with a number; that of a card is cast to 16 bits.             *)
Cast(name, number) == IF name = "card" THEN number % 65536 ELSE number

Option_number(name, number) ==
  /\ Given(<<name, number>>)
  /\ param' = [param EXCEPT ![name] = Cast(name, number)]
  /\ goto("options")
  /\ UNCHANGED <<algo_, use_cobi, findMax_, inFile, sub_size, errorCount>>

(* -h, -q and what getopt does not know (-s and -D among it) print a text  *)
(* and end well, -V ends with 9.                                           *)
Option_text(code) ==
  /\ Given(<<"text", code>>)
  /\ exit(code)
  /\ UNCHANGED <<algo_, use_cobi, findMax_, inFile, param, sub_size, errorCount>>

EndOfOptions ==
  /\ pc = "options"
  /\ IF inFile THEN goto("file") ELSE exit(9)
  /\ UNCHANGED <<file, options, cards, program, device>>

Option ==
  \/ \E algo \in Algos : Option_a(algo)
  \/ \E found \in BOOLEAN : Option_i(found)
  \/ \E n \in SubSizes : Option_S(n)
  \/ Option_C \/ Option_m
  \/ \E s \in Settings : Option_number(s[1], s[2])
  \/ \E code \in {0, 9} : Option_text(code)
------------------------------------------------------------------------------
(* read_qubo returns no errors or not at all; its result replaces the      *)
(* errors counted in the options.                                          *)
ReadFile ==
  /\ pc = "file"
  /\ Next
  /\ errorCount' = IF reading' = "accepted" THEN 0 ELSE errorCount
  /\ CASE reading' = "lines"    -> goto("file")
       [] reading' = "accepted" -> goto("fill")
       [] reading' = "refused"  -> exit(9)
  /\ UNCHANGED <<algo_, use_cobi, findMax_, inFile, param, sub_size, given,
                 cards, program, device>>

(* An accepted entry with a negative node is written in front of the       *)
(* matrix or a row; what the program does then, nothing says: "outside".   *)
FillMatrix ==
  /\ pc = "fill"
  /\ IF errorCount > 0 THEN exit(1)
     ELSE goto(IF \E e \in Entries : ~Inside(e) THEN "outside"
               ELSE IF use_cobi THEN "find" ELSE "solve")
  /\ val' = fill_qubo(findMax_)
  /\ QLEN' = IF algo_ = "d" THEN 75 ELSE 20
  /\ UNCHANGED <<file, options, cards, sub_sampler, device>>

(* cobi_init: the cards that are there, or the one asked for; one of them  *)
(* is wanted.                                                              *)
FindCards ==
  /\ pc = "find"
  /\ device' \in [Card -> {"absent", "busy", "quad", "single"}]
  /\ untried' = {k \in Card : device'[k] # "absent" /\ param["card"] \in {-1, k}}
  /\ goto("open")
  /\ UNCHANGED <<file, options, claimed, reset, program>>

(* Open one after the other until one has the expected firmware.  Reading  *)
(* it from a card that was opened may fail, which ends the program.        *)
OpenCard(k) ==
  /\ pc = "open" /\ claimed = {}
  /\ k \in untried
  /\ untried' = untried \ {k}
  /\ \/ /\ claimed' = IF device[k] # "busy" /\ FirmwareOK(k) THEN {k} ELSE {}
        /\ UNCHANGED <<pc, status>>
     \/ /\ device[k] # "busy"
        /\ exit(1)
        /\ UNCHANGED claimed
  /\ UNCHANGED <<file, options, reset, program, device>>

(* No card left, or one claimed: reset it.  The write to its control       *)
(* register may fail (3), or a read while results are flushed (1).         *)
ResetCards ==
  /\ pc = "open"
  /\ claimed # {} \/ untried = {}
  /\ \/ claimed = {} /\ exit(1) /\ UNCHANGED reset
     \/ claimed # {} /\ goto("samples") /\ reset' = claimed
     \/ claimed # {} /\ (\E code \in {1, 3} : exit(code)) /\ UNCHANGED reset
  /\ UNCHANGED <<file, options, untried, claimed, program, device>>

UseCobi ==
  /\ pc = "samples"
  /\ IF param["num_samples"] < 1
       THEN exit(2) /\ UNCHANGED <<sub_size, sub_sampler>>
       ELSE sub_size' = NUM_SPINS /\ sub_sampler' = "cobi" /\ goto("solve")
  /\ UNCHANGED <<file, algo_, use_cobi, findMax_, inFile, param, errorCount, given,
                 cards, val, QLEN, device>>

(* solve() (OuterLoop), cobi_close and the end.                            *)
Solve ==
  /\ pc = "solve"
  /\ exit(0)
  /\ claimed' = {}
  /\ UNCHANGED <<file, options, untried, reset, program, device>>

Exited == pc \in {"exited", "outside"} /\ UNCHANGED allvars

FrontEndNext ==
  \/ Option \/ EndOfOptions \/ ReadFile \/ FillMatrix
  \/ FindCards \/ (\E k \in Card : OpenCard(k)) \/ ResetCards \/ UseCobi
  \/ Solve \/ Exited

Spec == FrontEndInit /\ [][FrontEndNext]_allvars
------------------------------------------------------------------------------
LastGiven(names) ==
  LET at == {k \in 1 .. Len(given) : given[k][1] \in names}
  IN  IF at = {} THEN <<>> ELSE given[Max(at)]

CobiAsked == LastGiven({"C", "S"}) = <<"C">>

(* solve() is handed the matrix the file states: for every pair the value  *)
(* of its last line, negated unless -m stands anywhere on the command line,*)
(* zero where there is none and below the diagonal (readqubo.c:137, 144,   *)
(* "Zero out the qubo", "Copy the structs into the matrix").  A pair with  *)
(* several lines is an error by the format (main.c:579-585, README.rst:165,*)
(* 169), but nothing refuses it: this says what becomes of it.  A file with*)
(* negative nodes goes "outside".                                          *)
MatrixIsFile ==
  pc = "solve" =>
    \A p \in DOMAIN val :
      val[p] = IF \E k \in 1 .. Len(given) : given[k] = <<"m">> THEN stated[p] ELSE -stated[p]

(* What the options come to, in whatever order they are given.  The card   *)
(* solves the sub-problems if -C stands behind every -S, and they have the *)
(* size of its chips then, whatever -S has asked for; otherwise tabu search*)
(* does, at the size of the last -S or at the default (main.c:206-220,     *)
(* 364-400; README.rst:103, "solved with the tabu solver").  Of a -S behind*)
(* -C the documents say both (main.c:465-466 has the chip whenever -C is   *)
(* present).  Nothing is claimed of the size for -S 0, "the default value" *)
(* by main.c:520-522 but taken as it is, nor for other sizes below 10, an  *)
(* error by main.c:211 that main.c:348 forgets.                            *)
SamplerFits ==
  pc = "solve" =>
    IF CobiAsked THEN sub_sampler = "cobi" /\ sub_size = NUM_SPINS
    ELSE /\ sub_sampler = "tabu"
         /\ IF LastGiven({"S"}) = <<>> THEN sub_size = NUM_SPINS
            ELSE LastGiven({"S"})[2] >= 10 => sub_size = LastGiven({"S"})[2]

(* A run on the card has claimed one, of the firmware the driver is written*)
(* for and the number asked for last (of 16 bits), has reset it and takes  *)
(* at least one sample; any other run claims none (cobi.cc:1132, "Verify   *)
(* expected firmware").                                                    *)
CardFits ==
  pc = "solve" =>
    IF CobiAsked
      THEN /\ Cardinality(claimed) = 1 /\ claimed \subseteq reset
           /\ param["num_samples"] >= 1
           /\ \A k \in claimed : /\ device[k] = "quad"
                                 /\ LastGiven({"card"}) # <<>> =>
                                      k = Cast("card", LastGiven({"card"})[2])
      ELSE claimed = {}
==============================================================================
