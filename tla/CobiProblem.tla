------------------------------ MODULE CobiProblem ------------------------------
(***************************************************************************)
(* From a sub-QUBO to the programs of the COBI chip and back, src/cobi.cc: *)
(* the QUBO becomes an Ising problem, each of a call's programs normalises *)
(* it into the weights the chip has (-7 to 7, two for every coupler), lays *)
(* them out in a matrix of nibbles between the rows and columns that hold  *)
(* the SHIL values, and sends the matrix as words of 16 nibbles; a result  *)
(* comes back as three words of bits.  The library isd/cobi.c shares the   *)
(* layout but takes the weights of its caller as they are.  An Ising value *)
(* v is held as 4 * v, a scale s as 10 * s: all numbers here are whole,    *)
(* and the doubles' rounding is left out.                                  *)
(***************************************************************************)
EXTENDS Qubo, Sequences, FiniteSetsExt

CONSTANTS
  Qubos,       \* the sub-problems, [UpperPair -> Int]
  Weights,     \* the matrices callers of the library hand over
  Names,       \* what -e may be given
  ShilVals,    \* what --shilVal may make of a byte
  INT_MAX,     \* C's int (2^31 - 1)
  Settings,    \* the control parameters after the program's number (seven)
  Answers,     \* what a chip may answer
  SHIL_INDEX,  \* 22 on the chip, whose 45 spins are those of a sub-problem
  PAD,         \* nibbles before the first of the matrix (4)
  CHIP_WORD    \* bits of a word read from the FPGA (32)

HW_SPINS == qubo_size + 1            \* spin 0 stands for the local field
HEIGHT   == HW_SPINS + 5
WIDTH    == HW_SPINS + 6
Spin     == 0 .. HW_SPINS - 1
Cell     == (0 .. HEIGHT - 1) \X (0 .. WIDTH - 1)
LEAD     == WIDTH - 4 * (Len(Settings) + 1)   \* control nibbles 0xA (20)
PROGRAM_LEN == (PAD + HEIGHT * WIDTH) \div 16
OUTPUT_LEN  == 8 + HW_SPINS + 15
UInt16 == 0 .. 65535
Int15  == -(2 ^ 14) .. 2 ^ 14 - 1
Answer == [problem_id : 0 .. 15, core_id : 0 .. 15, spins : [Spin -> {-1, 1}], energy : Int15]

(* The padding fills whole words, and three words hold a result.           *)
ASSUME ProblemAssumption ==
  /\ Qubos \subseteq [UpperPair -> Int] /\ Weights \subseteq [Spin \X Spin -> Int]
  /\ ShilVals \subseteq 0 .. 255 /\ INT_MAX \in Nat /\ INT_MAX >= 15
  /\ SHIL_INDEX \in Nat /\ qubo_size = 2 * SHIL_INDEX + 1
  /\ PAD \in 0 .. 15 /\ (PAD + HEIGHT * WIDTH) % 16 = 0
  /\ Settings \in Seq(UInt16) /\ LEAD \in Nat
  /\ 2 * CHIP_WORD < OUTPUT_LEN /\ OUTPUT_LEN <= 3 * CHIP_WORD
  /\ CHIP_WORD \in Nat \ {0} /\ Answers \subseteq Answer

VARIABLES
  client,         \* "cobisolv" or the library, "isd"
  qubo, eval_strat,
  shil_val,       \* --shilVal, 0 by default and for the library
  ising,          \* upper pair -> four times its Ising value
  norm_ising,     \* weights, a buffer all programs of the call share
  prob_num,       \* the program being made, from 0
  program_array,  \* cell -> what is written there
  sent,           \* the words of the program, as the FPGA gets them
  chip_answer, output, \* what the chip has answered and what was made of it
  stage

problem == <<client, qubo, eval_strat, shil_val, ising, norm_ising, prob_num, program_array, sent,
             chip_answer, output, stage>>

Empty == [kind |-> "empty", value |-> 0]
Programs == IF client = "isd" \/ eval_strat = "single" THEN 1 ELSE 5

(* cobi_parse_eval_strat(): the first comparison is with the wrong name.   *)
parse_eval_strat(name) ==
  CASE name = "indep" -> "naive"
    [] name \in {"dep", "linear", "scaled", "nonlinear", "mixed"} -> name
    [] OTHER -> "single"
------------------------------------------------------------------------------
(* C's arithmetic: round() goes away from zero at a half, and / and % by   *)
(* two go towards zero.                                                    *)
Sign(n)  == IF n > 0 THEN 1 ELSE IF n < 0 THEN -1 ELSE 0
Abs(n)   == Sign(n) * n
Round(n, d) == Sign(n) * ((2 * Abs(n) + d) \div (2 * d))
Half(n)  == Sign(n) * (Abs(n) \div 2)
Odd_Unsigned(n) == Abs(n) - 2 * Half(Abs(n))
Odd(n)   == n - 2 * Half(n)

Clamp_To15(n) == IF n > 15 THEN 15 ELSE IF n < -15 THEN -15 ELSE n
Clamp(n) == IF n > 14 THEN 14 ELSE IF n < -14 THEN -14 ELSE n

(* A double made an int before it is clamped: one too large becomes        *)
(* INT_MIN (cvttsd2si of x86-64).  The clamp looks at one side only, that  *)
(* of the value's sign.  The other normalisations round to 56 at most.     *)
ToInt(n) == IF n \in -INT_MAX - 1 .. INT_MAX THEN n ELSE -INT_MAX - 1
norm_scaled(I, s) ==
  [p \in UpperPair |->
     LET scaled_val == ToInt(Round(s * I[p], 40))
     IN  IF I[p] > 0 THEN (IF scaled_val > 14 THEN 14 ELSE scaled_val)
         ELSE (IF scaled_val < -14 THEN -14 ELSE scaled_val)]

norm_nonlinear(I, s) ==
  [p \in UpperPair |-> Clamp(Round(14 * s * I[p], 40 + s * Abs(I[p])))]

(* From the least to the largest value, both of which zero counts among.   *)
norm_linear(I, s) ==
  LET values == {0} \cup {I[p] : p \in UpperPair}
      min == Min(values)
      max == Max(values)
  IN  [p \in UpperPair |->
         IF I[p] = 0 THEN 0
         ELSE Clamp(Round(s * (28 * (I[p] - min) - 14 * (max - min)), 10 * (max - min)))]

(* cobi_norm_val(): what the strategy makes of one program.                *)
norm_val(strat, prob, I) ==
  CASE strat = "linear"    -> norm_linear(I, <<5, 10, 15, 20, 40>>[prob + 1])
    [] strat = "scaled"    -> norm_scaled(I, <<5, 10, 15, 20, 40>>[prob + 1])
    [] strat = "nonlinear" -> norm_nonlinear(I, <<20, 15, 10, 5, 1>>[prob + 1])
    [] strat = "mixed" /\ prob \in {0, 1} -> norm_linear(I, <<20, 40>>[prob + 1])
    [] strat = "mixed" /\ prob = 2        -> norm_scaled(I, 10)
    [] strat = "mixed" /\ prob \in {3, 4} -> norm_nonlinear(I, <<20, 5>>[prob - 2])
    [] OTHER -> norm_linear(I, 10)

(* Where a pair's weight goes: a linear term lies between spin 0 and the   *)
(* spin of the variable.                                                   *)
Near(p) == IF p[1] = p[2] THEN <<0, p[2] + 1>> ELSE <<p[1] + 1, p[2] + 1>>
Far(p)  == <<Near(p)[2], Near(p)[1]>>

(* One half of each weight goes near, the other, with what is odd, far.    *)
(* The buffer keeps the rest: a linear term of zero writes only zeros, and *)
(* those on the diagonal.                                                  *)
Written == {p \in UpperPair : ising[p] # 0 \/ p[1] # p[2]}
Halved(old, weight) ==
  [c \in Spin \X Spin |->
     IF \E p \in Written : c = Near(p)
       THEN Half(weight[CHOOSE p \in Written : c = Near(p)])
     ELSE IF \E p \in Written : c = Far(p)
       THEN LET w == weight[CHOOSE p \in Written : c = Far(p)] IN Half(w) + Odd(w)
     ELSE old[c]]

(* hex_mapping() knows the weights from -7 to 7; anything else exits.      *)
hex_mapping(w) == IF w > 0 THEN 2 * w + 1 ELSE -2 * w

(* The cell of the weight between spins i and j, past the calibration row  *)
(* and column and past the SHIL rows and columns.                          *)
Row_NoShil(i) == i + 1
Row(i) == IF i < SHIL_INDEX + 2 THEN i + 1 ELSE i + 3
Col(j) == IF j < SHIL_INDEX + 2 THEN WIDTH - 2 - j ELSE WIDTH - 4 - j

ShilCells ==
  ((1 .. HEIGHT - 3) \X {SHIL_INDEX + 3, SHIL_INDEX + 4})
    \cup ({HEIGHT - SHIL_INDEX - 3, HEIGHT - SHIL_INDEX - 4} \X (3 .. WIDTH - 2))
ControlCells == {HEIGHT - 1} \X (0 .. WIDTH - 1)

(* mk_control_nibbles(): the number of the program and the settings, four  *)
(* nibbles each, the most significant first.  The library always sends the *)
(* same ones.                                                              *)
Nibble(val, k) == (val \div <<4096, 256, 16, 1>>[k + 1]) % 16
control_nibbles ==
  [k \in 0 .. WIDTH - 1 |->
     IF k < LEAD THEN 10
     ELSE Nibble((<<IF client = "isd" THEN 255 ELSE prob_num>> \o Settings)[(k - LEAD) \div 4 + 1],
                 (k - LEAD) % 4)]

(* cobi_prepare_weights(): control bits, then SHIL, then weights.          *)
prepare_weights(norm) ==
  LET at == [c \in Spin \X Spin |-> <<Row(c[1]), Col(c[2])>>]
  IN  [cell \in Cell |->
         IF \E c \in Spin \X Spin : at[c] = cell
           THEN LET c == CHOOSE c \in Spin \X Spin : at[c] = cell
                IN  [kind |-> "weight",
                     value |-> IF c[1] = c[2] THEN 0 ELSE hex_mapping(norm[c])]
         ELSE IF cell \in ShilCells THEN [kind |-> "shil", value |-> hex_mapping(shil_val)]
         ELSE IF cell \in ControlCells THEN [kind |-> "control", value |-> control_nibbles[cell[2]]]
         ELSE Empty]

(* cobi_serialize_programming_bits(): the rows from the last to the first, *)
(* after the padding; the words filled from the last to the first.  What   *)
(* does not fill a word is dropped.                                        *)
Stream(array) ==
  [k \in 1 .. PAD |-> Empty]
    \o [k \in 1 .. HEIGHT * WIDTH |->
          array[<<HEIGHT - 1 - ((k - 1) \div WIDTH), (k - 1) % WIDTH>>]]
Offset(w) == PROGRAM_LEN - w
serialize(array) ==
  [w \in 1 .. PROGRAM_LEN |-> SubSeq(Stream(array), 16 * Offset(w) + 1, 16 * Offset(w) + 16)]

(* swap_bytes(): the bytes of each 16 bits.                                *)
swap_bytes(word) == [k \in 1 .. 16 |-> word[IF (k - 1) % 4 < 2 THEN k + 2 ELSE k - 2]]
------------------------------------------------------------------------------
(* A result, bit after bit: two numbers of four bits, the spins from the   *)
(* last to the first, an energy of 15 bits in two's complement.            *)
Bit(n, k) == (n \div 2 ^ k) % 2
Bits_of(n, len) == [k \in 1 .. len |-> Bit(IF n < 0 THEN n + 2 ^ len ELSE n, len - k)]
Number(bits) == SumFunction([k \in DOMAIN bits |-> bits[k] * 2 ^ (Len(bits) - k)])

chip_output(a) ==
  LET bits == Bits_of(a.problem_id, 4) \o Bits_of(a.core_id, 4)
                \o [k \in 1 .. HW_SPINS |-> IF a.spins[HW_SPINS - k] = 1 THEN 0 ELSE 1]
                \o Bits_of(a.energy, 15)
      word(i) == [k \in 0 .. CHIP_WORD - 1 |->
                    LET n == i * CHIP_WORD + k + 1
                    IN  (IF n <= OUTPUT_LEN THEN bits[n] ELSE 0) * 2 ^ k]
  IN  [i \in 0 .. 2 |-> SumFunction(word(i))]

bits_to_signed_int(bits) ==
  LET sign_bit == 2 ^ (Len(bits) - 1)
      n == Number(bits)
  IN  (n % sign_bit) - sign_bit * (n \div sign_bit)

(* cobi_read_result(), and cobi_read() of the library: num_spins is one    *)
(* less in the former, which skips the bit of spin 0.                      *)
Skipped_None(num_spins) == 0
Skipped(num_spins) == HW_SPINS - num_spins
decode(words, num_spins) ==
  LET bits == [k \in 1 .. OUTPUT_LEN |-> Bit(words[(k - 1) \div CHIP_WORD], (k - 1) % CHIP_WORD)]
      rest == 8 + num_spins + Skipped(num_spins)
  IN  [problem_id |-> Number(SubSeq(bits, 1, 4)),
       core_id    |-> Number(SubSeq(bits, 5, 8)),
       spins      |-> [i \in 0 .. num_spins - 1 |-> IF bits[8 + num_spins - i] = 0 THEN 1 ELSE -1],
       energy     |-> bits_to_signed_int(SubSeq(bits, rest + 1, rest + 15))]

qubo_solution(spins) == [i \in Var |-> IF spins[i] = 1 THEN 1 ELSE 0]
------------------------------------------------------------------------------
ProblemInit ==
  /\ \/ /\ client = "cobisolv"
        /\ qubo \in Qubos /\ eval_strat \in {parse_eval_strat(name) : name \in Names}
        /\ shil_val \in ShilVals
        /\ norm_ising = [c \in Spin \X Spin |-> 0]
        /\ stage = "convert"
     \/ /\ client = "isd"
        /\ qubo = [p \in UpperPair |-> 0] /\ eval_strat = "none" /\ shil_val = 0
        /\ norm_ising \in Weights
        /\ stage = "prepare"
  /\ ising = [p \in UpperPair |-> 0]
  /\ prob_num = 0
  /\ program_array = [cell \in Cell |-> Empty]
  /\ sent = <<>> /\ chip_answer = {} /\ output = {}

(* A quadratic term adds to the linear term of its first variable only.    *)
ising_from_qubo ==
  /\ stage = "convert"
  /\ ising' = [p \in UpperPair |->
                 IF p[1] = p[2]
                   THEN 2 * qubo[p] + SumFunction([j \in p[1] + 1 .. qubo_size - 1 |-> qubo[<<p[1], j>>]])
                 ELSE qubo[p]]
  /\ stage' = "normalise"
  /\ UNCHANGED <<client, qubo, eval_strat, shil_val, norm_ising, prob_num, program_array, sent, chip_answer, output>>

cobi_norm_val ==
  /\ stage = "normalise" /\ prob_num < Programs
  /\ norm_ising' = Halved(norm_ising, norm_val(eval_strat, prob_num, ising))
  /\ stage' = "prepare"
  /\ UNCHANGED <<client, qubo, eval_strat, shil_val, ising, prob_num, program_array, sent, chip_answer, output>>

(* A weight or a SHIL value hex_mapping() does not know ends the program.  *)
Programmable(norm) ==
  /\ shil_val \in -7 .. 7
  /\ \A i, j \in Spin : i # j => norm[<<i, j>>] \in -7 .. 7
cobi_prepare_weights ==
  /\ stage = "prepare"
  /\ IF Programmable(norm_ising)
       THEN program_array' = prepare_weights(norm_ising) /\ stage' = "serialize"
       ELSE UNCHANGED program_array /\ stage' = "exit"
  /\ UNCHANGED <<client, qubo, eval_strat, shil_val, ising, norm_ising, prob_num, sent, chip_answer, output>>

WriteProgram ==
  /\ stage = "serialize"
  /\ LET words == serialize(program_array)
     IN  sent' = [w \in DOMAIN words |-> swap_bytes(words[w])]
  /\ stage' = "sent"
  /\ UNCHANGED <<client, qubo, eval_strat, shil_val, ising, norm_ising, prob_num, program_array, chip_answer, output>>

(* The matrix is set up anew for the next program (the chips: CobiDevice). *)
NextProgram ==
  /\ stage = "sent"
  /\ program_array' = [cell \in Cell |-> Empty] /\ sent' = <<>>
  /\ prob_num' = prob_num + 1
  /\ stage' = IF prob_num' = Programs THEN "read" ELSE "normalise"
  /\ UNCHANGED <<client, qubo, eval_strat, shil_val, ising, norm_ising, chip_answer, output>>

(* One of the results; which one is kept is CobiDevice's.                  *)
ReadAnswer ==
  /\ stage = "read"
  /\ \E a \in Answers :
       /\ chip_answer' = {a}
       /\ output' = {decode(chip_output(a), IF client = "isd" THEN HW_SPINS ELSE qubo_size)}
  /\ stage' = "answer"
  /\ UNCHANGED <<client, qubo, eval_strat, shil_val, ising, norm_ising, prob_num, program_array, sent>>

ProblemDone == stage \in {"answer", "exit"} /\ UNCHANGED problem

ProblemNext ==
  \/ ising_from_qubo \/ cobi_norm_val \/ cobi_prepare_weights \/ WriteProgram
  \/ NextProgram \/ ReadAnswer \/ ProblemDone

ProblemSpec == ProblemInit /\ [][ProblemNext]_problem
------------------------------------------------------------------------------
(* What the largest factor of a strategy makes of a value fits an int; a   *)
(* negative one that does not is clamped all the same.                     *)
Steepest == CASE eval_strat = "scaled" -> 40 [] eval_strat = "mixed" -> 10 [] OTHER -> 0
FitsInt  == \A p \in UpperPair : Round(Steepest * ising[p], 40) <= INT_MAX

(* Every variable has its type, and no program of a sub-problem ends the   *)
(* run, as long as the values fit and the chip has the SHIL value asked    *)
(* for: all weights are ones hex_mapping() knows (cobi.cc:349-386, 818).   *)
TypeOK ==
  /\ ising \in [UpperPair -> Int]
  /\ client = "cobisolv" /\ FitsInt =>
       /\ norm_ising \in [Spin \X Spin -> -7 .. 7]
       /\ shil_val <= 7 => stage # "exit"
  /\ prob_num \in 0 .. Programs
  /\ program_array \in [Cell -> [kind : {"empty", "shil", "control", "weight"}, value : 0 .. 15]]
  /\ stage \in {"convert", "normalise", "prepare", "serialize", "sent", "read", "answer", "exit"}

(* The chip sees a coupler as the sum of its two halves.  That sum keeps   *)
(* the order of the Ising values that fit, whatever the buffer held        *)
(* before, and a coupler that is not there stays zero.  The linear         *)
(* normalisation keeps it only among the values that are not zero: the line*)
(* of cobi.cc:921-923 takes the middle of their span to 0, and zero is left*)
(* where it is, above a small positive value perhaps (cobi.cc:818-1018).   *)
LinearNorm == \/ eval_strat \notin {"scaled", "nonlinear", "mixed"}
              \/ eval_strat = "mixed" /\ prob_num < 2
Coupling(p) == norm_ising[Near(p)] + norm_ising[Far(p)]
OrderKept ==
  client = "cobisolv" /\ stage = "prepare" /\ FitsInt =>
    \A p \in UpperPair :
      /\ ising[p] = 0 => Coupling(p) = 0
      /\ \A r \in UpperPair :
           ising[p] <= ising[r] /\ (LinearNorm => ising[p] # 0 /\ ising[r] # 0)
             => Coupling(p) <= Coupling(r)

(* The cell at a row and column as it lies in the words the FPGA gets: the *)
(* matrix is one number, the padding its most significant nibbles.         *)
Sent(row, col) ==
  LET n == PAD + (HEIGHT - 1 - row) * WIDTH + col
      k == (n % 16) + 1
  IN  sent[PROGRAM_LEN - n \div 16][IF (k - 1) % 4 < 2 THEN k + 2 ELSE k - 2]

(* Every weight, SHIL value and control nibble reaches the FPGA at a place *)
(* of its own: no write overwrites another, no word is lost, and the last  *)
(* row spells the number of the program (cobi.cc:81, 482-580, 640-663;     *)
(* isd/cobi.c:376-456).                                                    *)
ProgramWhole ==
  stage = "sent" =>
    /\ Len(sent) = PROGRAM_LEN
    /\ \A cell \in ShilCells : Sent(cell[1], cell[2]) = [kind |-> "shil", value |-> hex_mapping(shil_val)]
    /\ \A k \in 0 .. WIDTH - 1 : Sent(HEIGHT - 1, k).kind = "control"
    /\ client = "cobisolv" =>
         LET digit(k) == Sent(HEIGHT - 1, LEAD + k).value
         IN  prob_num = ((digit(0) * 16 + digit(1)) * 16 + digit(2)) * 16 + digit(3)
    /\ \A i, j \in Spin :
         /\ Sent(Row(i), Col(j)).kind = "weight"
         /\ i # j => Sent(Row(i), Col(j)).value = hex_mapping(norm_ising[<<i, j>>])
    /\ Cardinality({<<Row(i), Col(j)>> : i, j \in Spin}) = HW_SPINS * HW_SPINS

(* What is made of a result is what the chip has found: the spin that the  *)
(* weights of a variable were given to decides its bit, and the energy has *)
(* its sign (cobi.cc:679-785, 1032; isd/cobi.c:548-629).                   *)
AnswerDecoded ==
  \A a \in chip_answer, o \in output :
    /\ o.problem_id = a.problem_id /\ o.core_id = a.core_id /\ o.energy = a.energy
    /\ IF client = "isd" THEN o.spins = a.spins
       ELSE \A i \in Var : qubo_solution(o.spins)[i] = 1 <=> a.spins[i + 1] = 1

(* The Ising problem is the QUBO in spins: two assignments differ in both  *)
(* by the same (cobi.cc:1044, "Converts problem from qubo to ising").      *)
Energy4(s) ==
  MapThenSumSet(LAMBDA p : ising[p] * (IF p[1] = p[2] THEN s[p[1]] ELSE s[p[1]] * s[p[2]]),
                UpperPair)
Spins(x) == [i \in Var |-> 2 * x[i] - 1]
IsingEquivalent ==
  client = "cobisolv" /\ stage # "convert" =>
    \A x, y \in Bits :
      4 * (Objective(qubo, x) - Objective(qubo, y)) = Energy4(Spins(x)) - Energy4(Spins(y))
==============================================================================
