---------------------------- MODULE FrontEndProofs -----------------------------
(***************************************************************************)
(* Proofs about the front end for every file and every command line.       *)
(***************************************************************************)
EXTENDS FrontEnd, FiniteSetTheorems, WellFoundedInduction, TLAPS

Entry == [n1 : Int, n2 : Int, value : Int]

Belongs(e) == e.n1 <= e.n2 /\ (Inside(e) \/ e.n1 < 0)

(* As long as a file is not refused, every entry stored is inside the      *)
(* matrix or has a negative node.  The size of the matrix is not known, and*)
(* does not change, as long as there are no entries.                       *)
ReaderInv ==
  /\ nodes_ \in Seq(Entry) /\ couplers_ \in Seq(Entry) /\ maxNodes_ \in Int
  /\ ~pFound => nodes_ = <<>> /\ couplers_ = <<>>
  /\ reading # "refused" => /\ \A k \in 1 .. Len(nodes_) : Belongs(nodes_[k])
                            /\ \A k \in 1 .. Len(couplers_) : Belongs(couplers_[k])
  /\ reading = "accepted" => Complete

LEMMA StoreInside ==
  ASSUME NEW array \in Seq(Entry), NEW i \in Coordinates, NEW j \in Coordinates, NEW f \in Weights,
         maxNodes_ \in Int, i <= j
  PROVE  LET stored == Stored(array, i, j, f) IN
           /\ stored \in Seq(Entry)
           /\ ~OutOfBounds(i, j) /\ (\A k \in 1 .. Len(array) : Belongs(array[k])) =>
                \A k \in 1 .. Len(stored) : Belongs(stored[k])
<1> DEFINE e == [n1 |-> i, n2 |-> j, value |-> f]
           stored == Stored(array, i, j, f)
<1>1. e \in Entry /\ e.n1 = i /\ e.n2 = j
  BY ReaderAssumption DEF Entry
<1>2. stored = Append(array, e)
  BY DEF Stored
<1> HIDE DEF e, stored
<1>3. /\ stored \in Seq(Entry) /\ Len(stored) = Len(array) + 1
      /\ stored[Len(array) + 1] = e
      /\ \A k \in 1 .. Len(array) : stored[k] = array[k]
      /\ \A k \in 1 .. Len(stored) : k \in 1 .. Len(array) \/ k = Len(array) + 1
  BY <1>1, <1>2
<1>4. ~OutOfBounds(i, j) => Belongs(e)
  BY <1>1, ReaderAssumption DEF OutOfBounds, Belongs, Inside
<1> QED BY <1>3, <1>4 DEF stored

LEMMA ReaderInit == Init => ReaderInv
BY DEF Init, ReaderInv

LEMMA ReaderStep == ASSUME ReaderInv, [Next]_file PROVE ReaderInv'
<1>1. CASE \E known \in BOOLEAN : ProgramLine(known)
  <2>1. /\ nodes_ = <<>> /\ couplers_ = <<>> /\ UNCHANGED <<nodes_, couplers_>>
        /\ reading' # "accepted"
    BY <1>1 DEF ProgramLine, ReaderInv
  <2>2. maxNodes_' \in Int
    BY <1>1, ReaderAssumption DEF ProgramLine
  <2> QED BY <2>1, <2>2 DEF ReaderInv
<1>2. CASE \E i, j \in Coordinates : RefusedLine(i, j)
  BY <1>2 DEF RefusedLine, ReaderInv, header
<1>3. CASE \E i, j \in Coordinates : \E f \in Weights : DataLine(i, j, f)
  <2>1. PICK i \in Coordinates, j \in Coordinates, f \in Weights : DataLine(i, j, f)
    BY <1>3
  <2>2. /\ pFound /\ reading = "lines" /\ UNCHANGED <<maxNodes_, pFound>>
        /\ reading' = (IF OutOfBounds(i, j) THEN "refused" ELSE "lines")
    BY <2>1 DEF DataLine, header
  <2>3. \/ i = j /\ nodes_' = Stored(nodes_, i, j, f) /\ couplers_' = couplers_
        \/ i < j /\ nodes_' = nodes_ /\ couplers_' = Stored(couplers_, i, j, f)
    BY <2>1 DEF DataLine
  <2>4. \A e : Belongs(e)' <=> Belongs(e)
    BY <2>2 DEF Belongs, Inside
  <2>5. i <= j
    BY <2>3, ReaderAssumption
  <2> QED BY <2>2, <2>3, <2>4, <2>5, StoreInside DEF ReaderInv
<1>4. CASE EndOfFile
  BY <1>4 DEF EndOfFile, ReaderInv, header, Complete, inode, icoupler, Belongs, Inside
<1>5. CASE UNCHANGED file
  BY <1>5 DEF file, ReaderInv, Complete, inode, icoupler, Belongs, Inside
<1> QED BY <1>1, <1>2, <1>3, <1>4, <1>5 DEF Next

(* Every step of the front end is a step of the reader, or leaves the file *)
(* alone.                                                                  *)
LEMMA StepReads == [FrontEndNext]_allvars => [Next]_file
<1> SUFFICES ASSUME [FrontEndNext]_allvars PROVE Next \/ UNCHANGED file
  OBVIOUS
<1>1. CASE Option
  BY <1>1 DEF Option, Option_a, Option_i, Option_S, Option_C, Option_m, Option_number, Option_text, Given
<1>2. CASE ReadFile
  BY <1>2 DEF ReadFile
<1>3. CASE EndOfOptions \/ FillMatrix \/ FindCards \/ ResetCards \/ Solve \/ Exited
  BY <1>3 DEF EndOfOptions, FillMatrix, FindCards, ResetCards, Solve, Exited, allvars
<1>4. CASE (\E k \in Card : OpenCard(k)) \/ UseCobi \/ UNCHANGED allvars
  BY <1>4 DEF OpenCard, UseCobi, allvars
<1> QED BY <1>1, <1>2, <1>3, <1>4 DEF FrontEndNext

(* A file that is accepted holds as many entries as it says, none below the*)
(* diagonal and none outside the matrix but those with a negative node,    *)
(* although an entry is stored before it is compared with the upper bound  *)
(* (readqubo.c:84, :109).                                                  *)
THEOREM AcceptedFilesInside == Spec => []AcceptedInside
<1>1. FrontEndInit => ReaderInv
  BY ReaderInit DEF FrontEndInit
<1>2. ReaderInv /\ [FrontEndNext]_allvars => ReaderInv'
  BY ReaderStep, StepReads
<1>3. ReaderInv => AcceptedInside
  <2> SUFFICES ASSUME ReaderInv, reading = "accepted" PROVE AcceptedInside
    BY DEF AcceptedInside
  <2>1. Len(nodes_) = nNodes_ /\ Len(couplers_) = nCouplers_
    BY DEF ReaderInv, Complete, inode, icoupler
  <2>2. \A e \in Entries : Belongs(e)
    BY DEF ReaderInv, Entries, ToSet
  <2> QED BY <2>1, <2>2 DEF AcceptedInside, Belongs
<1> QED BY <1>1, <1>2, <1>3, PTL DEF Spec
------------------------------------------------------------------------------
(* A set of numbers up to n has a largest one: the smallest of the upper   *)
(* parts of the set starts there.                                          *)
LEMMA MaxIn ==
  ASSUME NEW n \in Nat, NEW S, S \subseteq 1 .. n, S # {}
  PROVE  Max(S) \in S /\ \A i \in S : Max(S) >= i
<1> DEFINE Up(j) == {i \in S : j <= i}
           T == {Up(j) : j \in S}
<1>1. IsFiniteSet(1 .. n)
  BY FS_Interval
<1>2. T \subseteq FiniteSubsetsOf(1 .. n)
  BY <1>1, FS_Subset DEF FiniteSubsetsOf
<1>3. T # {}
  OBVIOUS
<1>4. PICK A \in T : \A B \in T : ~(<<B, A>> \in StrictSubsetOrdering(1 .. n))
  <2> HIDE DEF T
  <2> QED BY <1>1, <1>2, <1>3, FS_StrictSubsetOrderingWellFounded, WFMin
<1>5. PICK j \in S : A = Up(j)
  BY <1>4
<1>6. ASSUME NEW i \in S PROVE j >= i
  <2>0. i \in Int /\ j \in Int
    OBVIOUS
  <2> SUFFICES ASSUME i > j PROVE FALSE
    BY <2>0
  <2>1. Up(i) \in T
    OBVIOUS
  <2>2. PICK B : B = Up(i)
    OBVIOUS
  <2>3. /\ \A k : k \in A <=> k \in S /\ j <= k
        /\ \A k : k \in B <=> k \in S /\ i <= k
        /\ \A k \in S : k \in Int
    BY <1>5, <2>2
  <2>4. B \subseteq A /\ j \in A /\ j \notin B
    <3>1. ASSUME NEW k \in B PROVE k \in A
      <4>1. k \in S /\ k \in Int /\ i <= k
        BY <2>3
      <4> QED BY <2>0, <2>3, <4>1
    <3>2. j \in S /\ j <= j /\ ~(i <= j)
      BY <2>0
    <3>3. j \in A /\ j \notin B
      BY <2>3, <3>2
    <3> QED BY <3>1, <3>3
  <2>5. B \in T /\ B \subseteq A /\ B # A
    BY <2>1, <2>2, <2>4
  <2> QED BY <1>1, <1>2, <1>4, <2>5 DEF StrictSubsetOrdering, FiniteSubsetsOf
<1> QED BY <1>6 DEF Max

OptionGiven ==
  ({"a"} \X Algos) \cup {<<"i">>, <<"C">>, <<"m">>} \cup ({"S"} \X SubSizes)
    \cup Settings \cup ({"text"} \X {0, 9})

(* The last option of some names, after one more has been read.            *)
LEMMA LastAppend ==
  ASSUME given \in Seq(OptionGiven), NEW o \in OptionGiven, given' = Append(given, o), NEW names
  PROVE  LastGiven(names)' = IF o[1] \in names THEN o ELSE LastGiven(names)
<1> DEFINE n == Len(given)
           at == {k \in 1 .. n : given[k][1] \in names}
           at1 == {k \in 1 .. Len(given') : given'[k][1] \in names}
<1>1. /\ n \in Nat /\ Len(given') = n + 1 /\ given'[n + 1] = o
      /\ \A k \in 1 .. n : given'[k] = given[k]
  OBVIOUS
<1>2. /\ LastGiven(names) = IF at = {} THEN <<>> ELSE given[Max(at)]
      /\ LastGiven(names)' = IF at1 = {} THEN <<>> ELSE given'[Max(at1)]
  BY DEF LastGiven
<1>3. CASE o[1] \in names
  <2>1. PICK A : A = at1
    OBVIOUS
  <2>2. n + 1 \in A /\ A \subseteq 1 .. n + 1
    BY <1>1, <1>3, <2>1
  <2>3. n + 1 \in Nat /\ A # {}
    BY <1>1, <2>2
  <2>4. Max(A) \in A /\ Max(A) >= n + 1
    BY <2>2, <2>3, MaxIn
  <2>5. Max(A) = n + 1
    <3>1. Max(A) \in 1 .. n + 1
      BY <2>2, <2>4
    <3> QED BY <1>1, <2>4, <3>1
  <2>6. LastGiven(names)' = given'[Max(A)]
    BY <1>2, <2>1, <2>3
  <2> QED BY <1>1, <1>3, <2>5, <2>6
<1>4. CASE o[1] \notin names
  <2>1. at1 = at
    BY <1>1, <1>4
  <2>2. at # {} => Max(at) \in 1 .. n
    BY <1>1, MaxIn
  <2>3. CASE at = {}
    BY <1>2, <1>4, <2>1, <2>3
  <2>4. CASE at # {}
    <3>1. given'[Max(at)] = given[Max(at)]
      BY <1>1, <2>2, <2>4
    <3> QED BY <1>2, <1>4, <2>1, <2>4, <3>1
  <2> QED BY <2>3, <2>4
<1> QED BY <1>3, <1>4

(* What the options read so far say, whatever their order.                 *)
OptionsRead ==
  /\ given \in Seq(OptionGiven) /\ param \in [Setting -> Int]
  /\ use_cobi = CobiAsked
  /\ param["card"] = IF LastGiven({"card"}) = <<>> THEN -1
                     ELSE Cast("card", LastGiven({"card"})[2])
  /\ LastGiven({"card"}) # <<>> => param["card"] \in Nat

SizeGiven == IF LastGiven({"S"}) = <<>> THEN NUM_SPINS ELSE LastGiven({"S"})[2]

(* The cards found and the one claimed, while cards are opened.            *)
Suits(k) == k \in Card /\ param["card"] \in {-1, k}

CardsOpened ==
  /\ \A k \in untried \cup claimed : Suits(k)
  /\ \A k \in claimed : claimed = {k} /\ device[k] = "quad"

(* What holds on the way to the call of solve().                           *)
FrontInv ==
  /\ OptionsRead
  /\ pc \notin {"solve", "exited"} => sub_sampler = "tabu" /\ sub_size = SizeGiven
  /\ pc \in {"options", "file", "fill", "find"} => claimed = {}
  /\ pc \in {"find", "open", "samples"} => use_cobi
  /\ pc \in {"open", "samples"} => CardsOpened
  /\ pc = "samples" => claimed # {} /\ claimed \subseteq reset
  /\ SamplerFits /\ CardFits

LEMMA FrontInit == FrontEndInit => FrontInv
<1> SUFFICES ASSUME FrontEndInit PROVE FrontInv
  OBVIOUS
<1>1. /\ given = <<>> /\ use_cobi = FALSE /\ param = Default /\ pc = "options"
      /\ sub_size = NUM_SPINS /\ sub_sampler = "tabu" /\ claimed = {}
  BY DEF FrontEndInit
<1>2. \A names : LastGiven(names) = <<>>
  BY <1>1 DEF LastGiven
<1>3. CobiAsked = FALSE
  <2>1. <<"C">> # <<>>
    OBVIOUS
  <2> QED BY <1>2, <2>1 DEF CobiAsked
<1>4. param \in [Setting -> Int] /\ param["card"] = -1
  BY <1>1 DEF Default, Setting
<1>5. OptionsRead
  <2>1. given \in Seq(OptionGiven)
    BY <1>1
  <2>2. use_cobi = CobiAsked
    BY <1>1, <1>3
  <2> QED BY <1>2, <1>4, <2>1, <2>2 DEF OptionsRead
<1>6. sub_size = SizeGiven
  BY <1>1, <1>2 DEF SizeGiven
<1> QED BY <1>1, <1>5, <1>6 DEF FrontInv, SamplerFits, CardFits

(* What one option does to the settings the properties are about.          *)
LEMMA OptionEffect ==
  ASSUME Option
  PROVE  \E o \in OptionGiven :
           /\ given' = Append(given, o)
           /\ \/ o[1] = "S" /\ use_cobi' = FALSE /\ sub_size' = o[2] /\ UNCHANGED param
              \/ o = <<"C">> /\ use_cobi' = TRUE /\ UNCHANGED <<param, sub_size>>
              \/ /\ o[1] \in Setting /\ o[2] \in Int
                 /\ param' = [param EXCEPT ![o[1]] = Cast(o[1], o[2])]
                 /\ UNCHANGED <<use_cobi, sub_size>>
              \/ o[1] \in {"a", "i", "m", "text"} /\ UNCHANGED <<use_cobi, param, sub_size>>
<1>1. CASE \E algo \in Algos : Option_a(algo)
  <2>1. PICK algo \in Algos : Option_a(algo)
    BY <1>1
  <2>2. <<"a", algo>> \in OptionGiven
    BY DEF OptionGiven
  <2> QED BY <2>1, <2>2 DEF Option_a, Given
<1>2. CASE \E found \in BOOLEAN : Option_i(found)
  <2>1. <<"i">> \in OptionGiven
    BY DEF OptionGiven
  <2> QED BY <1>2, <2>1 DEF Option_i, Given
<1>3. CASE \E n \in SubSizes : Option_S(n)
  <2>1. PICK n \in SubSizes : Option_S(n)
    BY <1>3
  <2>2. <<"S", n>> \in OptionGiven
    BY DEF OptionGiven
  <2> QED BY <2>1, <2>2 DEF Option_S, Given
<1>4. CASE Option_C
  <2>1. <<"C">> \in OptionGiven
    BY DEF OptionGiven
  <2> QED BY <1>4, <2>1 DEF Option_C, Given
<1>5. CASE Option_m
  <2>1. <<"m">> \in OptionGiven
    BY DEF OptionGiven
  <2> QED BY <1>5, <2>1 DEF Option_m, Given
<1>6. CASE \E s \in Settings : Option_number(s[1], s[2])
  <2>1. PICK s \in Settings : Option_number(s[1], s[2])
    BY <1>6
  <2>2. s \in OptionGiven /\ s[1] \in Setting /\ s[2] \in Int /\ s = <<s[1], s[2]>>
    BY FrontEndAssumption DEF OptionGiven, Setting
  <2> QED BY <2>1, <2>2 DEF Option_number, Given
<1>7. CASE \E code \in {0, 9} : Option_text(code)
  <2>1. PICK code \in {0, 9} : Option_text(code)
    BY <1>7
  <2>2. <<"text", code>> \in OptionGiven
    BY DEF OptionGiven
  <2> QED BY <2>1, <2>2 DEF Option_text, Given
<1> QED BY <1>1, <1>2, <1>3, <1>4, <1>5, <1>6, <1>7 DEF Option

LEMMA OptionKeeps ==
  ASSUME OptionsRead, sub_size = SizeGiven, Option
  PROVE  OptionsRead' /\ sub_size' = SizeGiven'
<1>1. PICK o \in OptionGiven :
        /\ given' = Append(given, o)
        /\ \/ o[1] = "S" /\ use_cobi' = FALSE /\ sub_size' = o[2] /\ UNCHANGED param
           \/ o = <<"C">> /\ use_cobi' = TRUE /\ UNCHANGED <<param, sub_size>>
           \/ /\ o[1] \in Setting /\ o[2] \in Int
              /\ param' = [param EXCEPT ![o[1]] = Cast(o[1], o[2])]
              /\ UNCHANGED <<use_cobi, sub_size>>
           \/ o[1] \in {"a", "i", "m", "text"} /\ UNCHANGED <<use_cobi, param, sub_size>>
  BY OptionEffect
<1>2. given' \in Seq(OptionGiven)
  BY <1>1 DEF OptionsRead
<1>3. \A names : LastGiven(names)' = IF o[1] \in names THEN o ELSE LastGiven(names)
  BY <1>1, LastAppend DEF OptionsRead
<1>4. /\ LastGiven({"C", "S"})' = IF o[1] \in {"C", "S"} THEN o ELSE LastGiven({"C", "S"})
      /\ LastGiven({"S"})' = IF o[1] \in {"S"} THEN o ELSE LastGiven({"S"})
      /\ LastGiven({"card"})' = IF o[1] \in {"card"} THEN o ELSE LastGiven({"card"})
  BY <1>3
<1>5. /\ CobiAsked' = (LastGiven({"C", "S"})' = <<"C">>) /\ CobiAsked = (LastGiven({"C", "S"}) = <<"C">>)
      /\ SizeGiven' = IF LastGiven({"S"})' = <<>> THEN NUM_SPINS ELSE LastGiven({"S"})'[2]
      /\ SizeGiven = IF LastGiven({"S"}) = <<>> THEN NUM_SPINS ELSE LastGiven({"S"})[2]
  BY DEF CobiAsked, SizeGiven
<1>6. /\ param \in [Setting -> Int] /\ use_cobi = CobiAsked
      /\ param["card"] = IF LastGiven({"card"}) = <<>> THEN -1 ELSE Cast("card", LastGiven({"card"})[2])
      /\ LastGiven({"card"}) # <<>> => param["card"] \in Nat
  BY DEF OptionsRead
<1>7. o \in OptionGiven => o # <<>>
  BY FrontEndAssumption DEF OptionGiven
<1>8. /\ param' \in [Setting -> Int] /\ use_cobi' = CobiAsked' /\ sub_size' = SizeGiven'
      /\ param'["card"] = IF LastGiven({"card"})' = <<>> THEN -1 ELSE Cast("card", LastGiven({"card"})'[2])
      /\ LastGiven({"card"})' # <<>> => param'["card"] \in Nat
  <2>1. CASE o[1] = "S" /\ use_cobi' = FALSE /\ sub_size' = o[2] /\ UNCHANGED param
    <3>1. o # <<"C">>
      BY <2>1
    <3>2. CobiAsked' = FALSE
      BY <1>4, <1>5, <2>1, <3>1
    <3>3. sub_size' = SizeGiven'
      BY <1>4, <1>5, <1>7, <2>1
    <3>4. LastGiven({"card"})' = LastGiven({"card"})
      BY <1>4, <2>1
    <3> QED BY <1>6, <2>1, <3>2, <3>3, <3>4
  <2>2. CASE o = <<"C">> /\ use_cobi' = TRUE /\ UNCHANGED <<param, sub_size>>
    <3>1. o[1] = "C"
      BY <2>2
    <3>2. LastGiven({"C", "S"})' = <<"C">> /\ UNCHANGED <<LastGiven({"S"}), LastGiven({"card"})>>
      BY <1>4, <2>2, <3>1
    <3>3. CobiAsked' = TRUE /\ SizeGiven' = SizeGiven
      BY <1>5, <3>2
    <3> QED BY <1>6, <2>2, <3>2, <3>3
  <2>3. CASE /\ o[1] \in Setting /\ o[2] \in Int
             /\ param' = [param EXCEPT ![o[1]] = Cast(o[1], o[2])]
             /\ UNCHANGED <<use_cobi, sub_size>>
    <3>1. UNCHANGED <<LastGiven({"C", "S"}), LastGiven({"S"})>>
      BY <1>4, <2>3 DEF Setting
    <3>2. UNCHANGED <<CobiAsked, SizeGiven>>
      BY <1>5, <3>1
    <3>3. Cast(o[1], o[2]) \in Int /\ Cast("card", o[2]) \in Nat
      BY <2>3 DEF Cast
    <3>4. param' \in [Setting -> Int]
      BY <1>6, <2>3, <3>3
    <3>5. param'["card"] = IF o[1] = "card" THEN Cast("card", o[2]) ELSE param["card"]
      BY <1>6, <2>3 DEF Setting
    <3> QED BY <1>4, <1>6, <1>7, <2>3, <3>2, <3>3, <3>4, <3>5
  <2>4. CASE o[1] \in {"a", "i", "m", "text"} /\ UNCHANGED <<use_cobi, param, sub_size>>
    <3>1. UNCHANGED <<LastGiven({"C", "S"}), LastGiven({"S"}), LastGiven({"card"})>>
      BY <1>4, <2>4
    <3>2. UNCHANGED <<CobiAsked, SizeGiven>>
      BY <1>5, <3>1
    <3> QED BY <1>6, <2>4, <3>1, <3>2
  <2> QED BY <1>1, <2>1, <2>2, <2>3, <2>4
<1> QED BY <1>2, <1>8 DEF OptionsRead

(* A step that reads no option leaves what the options say.                *)
LEMMA SettingsKept ==
  ASSUME OptionsRead, UNCHANGED <<given, use_cobi, param>>
  PROVE  /\ OptionsRead' /\ SizeGiven' = SizeGiven /\ CobiAsked' = use_cobi
         /\ \A k : Suits(k)' <=> Suits(k)
         /\ LastGiven({"card"})' = LastGiven({"card"})
<1>1. \A names : LastGiven(names)' = LastGiven(names)
  BY DEF LastGiven
<1>2. CobiAsked' = CobiAsked /\ SizeGiven' = SizeGiven
  BY <1>1 DEF CobiAsked, SizeGiven
<1> QED BY <1>1, <1>2 DEF OptionsRead, Suits

LEMMA OptionStep == ASSUME FrontInv, Option PROVE FrontInv'
<1>1. pc = "options" /\ pc' \in {"options", "exited"} /\ UNCHANGED <<sub_sampler, claimed>>
  BY DEF Option, Option_a, Option_i, Option_S, Option_C, Option_m, Option_number, Option_text,
         Given, goto, exit, cards, program
<1>2. OptionsRead' /\ sub_size' = SizeGiven'
  BY <1>1, OptionKeeps DEF FrontInv
<1> QED BY <1>1, <1>2 DEF FrontInv, SamplerFits, CardFits

LEMMA FileStep == ASSUME FrontInv, EndOfOptions \/ ReadFile PROVE FrontInv'
<1>1. /\ pc \in {"options", "file"} /\ pc' \in {"file", "fill", "exited"}
      /\ UNCHANGED <<given, use_cobi, param, sub_sampler, sub_size, claimed>>
  <2>1. CASE EndOfOptions
    BY <2>1 DEF EndOfOptions, goto, exit, options, cards, program
  <2>2. CASE ReadFile
    <3>1. reading' \in {"lines", "accepted", "refused"}
      BY <2>2 DEF ReadFile, Next, ProgramLine, RefusedLine, DataLine, EndOfFile
    <3> QED BY <2>2, <3>1 DEF ReadFile, goto, exit, cards, program
  <2> QED BY <2>1, <2>2
<1>2. OptionsRead' /\ SizeGiven' = SizeGiven
  BY <1>1, SettingsKept DEF FrontInv
<1> QED BY <1>1, <1>2 DEF FrontInv, SamplerFits, CardFits

(* Without -C the solver is called next.                                   *)
LEMMA FillStep == ASSUME FrontInv, FillMatrix PROVE FrontInv'
<1>1. /\ pc = "fill" /\ pc' \in {"exited", "outside", IF use_cobi THEN "find" ELSE "solve"}
      /\ UNCHANGED <<given, use_cobi, param, sub_sampler, sub_size, claimed>>
  BY DEF FillMatrix, goto, exit, options, cards
<1>2. /\ OptionsRead' /\ SizeGiven' = SizeGiven /\ CobiAsked' = use_cobi
  BY <1>1, SettingsKept DEF FrontInv
<1>3. claimed' = {} /\ sub_sampler' = "tabu" /\ sub_size' = SizeGiven'
  BY <1>1, <1>2 DEF FrontInv
<1>4. pc' = "solve" => ~CobiAsked'
  BY <1>1, <1>2 DEF FrontInv, OptionsRead, CobiAsked
<1>5. SamplerFits' /\ CardFits'
  BY <1>3, <1>4 DEF SamplerFits, CardFits, SizeGiven
<1> QED BY <1>1, <1>2, <1>3, <1>5 DEF FrontInv, OptionsRead

LEMMA CardStep ==
  ASSUME FrontInv, FindCards \/ (\E k \in Card : OpenCard(k)) \/ ResetCards
  PROVE  FrontInv'
<1>1. /\ pc \in {"find", "open"} /\ pc' \in {"open", "samples", "exited"}
      /\ UNCHANGED <<given, use_cobi, param, sub_sampler, sub_size>>
  BY DEF FindCards, OpenCard, ResetCards, goto, exit, options, cards, program, FrontInv
<1>2. /\ OptionsRead' /\ SizeGiven' = SizeGiven
      /\ \A k : Suits(k)' <=> Suits(k)
  BY <1>1, SettingsKept DEF FrontInv
<1>3. CardsOpened'
  <2>1. CASE FindCards
    <3>1. claimed' = {} /\ untried' \subseteq {k \in Card : param["card"] \in {-1, k}}
      BY <2>1 DEF FindCards, FrontInv
    <3> QED BY <1>2, <3>1 DEF CardsOpened, Suits
  <2>2. CASE \E k \in Card : OpenCard(k)
    <3>1. PICK k \in Card : OpenCard(k)
      BY <2>2
    <3>2. /\ k \in untried /\ untried' \subseteq untried /\ claimed = {} /\ device' = device
          /\ claimed' \in {{}, {k}} /\ (claimed' # {} => device[k] = "quad")
      BY <3>1 DEF OpenCard, FirmwareOK
    <3>3. CardsOpened
      BY <3>1 DEF OpenCard, FrontInv
    <3> QED BY <1>2, <3>2, <3>3 DEF CardsOpened
  <2>3. CASE ResetCards
    <3>1. CardsOpened /\ UNCHANGED <<untried, claimed, device>>
      BY <2>3 DEF ResetCards, FrontInv
    <3> QED BY <1>2, <3>1 DEF CardsOpened
  <2> QED BY <2>1, <2>2, <2>3
<1>4. pc' = "samples" => claimed' # {} /\ claimed' \subseteq reset'
  BY <1>1 DEF FindCards, OpenCard, ResetCards, goto, exit
<1>5. use_cobi'
  BY <1>1 DEF FrontInv
<1> QED BY <1>1, <1>2, <1>3, <1>4, <1>5 DEF FrontInv, SamplerFits, CardFits

(* With -C the card and the sampler are what they should be.               *)
LEMMA CobiStep == ASSUME FrontInv, UseCobi PROVE FrontInv'
<1>1. /\ pc = "samples" /\ pc' \in {"solve", "exited"}
      /\ pc' = "solve" => /\ param["num_samples"] >= 1
                          /\ sub_size' = NUM_SPINS /\ sub_sampler' = "cobi"
      /\ UNCHANGED <<given, use_cobi, param, claimed, reset, device>>
  <2>1. Setting # {} /\ pc = "samples"
    BY DEF UseCobi, Setting
  <2>2. param["num_samples"] \in Int
    BY DEF FrontInv, OptionsRead, Setting
  <2> QED BY <2>1, <2>2 DEF UseCobi, goto, exit, cards
<1>2. /\ OptionsRead' /\ CobiAsked' = use_cobi
      /\ \A k : Suits(k)' <=> Suits(k)
      /\ LastGiven({"card"})' = LastGiven({"card"})
  BY <1>1, SettingsKept DEF FrontInv
<1>3. CobiAsked'
  BY <1>1, <1>2 DEF FrontInv
<1>4. SamplerFits'
  BY <1>1, <1>3 DEF SamplerFits
<1>5. PICK k : claimed = {k} /\ Suits(k) /\ device[k] = "quad" /\ claimed \subseteq reset
  BY <1>1 DEF FrontInv, CardsOpened
<1>6. Cardinality(claimed') = 1
  BY <1>1, <1>5, FS_Singleton
<1>7. LastGiven({"card"}) # <<>> => k = Cast("card", LastGiven({"card"})[2])
  <2> SUFFICES ASSUME LastGiven({"card"}) # <<>>
               PROVE  k = Cast("card", LastGiven({"card"})[2])
    OBVIOUS
  <2>1. param["card"] = Cast("card", LastGiven({"card"})[2]) /\ param["card"] \in Nat
    BY DEF FrontInv, OptionsRead
  <2> QED BY <1>5, <2>1 DEF Suits
<1>8. CardFits'
  <2> SUFFICES ASSUME pc' = "solve" PROVE CardFits'
    BY DEF CardFits
  <2>1. claimed' \subseteq reset' /\ param'["num_samples"] >= 1
    BY <1>1, <1>5
  <2>2. \A j \in claimed' : j = k /\ device'[j] = "quad"
    BY <1>1, <1>5
  <2>3. Cast("card", LastGiven({"card"})[2])' = Cast("card", LastGiven({"card"})[2])
    BY <1>2
  <2> QED BY <1>2, <1>3, <1>6, <1>7, <2>1, <2>2, <2>3 DEF CardFits
<1> QED BY <1>1, <1>2, <1>4, <1>8 DEF FrontInv

LEMMA FrontStep == ASSUME FrontInv, [FrontEndNext]_allvars PROVE FrontInv'
<1>1. CASE Solve
  <2>1. pc' = "exited" /\ UNCHANGED <<given, use_cobi, param>>
    BY <1>1 DEF Solve, exit, options
  <2> QED BY <2>1, SettingsKept DEF FrontInv, SamplerFits, CardFits
<1>2. CASE Exited \/ UNCHANGED allvars
  <2>1. UNCHANGED allvars
    BY <1>2 DEF Exited
  <2>2. /\ UNCHANGED <<given, use_cobi, param, sub_sampler, sub_size>>
        /\ UNCHANGED <<untried, claimed, reset, device, pc>>
    BY <2>1 DEF allvars, options, cards, program
  <2>3. OptionsRead' /\ SizeGiven' = SizeGiven /\ (\A k : Suits(k)' <=> Suits(k))
    BY <2>2, SettingsKept DEF FrontInv
  <2>4. SamplerFits' /\ CardFits'
    BY <2>2 DEF FrontInv, SamplerFits, CardFits, CobiAsked, LastGiven
  <2> QED BY <2>2, <2>3, <2>4 DEF FrontInv, CardsOpened
<1> QED BY <1>1, <1>2, OptionStep, FileStep, FillStep, CardStep, CobiStep DEF FrontEndNext

(* Whatever the options and their order: the later of -C and -S decides    *)
(* between card and tabu search, and the size goes with it (main.c:206-220,*)
(* 364-400).                                                               *)
THEOREM SamplerAsAsked == Spec => []SamplerFits
<1>1. FrontInv => SamplerFits
  BY DEF FrontInv
<1> QED BY <1>1, FrontInit, FrontStep, PTL DEF Spec

(* A run on the card has claimed and reset one that is there, of the right *)
(* firmware and number; any other run has claimed none (cobi.cc:1131).     *)
THEOREM CardAsAsked == Spec => []CardFits
<1>1. FrontInv => CardFits
  BY DEF FrontInv
<1> QED BY <1>1, FrontInit, FrontStep, PTL DEF Spec
------------------------------------------------------------------------------
(* What the entries numbered by s leave at a pair: the value of the last   *)
(* one for it.                                                             *)
PairOf(e) == <<e.n1, e.n2>>
LastIn(seq, s, p) ==
  LET at == {k \in s : PairOf(seq[k]) = p} IN IF at = {} THEN 0 ELSE seq[Max(at)].value

LEMMA MaxIs ==
  ASSUME NEW n \in Nat, NEW S, S \subseteq 1 .. n, NEW m \in S, \A i \in S : m >= i
  PROVE  Max(S) = m
<1>1. Max(S) \in S /\ Max(S) >= m
  BY MaxIn
<1>2. m >= Max(S)
  BY <1>1
<1>3. m \in 1 .. n /\ Max(S) \in 1 .. n
  BY <1>1
<1> QED BY <1>1, <1>2, <1>3

LEMMA LastStep ==
  ASSUME NEW n \in Nat, NEW s, s \subseteq 1 .. n, s # {}, NEW seq, NEW p
  PROVE  LastIn(seq, s, p) = IF PairOf(seq[Max(s)]) = p THEN seq[Max(s)].value
                             ELSE LastIn(seq, s \ {Max(s)}, p)
<1>1. PICK m : m = Max(s)
  OBVIOUS
<1>2. m \in s /\ \A i \in s : m >= i
  BY <1>1, MaxIn
<1>3. PICK A : A = {k \in s : PairOf(seq[k]) = p}
  OBVIOUS
<1>4. LastIn(seq, s, p) = IF A = {} THEN 0 ELSE seq[Max(A)].value
  BY <1>3 DEF LastIn
<1>5. CASE PairOf(seq[m]) = p
  <2>1. m \in A /\ A \subseteq s
    BY <1>2, <1>3, <1>5
  <2>2. A \subseteq 1 .. n /\ \A i \in A : m >= i
    BY <1>2, <2>1
  <2>3. Max(A) = m
    BY <2>1, <2>2, MaxIs
  <2> QED BY <1>1, <1>4, <1>5, <2>1, <2>3
<1>6. CASE PairOf(seq[m]) # p
  <2>1. A = {k \in s \ {m} : PairOf(seq[k]) = p}
    BY <1>3, <1>6
  <2> QED BY <1>1, <1>4, <1>6, <2>1 DEF LastIn
<1> QED BY <1>5, <1>6

Cells(size) == (0 .. size - 1) \X (0 .. size - 1)

IsFill(g, seq, findMax, size, S) ==
  g = [s \in SUBSET S |->
         IF s = {} THEN [p \in Cells(size) |-> 0]
         ELSE [g[s \ {Max(s)}] EXCEPT ![PairOf(seq[Max(s)])] = Signed(findMax, seq[Max(s)])]]

LastSigned(seq, findMax, s, p) ==
  IF findMax THEN LastIn(seq, s, p) ELSE -LastIn(seq, s, p)

FillOf(seq, findMax, size, S) ==
  [s \in SUBSET S |-> [p \in Cells(size) |-> LastSigned(seq, findMax, s, p)]]

(* One entry more in the matrix.                                           *)
LEMMA FillStepIs ==
  ASSUME NEW n \in Nat, NEW s, s \subseteq 1 .. n, s # {}, NEW seq, NEW findMax, NEW size
  PROVE  [p \in Cells(size) |-> LastSigned(seq, findMax, s, p)] =
         [[p \in Cells(size) |-> LastSigned(seq, findMax, s \ {Max(s)}, p)]
            EXCEPT ![PairOf(seq[Max(s)])] = Signed(findMax, seq[Max(s)])]
<1> DEFINE r == s \ {Max(s)}
<1>1. PICK e : e = seq[Max(s)]
  OBVIOUS
<1>2. PICK h : h = [p \in Cells(size) |-> LastSigned(seq, findMax, r, p)]
  OBVIOUS
<1>3. [h EXCEPT ![PairOf(e)] = Signed(findMax, e)] =
        [p \in Cells(size) |-> IF p = PairOf(e) THEN Signed(findMax, e) ELSE h[p]]
  BY <1>2
<1>4. ASSUME NEW p \in Cells(size)
      PROVE  LastSigned(seq, findMax, s, p) = IF p = PairOf(e) THEN Signed(findMax, e) ELSE h[p]
  <2>1. LastIn(seq, s, p) = IF PairOf(e) = p THEN e.value ELSE LastIn(seq, r, p)
    BY <1>1, LastStep
  <2>2. h[p] = LastSigned(seq, findMax, r, p)
    BY <1>2
  <2> HIDE DEF r
  <2> QED BY <2>1, <2>2 DEF LastSigned, Signed
<1>5. [p \in Cells(size) |-> LastSigned(seq, findMax, s, p)] =
        [p \in Cells(size) |-> IF p = PairOf(e) THEN Signed(findMax, e) ELSE h[p]]
  BY <1>4
<1> QED BY <1>1, <1>2, <1>3, <1>5

LEMMA FillExists ==
  ASSUME NEW n \in Nat, NEW seq, NEW findMax, NEW size
  PROVE  IsFill(FillOf(seq, findMax, size, 1 .. n), seq, findMax, size, 1 .. n)
<1> DEFINE S == 1 .. n
           g == FillOf(seq, findMax, size, S)
<1>1. \A s \in SUBSET S : g[s] = [p \in Cells(size) |-> LastSigned(seq, findMax, s, p)]
  BY DEF FillOf
<1>2. ASSUME NEW s \in SUBSET S, s = {} PROVE g[s] = [p \in Cells(size) |-> 0]
  <2>1. ASSUME NEW p PROVE LastSigned(seq, findMax, s, p) = 0
    <3>1. {k \in s : PairOf(seq[k]) = p} = {}
      BY <1>2
    <3>2. LastIn(seq, s, p) = 0
      BY <3>1 DEF LastIn
    <3>3. PICK v \in Int : v = LastIn(seq, s, p) /\ v = 0
      BY <3>2
    <3>4. PICK w \in Int : w = -v /\ v + w = 0
      OBVIOUS
    <3>5. v + w = 0
      BY <3>4
    <3>6. v = 0
      BY <3>3
    <3>7. w = 0
      BY <3>5, <3>6
    <3> QED BY <3>3, <3>4, <3>7, Zenon DEF LastSigned
  <2>2. [p \in Cells(size) |-> LastSigned(seq, findMax, s, p)] = [p \in Cells(size) |-> 0]
    BY <2>1
  <2> QED BY <1>1, <2>2
<1>3. ASSUME NEW s \in SUBSET S, s # {}
      PROVE  g[s] = [g[s \ {Max(s)}] EXCEPT ![PairOf(seq[Max(s)])] = Signed(findMax, seq[Max(s)])]
  <2>1. s \ {Max(s)} \in SUBSET S
    OBVIOUS
  <2>2. g[s \ {Max(s)}] = [p \in Cells(size) |-> LastSigned(seq, findMax, s \ {Max(s)}, p)]
    BY <1>1, <2>1
  <2>3. [p \in Cells(size) |-> LastSigned(seq, findMax, s, p)] =
         [[p \in Cells(size) |-> LastSigned(seq, findMax, s \ {Max(s)}, p)]
            EXCEPT ![PairOf(seq[Max(s)])] = Signed(findMax, seq[Max(s)])]
    BY <1>3, FillStepIs
  <2> HIDE DEF g
  <2> QED BY <1>1, <2>2, <2>3
<1>4. g = [s \in SUBSET S |-> g[s]]
  BY DEF FillOf
<1> HIDE DEF g
<1>5. g = [s \in SUBSET S |->
            IF s = {} THEN [p \in Cells(size) |-> 0]
            ELSE [g[s \ {Max(s)}] EXCEPT ![PairOf(seq[Max(s)])] = Signed(findMax, seq[Max(s)])]]
  BY <1>2, <1>3, <1>4, Zenon
<1> QED BY <1>5 DEF IsFill, g

(* There is one way to fill the matrix: the smallest set of entries for    *)
(* which two ways differed would lose its last entry and still differ.     *)
LEMMA FillUnique ==
  ASSUME NEW n \in Nat, NEW seq, NEW findMax, NEW size, NEW g, NEW h,
         IsFill(g, seq, findMax, size, 1 .. n), IsFill(h, seq, findMax, size, 1 .. n)
  PROVE  g[1 .. n] = h[1 .. n]
<1> DEFINE T == {s \in SUBSET (1 .. n) : g[s] # h[s]}
<1> SUFFICES ASSUME T # {} PROVE FALSE
  BY DEF T
<1>1. IsFiniteSet(1 .. n)
  BY FS_Interval
<1>2. T \subseteq FiniteSubsetsOf(1 .. n)
  BY <1>1, FS_Subset DEF FiniteSubsetsOf
<1>3. PICK s \in T : \A B \in T : ~(<<B, s>> \in StrictSubsetOrdering(1 .. n))
  <2> HIDE DEF T
  <2> QED BY <1>1, <1>2, FS_StrictSubsetOrderingWellFounded, WFMin
<1>4. s # {}
  BY <1>3 DEF IsFill
<1> DEFINE r == s \ {Max(s)}
<1>5. Max(s) \in s
  BY <1>3, <1>4, MaxIn
<1>6. r \in SUBSET (1 .. n) /\ <<r, s>> \in StrictSubsetOrdering(1 .. n)
  BY <1>2, <1>3, <1>5, <1>1, FS_Subset DEF StrictSubsetOrdering, FiniteSubsetsOf
<1>7. g[r] = h[r]
  BY <1>3, <1>6
<1>8. /\ g[s] = [g[r] EXCEPT ![PairOf(seq[Max(s)])] = Signed(findMax, seq[Max(s)])]
      /\ h[s] = [h[r] EXCEPT ![PairOf(seq[Max(s)])] = Signed(findMax, seq[Max(s)])]
  BY <1>3, <1>4 DEF IsFill
<1> QED BY <1>3, <1>7, <1>8

(* The matrix holds for every pair the value of the last entry for it.     *)
LEMMA FilledWithLast ==
  ASSUME nodes_ \in Seq(Entry), couplers_ \in Seq(Entry), NEW findMax
  PROVE  LET seq == nodes_ \o couplers_ IN
           fill_qubo(findMax) =
             [p \in Cells(maxNodes_) |-> LastSigned(seq, findMax, 1 .. Len(seq), p)]
<1>1. PICK seq \in Seq(Entry) : seq = nodes_ \o couplers_
  <2>1. nodes_ \o couplers_ \in Seq(Entry)
    OBVIOUS
  <2> QED BY <2>1
<1>2. PICK n \in Nat : n = Len(seq) /\ DOMAIN seq = 1 .. n
  BY <1>1
<1> DEFINE g == CHOOSE g : IsFill(g, seq, findMax, maxNodes_, 1 .. n)
<1>3. IsFill(g, seq, findMax, maxNodes_, 1 .. n)
  BY FillExists
<1>4. fill_qubo(findMax) = g[1 .. n]
  <2>1. fill_qubo(findMax) = (CHOOSE f : IsFill(f, seq, findMax, maxNodes_, DOMAIN seq))[DOMAIN seq]
    BY <1>1 DEF fill_qubo, FoldLeft, MapThenFoldSet, IsFill, PairOf, Cells
  <2> QED BY <1>2, <2>1
<1>5. g[1 .. n] = FillOf(seq, findMax, maxNodes_, 1 .. n)[1 .. n]
  <2> HIDE DEF g
  <2> QED BY <1>3, FillExists, FillUnique
<1>6. FillOf(seq, findMax, maxNodes_, 1 .. n)[1 .. n] =
        [p \in Cells(maxNodes_) |-> LastSigned(seq, findMax, 1 .. n, p)]
  BY DEF FillOf
<1> QED BY <1>1, <1>2, <1>4, <1>5, <1>6

(* The value of the last entry for a pair in one of the two arrays.        *)
LastValue(array, p) == LastIn(array, 1 .. Len(array), p)

LEMMA LastSame ==
  ASSUME NEW n \in Nat, NEW a, NEW b, NEW p, \A k \in 1 .. n : a[k] = b[k]
  PROVE  LastIn(a, 1 .. n, p) = LastIn(b, 1 .. n, p)
<1>1. PICK A : A = {k \in 1 .. n : PairOf(a[k]) = p}
  OBVIOUS
<1>2. A = {k \in 1 .. n : PairOf(b[k]) = p}
  BY <1>1
<1>3. A # {} => Max(A) \in 1 .. n
  BY <1>1, MaxIn
<1> QED BY <1>1, <1>2, <1>3 DEF LastIn

LEMMA LastStored ==
  ASSUME NEW array \in Seq(Entry), NEW e \in Entry, NEW p
  PROVE  LastValue(Append(array, e), p) =
           IF PairOf(e) = p THEN e.value ELSE LastValue(array, p)
<1>1. PICK n \in Nat : n = Len(array)
  OBVIOUS
<1>2. PICK b : b = Append(array, e)
  OBVIOUS
<1>3. Len(b) = n + 1 /\ b[n + 1] = e /\ \A k \in 1 .. n : array[k] = b[k]
  BY <1>1, <1>2
<1>4. PICK s : s = 1 .. n + 1
  OBVIOUS
<1>5. n + 1 \in Nat /\ n + 1 \in s /\ s \subseteq 1 .. n + 1 /\ \A i \in s : n + 1 >= i
  BY <1>4
<1>6. Max(s) = n + 1
  BY <1>5, MaxIs
<1>7. s \ {n + 1} = 1 .. n
  BY <1>4
<1>8. LastIn(b, s, p) = IF PairOf(e) = p THEN e.value ELSE LastIn(b, 1 .. n, p)
  <2>1. PICK m \in Nat : m = n + 1
    BY <1>5
  <2>2. s \subseteq 1 .. m /\ s # {}
    BY <1>5, <2>1
  <2>3. LastIn(b, s, p) = IF PairOf(b[Max(s)]) = p THEN b[Max(s)].value
                          ELSE LastIn(b, s \ {Max(s)}, p)
    BY <2>2, LastStep
  <2> QED BY <1>3, <1>6, <1>7, <2>3
<1>9. LastIn(b, 1 .. n, p) = LastIn(array, 1 .. n, p)
  BY <1>3, LastSame
<1> QED BY <1>1, <1>2, <1>3, <1>4, <1>8, <1>9 DEF LastValue

(* Entries for other pairs in front or behind do not matter.               *)
LEMMA LastOfBoth ==
  ASSUME NEW a \in Seq(Entry), NEW b \in Seq(Entry), NEW p
  PROVE  /\ (\A k \in 1 .. Len(b) : PairOf(b[k]) # p) => LastValue(a \o b, p) = LastValue(a, p)
         /\ (\A k \in 1 .. Len(a) : PairOf(a[k]) # p) => LastValue(a \o b, p) = LastValue(b, p)
<1>1. PICK m \in Nat, n \in Nat : m = Len(a) /\ n = Len(b)
  OBVIOUS
<1>2. PICK c : c = a \o b
  OBVIOUS
<1>3. /\ Len(c) = m + n
      /\ \A k \in 1 .. m : c[k] = a[k]
      /\ \A k \in 1 .. n : c[m + k] = b[k]
  BY <1>1, <1>2
<1>4. PICK A : A = {k \in 1 .. m + n : PairOf(c[k]) = p}
  OBVIOUS
<1>5. LastValue(c, p) = IF A = {} THEN 0 ELSE c[Max(A)].value
  BY <1>3, <1>4 DEF LastValue, LastIn
<1>6. ASSUME \A k \in 1 .. n : PairOf(b[k]) # p PROVE LastValue(c, p) = LastValue(a, p)
  <2>1. ASSUME NEW k \in A PROVE k \in 1 .. m
    <3> SUFFICES ASSUME ~(k <= m) PROVE FALSE
      BY <1>4
    <3>1. k - m \in 1 .. n /\ m + (k - m) = k
      BY <1>4
    <3> QED BY <1>3, <1>4, <1>6, <3>1
  <2>2. A = {k \in 1 .. m : PairOf(a[k]) = p}
    <3>1. ASSUME NEW k \in 1 .. m PROVE k \in A <=> PairOf(a[k]) = p
      BY <1>3, <1>4
    <3> QED BY <2>1, <3>1
  <2>3. A # {} => Max(A) \in 1 .. m
    BY <2>1, MaxIn
  <2>4. A # {} => c[Max(A)] = a[Max(A)]
    BY <1>3, <2>3
  <2> QED BY <1>1, <1>5, <2>2, <2>4 DEF LastValue, LastIn
<1>7. ASSUME \A k \in 1 .. m : PairOf(a[k]) # p PROVE LastValue(c, p) = LastValue(b, p)
  <2>1. PICK B : B = {k \in 1 .. n : PairOf(b[k]) = p}
    OBVIOUS
  <2>2. ASSUME NEW k \in B PROVE m + k \in A
    <3>1. m + k \in 1 .. m + n /\ c[m + k] = b[k]
      BY <1>3, <2>1
    <3> QED BY <1>4, <2>1, <3>1
  <2>3. ASSUME NEW k \in A PROVE k - m \in B /\ k \in Int
    <3>1. k \in 1 .. m + n /\ PairOf(c[k]) = p
      BY <1>4
    <3>2. ~(k <= m)
      BY <1>3, <1>7, <3>1
    <3>3. k - m \in 1 .. n /\ m + (k - m) = k
      BY <3>1, <3>2
    <3> QED BY <1>3, <2>1, <3>1, <3>3
  <2>4. CASE B = {}
    <3>1. A = {}
      BY <2>3, <2>4
    <3>2. LastValue(b, p) = 0
      BY <1>1, <2>1, <2>4 DEF LastValue, LastIn
    <3> QED BY <1>5, <3>1, <3>2
  <2>5. CASE B # {}
    <3>1. PICK j : j = Max(B) /\ j \in B /\ \A i \in B : j >= i
      BY <2>1, <2>5, MaxIn
    <3>2. j \in 1 .. n
      BY <2>1, <3>1
    <3>3. m + j \in A /\ m + n \in Nat /\ A \subseteq 1 .. m + n
      BY <1>4, <2>2, <3>1
    <3>4. ASSUME NEW i \in A PROVE m + j >= i
      <4>1. i - m \in B /\ i \in Int
        BY <2>3
      <4>2. j >= i - m
        BY <3>1, <4>1
      <4> QED BY <3>2, <4>1, <4>2
    <3>5. Max(A) = m + j
      BY <3>3, <3>4, MaxIs
    <3>6. c[m + j] = b[j]
      BY <1>3, <3>2
    <3>7. LastValue(b, p) = b[j].value
      BY <1>1, <2>1, <2>5, <3>1 DEF LastValue, LastIn
    <3> QED BY <1>5, <3>3, <3>5, <3>6, <3>7
  <2> QED BY <2>4, <2>5
<1> QED BY <1>1, <1>2, <1>6, <1>7

(* What the file states so far is in the arrays: on the diagonal in nodes_,*)
(* above it in couplers_.                                                  *)
StatedInv ==
  /\ ReaderInv
  /\ \A k \in 1 .. Len(nodes_) : nodes_[k].n1 = nodes_[k].n2
  /\ \A k \in 1 .. Len(couplers_) : couplers_[k].n1 < couplers_[k].n2
  /\ stated \in [Pair -> Int]
  /\ \A p \in Pair : stated[p] = LastValue(IF p[1] = p[2] THEN nodes_ ELSE couplers_, p)
  /\ 0 .. maxNodes_ - 1 \subseteq Coordinates

LEMMA StatedInit == Init => StatedInv
<1> SUFFICES ASSUME Init PROVE StatedInv
  OBVIOUS
<1>1. /\ nodes_ = <<>> /\ couplers_ = <<>> /\ maxNodes_ = 0
      /\ stated = [p \in Pair |-> 0]
  BY DEF Init
<1>2. \A p : LastValue(<<>>, p) = 0
  BY DEF LastValue, LastIn
<1>3. \A p \in Pair : stated[p] = LastValue(IF p[1] = p[2] THEN nodes_ ELSE couplers_, p)
  BY <1>1, <1>2
<1> QED BY <1>1, <1>3, ReaderInit DEF StatedInv

LEMMA StatedStep == ASSUME StatedInv, [Next]_file PROVE StatedInv'
<1>1. ReaderInv'
  BY ReaderStep DEF StatedInv
<1>2. CASE \E known \in BOOLEAN : ProgramLine(known)
  <2>1. UNCHANGED <<nodes_, couplers_, stated>>
    BY <1>2 DEF ProgramLine
  <2>2. 0 .. maxNodes_' - 1 \subseteq Coordinates
    BY <1>2, ReaderAssumption DEF ProgramLine
  <2> QED BY <1>1, <2>1, <2>2 DEF StatedInv, LastValue
<1>3. CASE (\E i, j \in Coordinates : RefusedLine(i, j)) \/ EndOfFile \/ UNCHANGED file
  <2>1. UNCHANGED <<nodes_, couplers_, stated, maxNodes_>>
    BY <1>3 DEF RefusedLine, EndOfFile, header, file
  <2> QED BY <1>1, <2>1 DEF StatedInv, LastValue
<1>4. CASE \E i, j \in Coordinates : \E f \in Weights : DataLine(i, j, f)
  <2>1. PICK i \in Coordinates, j \in Coordinates, f \in Weights : DataLine(i, j, f)
    BY <1>4
  <2>2. PICK e \in Entry : e = [n1 |-> i, n2 |-> j, value |-> f]
    <3>1. [n1 |-> i, n2 |-> j, value |-> f] \in Entry
      BY ReaderAssumption DEF Entry
    <3> QED BY <3>1
  <2>3. e.n1 = i /\ e.n2 = j /\ e.value = f /\ PairOf(e) = <<i, j>>
    BY <2>2 DEF PairOf
  <2>4. /\ stated' = [stated EXCEPT ![<<i, j>>] = f] /\ maxNodes_' = maxNodes_
        /\ \/ i = j /\ nodes_' = Append(nodes_, e) /\ couplers_' = couplers_
           \/ i < j /\ couplers_' = Append(couplers_, e) /\ nodes_' = nodes_
    BY <2>1, <2>2 DEF DataLine, Stored, header
  <2>5. nodes_ \in Seq(Entry) /\ couplers_ \in Seq(Entry)
    BY DEF StatedInv, ReaderInv
  <2>6. \A array \in Seq(Entry) :
          /\ Len(Append(array, e)) = Len(array) + 1
          /\ Append(array, e)[Len(array) + 1] = e
          /\ \A k \in 1 .. Len(array) : Append(array, e)[k] = array[k]
          /\ \A k \in 1 .. Len(array) + 1 : k \in 1 .. Len(array) \/ k = Len(array) + 1
    OBVIOUS
  <2>7. \A k \in 1 .. Len(nodes_') : nodes_'[k].n1 = nodes_'[k].n2
    <3>1. \A k \in 1 .. Len(nodes_) : nodes_[k].n1 = nodes_[k].n2
      BY DEF StatedInv
    <3>2. CASE nodes_' = nodes_
      BY <3>1, <3>2
    <3>3. CASE i = j /\ nodes_' = Append(nodes_, e)
      <4>1. PICK new : new = nodes_'
        OBVIOUS
      <4>2. /\ Len(new) = Len(nodes_) + 1 /\ new[Len(nodes_) + 1] = e
            /\ \A k \in 1 .. Len(nodes_) : new[k] = nodes_[k]
            /\ \A k \in 1 .. Len(nodes_) + 1 : k \in 1 .. Len(nodes_) \/ k = Len(nodes_) + 1
        BY <2>5, <2>6, <3>3, <4>1
      <4> QED BY <2>3, <3>1, <3>3, <4>1, <4>2
    <3> QED BY <2>4, <3>2, <3>3
  <2>8. \A k \in 1 .. Len(couplers_') : couplers_'[k].n1 < couplers_'[k].n2
    <3>1. \A k \in 1 .. Len(couplers_) : couplers_[k].n1 < couplers_[k].n2
      BY DEF StatedInv
    <3>2. CASE couplers_' = couplers_
      BY <3>1, <3>2
    <3>3. CASE i < j /\ couplers_' = Append(couplers_, e)
      <4>1. PICK new : new = couplers_'
        OBVIOUS
      <4>2. /\ Len(new) = Len(couplers_) + 1 /\ new[Len(couplers_) + 1] = e
            /\ \A k \in 1 .. Len(couplers_) : new[k] = couplers_[k]
            /\ \A k \in 1 .. Len(couplers_) + 1 : k \in 1 .. Len(couplers_) \/ k = Len(couplers_) + 1
        BY <2>5, <2>6, <3>3, <4>1
      <4> QED BY <2>3, <3>1, <3>3, <4>1, <4>2
    <3> QED BY <2>4, <3>2, <3>3
  <2>9. stated \in [Pair -> Int] /\ f \in Int /\ i \in Int /\ j \in Int
    BY ReaderAssumption DEF StatedInv
  <2>10. stated' \in [Pair -> Int]
    BY <2>4, <2>9
  <2>11. ASSUME NEW p \in Pair
         PROVE  stated'[p] = LastValue(IF p[1] = p[2] THEN nodes_' ELSE couplers_', p)
    <3>1. stated[p] = LastValue(IF p[1] = p[2] THEN nodes_ ELSE couplers_, p)
      BY DEF StatedInv
    <3>2. stated'[p] = IF PairOf(e) = p THEN e.value ELSE stated[p]
      BY <2>3, <2>4, <2>9
    <3>3. p = <<p[1], p[2]>>
      BY DEF Pair
    <3>4. \A array \in Seq(Entry) : LastValue(Append(array, e), p) =
             IF PairOf(e) = p THEN e.value ELSE LastValue(array, p)
      BY LastStored
    <3>5. CASE i = j /\ nodes_' = Append(nodes_, e) /\ couplers_' = couplers_
      <4>1. p[1] # p[2] => PairOf(e) # p
        BY <2>3, <3>5
      <4> QED BY <2>5, <3>1, <3>2, <3>4, <3>5, <4>1
    <3>6. CASE i < j /\ couplers_' = Append(couplers_, e) /\ nodes_' = nodes_
      <4>1. i # j
        BY <2>9, <3>6
      <4>2. p[1] = p[2] => PairOf(e) # p
        BY <2>3, <4>1
      <4> QED BY <2>5, <3>1, <3>2, <3>4, <3>6, <4>2
    <3> QED BY <2>4, <3>5, <3>6
  <2>12. 0 .. maxNodes_' - 1 \subseteq Coordinates
    BY <2>4 DEF StatedInv
  <2> QED BY <1>1, <2>7, <2>8, <2>10, <2>11, <2>12 DEF StatedInv
<1> QED BY <1>2, <1>3, <1>4 DEF Next

(* The matrix filled from such arrays is the one stated.                   *)
LEMMA FilledAsStated ==
  ASSUME StatedInv, NEW findMax, NEW p \in DOMAIN fill_qubo(findMax)
  PROVE  fill_qubo(findMax)[p] = IF findMax THEN stated[p] ELSE -stated[p]
<1>1. nodes_ \in Seq(Entry) /\ couplers_ \in Seq(Entry)
  BY DEF StatedInv, ReaderInv
<1>2. PICK seq : seq = nodes_ \o couplers_
  OBVIOUS
<1>3. fill_qubo(findMax) = [q \in Cells(maxNodes_) |-> LastSigned(seq, findMax, 1 .. Len(seq), q)]
  BY <1>1, <1>2, FilledWithLast
<1>4. p \in Cells(maxNodes_)
  BY <1>3
<1>5. p \in Pair
  BY <1>4 DEF Cells, Pair, StatedInv
<1>6. /\ \A k \in 1 .. Len(nodes_) : nodes_[k].n1 = nodes_[k].n2
      /\ \A k \in 1 .. Len(couplers_) : couplers_[k].n1 < couplers_[k].n2
      /\ stated[p] = LastValue(IF p[1] = p[2] THEN nodes_ ELSE couplers_, p)
  BY <1>5 DEF StatedInv
<1>7. LastValue(seq, p) = stated[p]
  <2>1. CASE p[1] = p[2]
    <3>1. ASSUME NEW k \in 1 .. Len(couplers_) PROVE PairOf(couplers_[k]) # p
      <4>1. couplers_[k] \in Entry
        BY <1>1
      <4>2. couplers_[k].n1 # couplers_[k].n2
        BY <1>6, <4>1 DEF Entry
      <4> QED BY <2>1, <4>2 DEF PairOf
    <3> QED BY <1>1, <1>2, <1>6, <2>1, <3>1, LastOfBoth
  <2>2. CASE p[1] # p[2]
    <3>1. \A k \in 1 .. Len(nodes_) : PairOf(nodes_[k]) # p
      BY <1>6, <2>2 DEF PairOf
    <3> QED BY <1>1, <1>2, <1>6, <2>2, <3>1, LastOfBoth
  <2> QED BY <2>1, <2>2
<1>8. LastIn(seq, 1 .. Len(seq), p) = stated[p]
  BY <1>7 DEF LastValue
<1> QED BY <1>3, <1>4, <1>8 DEF LastSigned

Maximises == \E k \in 1 .. Len(given) : given[k] = <<"m">>

MatrixInv ==
  /\ StatedInv
  /\ given \in Seq(OptionGiven) /\ findMax_ \in BOOLEAN
  /\ findMax_ <=> Maximises
  /\ pc \in {"find", "open", "samples", "solve"} =>
       \A p \in DOMAIN val : val[p] = IF findMax_ THEN stated[p] ELSE -stated[p]

LEMMA MatrixInit == FrontEndInit => MatrixInv
<1> SUFFICES ASSUME FrontEndInit PROVE MatrixInv
  OBVIOUS
<1>1. StatedInv
  BY StatedInit DEF FrontEndInit
<1>2. given = <<>> /\ findMax_ = FALSE /\ pc = "options"
  BY DEF FrontEndInit
<1>3. given \in Seq(OptionGiven) /\ ~Maximises
  BY <1>2 DEF Maximises
<1> QED BY <1>1, <1>2, <1>3 DEF MatrixInv

(* The only option that sets findMax_ is -m, and none takes it back.       *)
LEMMA MaximisesAfter ==
  ASSUME Option
  PROVE  \E o \in OptionGiven : /\ given' = Append(given, o)
                                /\ IF o = <<"m">> THEN findMax_' = TRUE ELSE findMax_' = findMax_
<1>1. CASE \E algo \in Algos : Option_a(algo)
  <2>1. PICK algo \in Algos : Option_a(algo)
    BY <1>1
  <2>2. <<"a", algo>> \in OptionGiven /\ <<"a", algo>> # <<"m">>
    BY DEF OptionGiven
  <2> QED BY <2>1, <2>2 DEF Option_a, Given
<1>2. CASE \E found \in BOOLEAN : Option_i(found)
  <2>1. <<"i">> \in OptionGiven /\ <<"i">> # <<"m">>
    BY DEF OptionGiven
  <2> QED BY <1>2, <2>1 DEF Option_i, Given
<1>3. CASE \E n \in SubSizes : Option_S(n)
  <2>1. PICK n \in SubSizes : Option_S(n)
    BY <1>3
  <2>2. <<"S", n>> \in OptionGiven /\ <<"S", n>> # <<"m">>
    BY DEF OptionGiven
  <2> QED BY <2>1, <2>2 DEF Option_S, Given
<1>4. CASE Option_C
  <2>1. <<"C">> \in OptionGiven /\ <<"C">> # <<"m">>
    BY DEF OptionGiven
  <2> QED BY <1>4, <2>1 DEF Option_C, Given
<1>5. CASE Option_m
  <2>1. <<"m">> \in OptionGiven
    BY DEF OptionGiven
  <2> QED BY <1>5, <2>1 DEF Option_m, Given
<1>6. CASE \E s \in Settings : Option_number(s[1], s[2])
  <2>1. PICK s \in Settings : Option_number(s[1], s[2])
    BY <1>6
  <2>2. s \in OptionGiven /\ s = <<s[1], s[2]>> /\ s # <<"m">>
    BY FrontEndAssumption DEF OptionGiven
  <2> QED BY <2>1, <2>2 DEF Option_number, Given
<1>7. CASE \E code \in {0, 9} : Option_text(code)
  <2>1. PICK code \in {0, 9} : Option_text(code)
    BY <1>7
  <2>2. <<"text", code>> \in OptionGiven /\ <<"text", code>> # <<"m">>
    BY DEF OptionGiven
  <2> QED BY <2>1, <2>2 DEF Option_text, Given
<1> QED BY <1>1, <1>2, <1>3, <1>4, <1>5, <1>6, <1>7 DEF Option

LEMMA MatrixStep == ASSUME MatrixInv, [FrontEndNext]_allvars PROVE MatrixInv'
<1>1. StatedInv'
  BY StepReads, StatedStep DEF MatrixInv
<1>2. CASE Option
  <2>1. PICK o \in OptionGiven : /\ given' = Append(given, o)
                                 /\ IF o = <<"m">> THEN findMax_' = TRUE ELSE findMax_' = findMax_
    BY <1>2, MaximisesAfter
  <2>2. /\ Len(given') = Len(given) + 1 /\ given'[Len(given) + 1] = o
        /\ \A k \in 1 .. Len(given) : given'[k] = given[k]
        /\ Len(given) \in Nat /\ given' \in Seq(OptionGiven)
    BY <2>1 DEF MatrixInv
  <2>3. Maximises' <=> Maximises \/ o = <<"m">>
    <3>1. PICK n \in Nat : n = Len(given)
      BY <2>2
    <3>2. PICK new : /\ new = given' /\ Len(new) = n + 1 /\ new[n + 1] = o
                     /\ \A k \in 1 .. n : new[k] = given[k]
      BY <2>2, <3>1
    <3>3. \A k : k \in 1 .. n + 1 <=> k \in 1 .. n \/ k = n + 1
      BY <3>1
    <3>4. (\E k \in 1 .. n + 1 : new[k] = <<"m">>) <=> (\E k \in 1 .. n : given[k] = <<"m">>) \/ o = <<"m">>
      BY <3>2, <3>3, Zenon
    <3> QED BY <3>1, <3>2, <3>4 DEF Maximises
  <2>4. pc' \in {"options", "exited"}
    BY <1>2 DEF Option, Option_a, Option_i, Option_S, Option_C, Option_m, Option_number, Option_text,
                Given, goto, exit
  <2> QED BY <1>1, <2>1, <2>2, <2>3, <2>4 DEF MatrixInv
<1>3. CASE EndOfOptions \/ ReadFile
  <2>1. pc' \notin {"find", "open", "samples", "solve"} /\ UNCHANGED <<given, findMax_>>
    <3>1. CASE EndOfOptions
      BY <3>1 DEF EndOfOptions, goto, exit, options
    <3>2. CASE ReadFile
      <4>1. reading' \in {"lines", "accepted", "refused"}
        BY <3>2 DEF ReadFile, Next, ProgramLine, RefusedLine, DataLine, EndOfFile
      <4> QED BY <3>2, <4>1 DEF ReadFile, goto, exit
    <3> QED BY <1>3, <3>1, <3>2
  <2> QED BY <1>1, <2>1 DEF MatrixInv, Maximises
<1>4. CASE FillMatrix
  <2>1. val' = fill_qubo(findMax_) /\ UNCHANGED <<given, findMax_, stated>>
    BY <1>4 DEF FillMatrix, file, options
  <2>2. \A p \in DOMAIN val' : val'[p] = IF findMax_ THEN stated[p] ELSE -stated[p]
    <3>1. StatedInv
      BY DEF MatrixInv
    <3>2. ASSUME NEW p \in DOMAIN fill_qubo(findMax_)
          PROVE  fill_qubo(findMax_)[p] = IF findMax_ THEN stated[p] ELSE -stated[p]
      BY <3>1, FilledAsStated
    <3> QED BY <2>1, <3>2
  <2> QED BY <1>1, <2>1, <2>2 DEF MatrixInv, Maximises
<1>5. CASE FindCards \/ (\E k \in Card : OpenCard(k)) \/ ResetCards \/ UseCobi \/ Solve
           \/ Exited \/ UNCHANGED allvars
  <2>1. UNCHANGED <<given, findMax_, stated, val>>
    BY <1>5 DEF FindCards, OpenCard, ResetCards, UseCobi, Solve, Exited, allvars, file, options, program
  <2>2. pc' \in {"find", "open", "samples", "solve"} => pc \in {"find", "open", "samples", "solve"}
    BY <1>5 DEF FindCards, OpenCard, ResetCards, UseCobi, Solve, Exited, allvars, goto, exit
  <2> QED BY <1>1, <2>1, <2>2 DEF MatrixInv, Maximises
<1> QED BY <1>2, <1>3, <1>4, <1>5 DEF FrontEndNext

(* solve() is handed the matrix the file states, whatever the order of its *)
(* lines: of several lines for a pair the last one counts.  A file with    *)
(* negative nodes does not get to solve() in the model, since what filling *)
(* the matrix from it does is not defined (readqubo.c:144-158).            *)
THEOREM MatrixAsStated == Spec => []MatrixIsFile
<1>1. MatrixInv => MatrixIsFile
  BY DEF MatrixInv, MatrixIsFile, Maximises
<1> QED BY <1>1, MatrixInit, MatrixStep, PTL DEF Spec
==============================================================================
