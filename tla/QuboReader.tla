------------------------------ MODULE QuboReader ------------------------------
(***************************************************************************)
(* The input of the program, src/cmd/readqubo.c: read_qubo() reads a .qubo *)
(* file line by line into two arrays of the sizes its program line names,  *)
(* and fill_qubo() moves them into the matrix the solver works on.  The    *)
(* file is any sequence of lines; a step reads one.  Comments, lines of    *)
(* anything but three numbers and lines before the program line leave no   *)
(* trace.                                                                  *)
(***************************************************************************)
EXTENDS Integers, SequencesExt

CONSTANTS
  Headers,     \* program lines: <<maxNodes, nNodes, nCouplers>>
  Coordinates, \* node numbers in the file, some too large, some negative
  Weights      \* values of nodes and couplers

ASSUME ReaderAssumption ==
  /\ Headers \subseteq Int \X Int \X Int
  /\ Coordinates \subseteq Int /\ Weights \subseteq Int
  /\ \A h \in Headers : 0 .. h[1] - 1 \subseteq Coordinates  \* every node can be named

VARIABLES
  maxNodes_, nNodes_, nCouplers_,
  pFound,
  nodes_, couplers_,   \* as far as filled: [n1, n2, value]
  stated,              \* history: pair -> the value its last line gives
  reading              \* "lines", "accepted", or "refused" by exit(9)

header == <<maxNodes_, nNodes_, nCouplers_, pFound>>
vars   == <<header, nodes_, couplers_, stated, reading>>

Pair     == Coordinates \X Coordinates
inode    == Len(nodes_)
icoupler == Len(couplers_)

Init ==
  /\ maxNodes_ = 0 /\ nNodes_ = 0 /\ nCouplers_ = 0 /\ pFound = FALSE
  /\ nodes_ = <<>> /\ couplers_ = <<>>
  /\ stated = [p \in Pair |-> 0]
  /\ reading = "lines"

(* The first line that starts with p must name a qubo of a known topology. *)
ProgramLine(known) ==
  /\ reading = "lines" /\ ~pFound
  /\ \E h \in Headers : maxNodes_' = h[1] /\ nNodes_' = h[2] /\ nCouplers_' = h[3]
  /\ pFound' = known
  /\ reading' = IF known THEN "lines" ELSE "refused"
  /\ UNCHANGED <<nodes_, couplers_, stated>>

(* One entry more than the array holds gets past this check.               *)
Exceeded(count, size) == count > size

OutOfBounds_First(i, j) == i + 1 > maxNodes_
OutOfBounds(i, j) == i + 1 > maxNodes_ \/ j + 1 > maxNodes_

Stored(array, i, j, f) == Append(array, [n1 |-> i, n2 |-> j, value |-> f])

RefusedLine(i, j) ==
  /\ reading = "lines" /\ pFound
  /\ \/ i = j /\ Exceeded(inode, nNodes_)
     \/ i > j
     \/ i < j /\ Exceeded(icoupler, nCouplers_)
  /\ reading' = "refused"
  /\ UNCHANGED <<header, nodes_, couplers_, stated>>

(* The numbers are stored first and compared with maxNodes_ then; no number*)
(* is too small.                                                           *)
DataLine(i, j, f) ==
  /\ reading = "lines" /\ pFound
  /\ \/ /\ i = j /\ ~Exceeded(inode, nNodes_)
        /\ nodes_' = Stored(nodes_, i, j, f)
        /\ UNCHANGED couplers_
     \/ /\ i < j /\ ~Exceeded(icoupler, nCouplers_)
        /\ couplers_' = Stored(couplers_, i, j, f)
        /\ UNCHANGED nodes_
  /\ stated' = [stated EXCEPT ![<<i, j>>] = f]
  /\ reading' = IF OutOfBounds(i, j) THEN "refused" ELSE "lines"
  /\ UNCHANGED header

(* A file without a program line passes: all its counts are zero.          *)
Complete == icoupler = nCouplers_ /\ inode = nNodes_

EndOfFile ==
  /\ reading = "lines"
  /\ reading' = IF Complete THEN "accepted" ELSE "refused"
  /\ UNCHANGED <<header, nodes_, couplers_, stated>>

Next ==
  \/ \E known \in BOOLEAN : ProgramLine(known)
  \/ \E i, j \in Coordinates : RefusedLine(i, j)
  \/ \E i, j \in Coordinates : \E f \in Weights : DataLine(i, j, f)
  \/ EndOfFile
------------------------------------------------------------------------------
Entries   == ToSet(nodes_) \cup ToSet(couplers_)
Inside(e) == {e.n1, e.n2} \subseteq 0 .. maxNodes_ - 1

(* The matrix: zero, then entry by entry in the order of the file, so that *)
(* of two entries for one pair the later one stays.  Defined only if all   *)
(* entries are inside: others are written next to the matrix.              *)
Signed_NodesOnly(findMax, e) == IF findMax \/ e.n1 # e.n2 THEN e.value ELSE -e.value
Signed(findMax, e) == IF findMax THEN e.value ELSE -e.value

fill_qubo(findMax) ==
  FoldLeft(LAMBDA val, e : [val EXCEPT ![<<e.n1, e.n2>>] = Signed(findMax, e)],
           [p \in (0 .. maxNodes_ - 1) \X (0 .. maxNodes_ - 1) |-> 0],
           nodes_ \o couplers_)
------------------------------------------------------------------------------
(* The reader stores an entry before it knows that it belongs: the arrays  *)
(* can be overrun by one entry, and hold node numbers beyond the matrix.   *)
(* No such file is accepted (readqubo.c:84, "Number of nodes exceeded", and*)
(* :109, "Coordinates out of bounds"): the entries are as many as the file *)
(* says, on or above the diagonal, and none outside the matrix but those   *)
(* with a negative node, which nothing refuses, though a node "must be in  *)
(* {0 , (maxNodes-1)}" (main.c:589, README.rst:173).                       *)
AcceptedInside ==
  reading = "accepted" =>
    /\ Len(nodes_) = nNodes_ /\ Len(couplers_) = nCouplers_
    /\ \A e \in Entries : e.n1 <= e.n2 /\ (Inside(e) \/ e.n1 < 0)
==============================================================================
