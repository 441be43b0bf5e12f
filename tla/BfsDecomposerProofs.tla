-------------------------- MODULE BfsDecomposerProofs --------------------------
(***************************************************************************)
(* Proofs about BfsDecomposer for every graph and every size of the        *)
(* sub-problem.                                                            *)
(***************************************************************************)
EXTENDS BfsDecomposer, TLAPS

(* seen marks exactly the variables in sub_vars (util.cc:807-808).         *)
SeenIsQueue == seen = {queue[a] : a \in 1 .. queueTop}

(* What each place in the loops relies on: rows are read and variables     *)
(* drawn only while the sub-problem has room, the row being read is that   *)
(* of the last vertex taken, and a draw finds the queue empty.             *)
Control ==
  /\ pc = "start" => queue = <<>> /\ roots = {}
  /\ pc \in {"scan", "draw"} => queueTop < sub_qubo_size
  /\ pc = "scan" => queueBot >= 1 /\ queue[queueBot] = curVertex
  /\ pc = "draw" => queueBot = queueTop

(* The row of a vertex taken from the queue has been read to its end, or   *)
(* is being read, or the sub-problem was full before its end.              *)
RowsRead ==
  \A a \in 1 .. queueBot : \A e \in edges :
    e[1] = queue[a] => \/ e[2] \in seen
                       \/ pc = "scan" /\ a = queueBot /\ e[2] >= j
                       \/ queueTop = sub_qubo_size

Inv == /\ TypeOK /\ SeenIsQueue /\ Control /\ RowsRead
       /\ Distinct /\ (pc = "done" => queueTop = sub_qubo_size)
       /\ Connected

(* A coupler joins two variables, the lower one first.                     *)
LEMMA EdgeIsPair ==
  ASSUME TypeOK, NEW e \in edges
  PROVE  e[1] \in Vertex /\ e[2] \in Vertex /\ e[1] < e[2]
BY BfsAssumption DEF TypeOK, Pairs

(* What appending an unseen variable does to sub_vars.                     *)
LEMMA PushKeeps ==
  ASSUME TypeOK, SeenIsQueue, Distinct, NEW v \in Vertex, v \notin seen,
         queueTop < sub_qubo_size, Push(v)
  PROVE  /\ queue' \in Seq(Vertex) /\ queueTop' = queueTop + 1
         /\ queueTop' <= sub_qubo_size
         /\ \A a \in 1 .. queueTop : queue'[a] = queue[a]
         /\ queue'[queueTop + 1] = v
         /\ seen' \subseteq Vertex /\ SeenIsQueue' /\ Distinct'
<1> USE DEF Push, queueTop
<1>1. queue \in Seq(Vertex) /\ queueTop \in Nat /\ sub_qubo_size \in Int
  BY BfsAssumption DEF TypeOK
<1>2. /\ queue' \in Seq(Vertex) /\ queueTop' = queueTop + 1
      /\ queue'[queueTop + 1] = v
      /\ \A a \in 1 .. queueTop : queue'[a] = queue[a]
  BY <1>1
<1>3. queueTop' <= sub_qubo_size
  BY <1>1, <1>2
<1>4. seen' \subseteq Vertex
  BY DEF TypeOK
<1>5. SeenIsQueue'
  <2>1. 1 .. queueTop' = (1 .. queueTop) \cup {queueTop + 1}
    BY <1>1, <1>2
  <2> QED BY <1>2, <2>1 DEF SeenIsQueue
<1>6. Distinct'
  <2> SUFFICES ASSUME NEW a \in 1 .. queueTop', NEW b \in 1 .. queueTop',
                      queue'[a] = queue'[b]
               PROVE  a = b
    BY DEF Distinct
  <2>1. \A c \in 1 .. queueTop : queue[c] # v
    BY DEF SeenIsQueue
  <2>2. /\ a \in 1 .. queueTop \/ a = queueTop + 1
        /\ b \in 1 .. queueTop \/ b = queueTop + 1
    BY <1>1, <1>2
  <2> QED BY <1>2, <2>1, <2>2 DEF Distinct
<1> QED BY <1>2, <1>3, <1>4, <1>5, <1>6

(* Appending a variable that is a root or coupled to one before it keeps   *)
(* the traversal connected.                                                *)
LEMMA PushConnected ==
  ASSUME TypeOK, Connected, NEW v, queueTop' = queueTop + 1,
         \A a \in 1 .. queueTop : queue'[a] = queue[a],
         queue'[queueTop + 1] = v, edges' = edges, roots \subseteq roots',
         \/ v \in roots'
         \/ \E a \in 1 .. queueTop : <<queue[a], v>> \in edges
  PROVE  Connected'
<1> SUFFICES ASSUME NEW b \in 1 .. queueTop'
             PROVE  \/ queue'[b] \in roots'
                    \/ \E a \in 1 .. b - 1 : <<queue'[a], queue'[b]>> \in edges
  BY DEF Connected
<1>1. queueTop \in Nat
  BY DEF TypeOK, queueTop
<1>2. CASE b = queueTop + 1
  <2>1. 1 .. b - 1 = 1 .. queueTop
    BY <1>1, <1>2
  <2> QED BY <1>2, <2>1
<1>3. CASE b \in 1 .. queueTop
  <2>1. \A a \in 1 .. b - 1 : a \in 1 .. queueTop
    BY <1>1, <1>3
  <2> QED BY <1>3, <2>1 DEF Connected
<1> QED BY <1>1, <1>2, <1>3

LEMMA InitInv == Init => Inv
<1> SUFFICES ASSUME Init PROVE Inv
  OBVIOUS
<1> USE BfsAssumption DEF Init, queueTop
<1>1. TypeOK
  BY DEF TypeOK, Vertex
<1> QED BY <1>1 DEF Inv, SeenIsQueue, Control, RowsRead, Distinct, Connected

(* Reading one entry: the vertex of the column joins the sub-problem or    *)
(* not (util.cc:815-824).                                                  *)
LEMMA ScanInv == Inv /\ Scan => Inv'
<1> SUFFICES ASSUME Inv, Scan PROVE Inv'
  OBVIOUS
<1> USE DEF Inv
<1>1. /\ queueTop \in Nat /\ queueBot \in 1 .. queueTop /\ qubo_size \in Nat
      /\ sub_qubo_size \in 1 .. qubo_size /\ queueTop < sub_qubo_size
      /\ j \in 0 .. qubo_size - 1 /\ queue[queueBot] = curVertex /\ pc = "scan"
      /\ \A a \in 1 .. queueTop : queue[a] \in Vertex
  BY BfsAssumption DEF TypeOK, Control, Scan, queueTop
<1>2. /\ j' = j + 1 /\ UNCHANGED <<edges, sub_qubo_size, queueBot, curVertex, roots>>
  BY DEF Scan, given
<1>3. CASE Joins(curVertex, j)
  <2>1. Push(j) /\ pc' = IF Full(queue') THEN "while" ELSE "scan"
    BY <1>3 DEF Scan
  <2>2. j \in Vertex /\ j \notin seen /\ <<curVertex, j>> \in edges
    BY <1>1, <1>3 DEF Vertex, Joins
  <2>3. /\ queue' \in Seq(Vertex) /\ queueTop' = queueTop + 1
        /\ queueTop' <= sub_qubo_size
        /\ \A a \in 1 .. queueTop : queue'[a] = queue[a]
        /\ queue'[queueTop + 1] = j
        /\ seen' \subseteq Vertex /\ SeenIsQueue' /\ Distinct'
    BY <1>1, <2>1, <2>2, PushKeeps
  <2>4. \/ pc' = "while" /\ queueTop' = sub_qubo_size
        \/ pc' = "scan" /\ queueTop' < sub_qubo_size
    BY <1>1, <2>1, <2>3 DEF Full, queueTop
  <2>5. TypeOK'
    BY <1>1, <1>2, <2>3, <2>4 DEF TypeOK
  <2>6. Control'
    BY <1>1, <1>2, <2>3, <2>4 DEF Control
  <2>7. Connected'
    <3>1. \E a \in 1 .. queueTop : <<queue[a], j>> \in edges
      BY <1>1, <2>2
    <3> QED BY <1>2, <2>3, <3>1, PushConnected
  <2>8. RowsRead'
    <3> SUFFICES ASSUME NEW a \in 1 .. queueBot, NEW e \in edges,
                        e[1] = queue'[a], queueTop' # sub_qubo_size
                 PROVE  \/ e[2] \in seen'
                        \/ pc' = "scan" /\ a = queueBot /\ e[2] >= j'
      BY <1>2 DEF RowsRead
    <3>1. e[2] \in seen \/ (a = queueBot /\ e[2] >= j)
      BY <1>1, <2>3 DEF RowsRead
    <3>2. e[2] \in Int
      BY EdgeIsPair DEF Vertex
    <3>3. j \in seen' /\ seen \subseteq seen'
      BY <2>1 DEF Push
    <3> QED BY <1>1, <1>2, <2>4, <3>1, <3>2, <3>3
  <2> QED BY <1>1, <1>2, <2>3, <2>4, <2>5, <2>6, <2>7, <2>8
<1>4. CASE ~ Joins(curVertex, j)
  <2>1. UNCHANGED <<queue, seen, pc>>
    BY <1>4 DEF Scan
  <2>2. TypeOK'
    BY <1>1, <1>2, <2>1 DEF TypeOK, queueTop
  <2>3. SeenIsQueue' /\ Control' /\ Distinct' /\ Connected'
    BY <1>2, <2>1 DEF SeenIsQueue, Control, Distinct, Connected, queueTop
  <2>4. RowsRead'
    <3> SUFFICES ASSUME NEW a \in 1 .. queueBot, NEW e \in edges,
                        e[1] = queue[a], queueTop # sub_qubo_size
                 PROVE  e[2] \in seen \/ (a = queueBot /\ e[2] >= j + 1)
      BY <1>1, <1>2, <2>1 DEF RowsRead, queueTop
    <3>1. e[2] \in seen \/ (a = queueBot /\ e[2] >= j)
      BY <1>1 DEF RowsRead
    <3>2. e[2] \in Int /\ e = <<e[1], e[2]>>
      BY EdgeIsPair, BfsAssumption DEF Vertex, TypeOK, Pairs
    <3>3. a = queueBot /\ e[2] = j => e[2] \in seen
      BY <1>1, <1>4, <3>2 DEF Joins
    <3> QED BY <1>1, <3>1, <3>2, <3>3
  <2> QED BY <1>1, <2>1, <2>2, <2>3, <2>4
<1> QED BY <1>3, <1>4

(* A variable picked at random starts a component (util.cc:801-804,        *)
(* 831-838).                                                               *)
LEMMA RootInv ==
  ASSUME Inv, NEW v \in Vertex, v \notin seen, queueTop < sub_qubo_size, Push(v),
         pc # "scan", roots' = roots \cup {v}, pc' = "while",
         UNCHANGED <<given, queueBot, curVertex, j>>
  PROVE  Inv'
<1> USE DEF Inv
<1>1. /\ queueTop \in Nat /\ queueBot \in 0 .. queueTop
      /\ sub_qubo_size \in Nat
  BY BfsAssumption DEF TypeOK, queueTop
<1>2. UNCHANGED <<edges, sub_qubo_size, queueBot, curVertex, j>>
  BY DEF given
<1>3. /\ queue' \in Seq(Vertex) /\ queueTop' = queueTop + 1
      /\ queueTop' <= sub_qubo_size
      /\ \A a \in 1 .. queueTop : queue'[a] = queue[a]
      /\ queue'[queueTop + 1] = v
      /\ seen' \subseteq Vertex /\ SeenIsQueue' /\ Distinct'
  BY PushKeeps
<1>4. TypeOK'
  BY <1>1, <1>2, <1>3 DEF TypeOK
<1>5. Control'
  BY DEF Control
<1>6. Connected'
  BY <1>2, <1>3, PushConnected
<1>7. RowsRead'
  <2> SUFFICES ASSUME NEW a \in 1 .. queueBot, NEW e \in edges, e[1] = queue'[a]
               PROVE  e[2] \in seen'
    BY <1>2 DEF RowsRead
  <2>1. e[1] = queue[a] /\ queueTop # sub_qubo_size
    BY <1>1, <1>3
  <2> QED BY <2>1 DEF RowsRead, Push
<1> QED BY <1>3, <1>4, <1>5, <1>6, <1>7

LEMMA StepInv == Inv /\ [Next]_vars => Inv'
<1> SUFFICES ASSUME Inv, [Next]_vars PROVE Inv'
  OBVIOUS
<1>0. /\ TypeOK /\ SeenIsQueue /\ Control /\ RowsRead /\ Distinct /\ Connected
      /\ queueTop \in Nat /\ queueBot \in 0 .. queueTop /\ qubo_size \in Nat \ {0}
      /\ sub_qubo_size \in 1 .. qubo_size /\ queueTop <= sub_qubo_size
      /\ \A a \in 1 .. queueTop : queue[a] \in Vertex
      /\ pc = "done" => queueTop = sub_qubo_size
  BY BfsAssumption DEF Inv, TypeOK, queueTop
<1>1. CASE Start
  <2>1. PICK v \in Vertex : Push(v) /\ roots' = {v}
    BY <1>1 DEF Start
  <2>2. queueTop = 0 /\ roots = {} /\ pc = "start"
    BY <1>0, <1>1 DEF Start, Control, queueTop
  <2>3. v \notin seen
    BY <1>0, <2>2 DEF SeenIsQueue
  <2> QED BY <1>0, <1>1, <2>1, <2>2, <2>3, RootInv DEF Start
<1>2. CASE Dequeue
  <2>1. /\ queueBot' = queueBot + 1 /\ curVertex' = queue[queueBot + 1]
        /\ j' = curVertex' + 1 /\ pc' = "scan" /\ pc = "while"
        /\ queueBot < queueTop /\ queueTop < sub_qubo_size
        /\ UNCHANGED <<edges, sub_qubo_size, queue, seen, roots, queueTop>>
    BY <1>2 DEF Dequeue, FirstColumn, given, queueTop
  <2>2. curVertex' \in Vertex /\ queueBot' \in 1 .. queueTop
    BY <1>0, <2>1
  <2>3. j' \in 0 .. qubo_size
    BY <1>0, <2>1, <2>2 DEF Vertex
  <2>4. TypeOK'
    BY <1>0, <2>1, <2>2, <2>3 DEF TypeOK
  <2>5. Control'
    BY <2>1, <2>2 DEF Control
  <2>6. RowsRead'
    <3> SUFFICES ASSUME NEW a \in 1 .. queueBot + 1, NEW e \in edges, e[1] = queue[a]
                 PROVE  e[2] \in seen \/ (a = queueBot + 1 /\ e[2] >= j')
      BY <2>1 DEF RowsRead
    <3>1. CASE a \in 1 .. queueBot
      BY <1>0, <2>1, <3>1 DEF RowsRead
    <3>2. CASE a = queueBot + 1
      BY <1>0, <2>1, <3>2, EdgeIsPair DEF Vertex
    <3> QED BY <1>0, <3>1, <3>2
  <2> QED BY <1>0, <2>1, <2>4, <2>5, <2>6 DEF Inv, SeenIsQueue, Distinct, Connected
<1>3. CASE Scan
  BY <1>3, ScanInv
<1>4. CASE EndRow
  <2>1. /\ pc' = "while" /\ pc = "scan" /\ j >= qubo_size
        /\ UNCHANGED <<edges, sub_qubo_size, queue, queueBot, seen, curVertex, j, roots, queueTop>>
    BY <1>4 DEF EndRow, given, queueTop
  <2>2. \A e \in edges : ~ (e[2] >= j)
    BY <1>0, <2>1, EdgeIsPair DEF Vertex, TypeOK
  <2>3. RowsRead'
    BY <1>0, <2>1, <2>2 DEF RowsRead
  <2> QED BY <1>0, <2>1, <2>3 DEF Inv, TypeOK, Control, SeenIsQueue, Distinct, Connected
<1>5. CASE Exhausted \/ Return
  <2>1. /\ pc' \in {"draw", "done"} /\ pc = "while"
        /\ pc' = "draw" => queueTop < sub_qubo_size /\ queueBot = queueTop
        /\ pc' = "done" => queueTop >= sub_qubo_size
        /\ UNCHANGED <<edges, sub_qubo_size, queue, queueBot, seen, curVertex, j, roots, queueTop>>
    BY <1>5 DEF Exhausted, Return, given, queueTop
  <2>2. RowsRead'
    BY <1>0, <2>1 DEF RowsRead
  <2> QED BY <1>0, <2>1, <2>2 DEF Inv, TypeOK, Control, SeenIsQueue, Distinct, Connected
<1>6. ASSUME NEW v \in Vertex, Draw(v) PROVE Inv'
  <2>1. /\ pc = "draw" /\ curVertex' = v
        /\ UNCHANGED <<edges, sub_qubo_size, queue, queueBot, seen, j, pc, roots, queueTop>>
    BY <1>6 DEF Draw, given, queueTop
  <2>2. RowsRead'
    BY <1>0, <2>1 DEF RowsRead
  <2> QED BY <1>0, <2>1, <2>2 DEF Inv, TypeOK, Control, SeenIsQueue, Distinct, Connected
<1>7. CASE NewRoot
  BY <1>0, <1>7, RootInv DEF NewRoot, Control, TypeOK
<1>8. CASE Done \/ UNCHANGED vars
  <2>1. UNCHANGED <<edges, sub_qubo_size, queue, queueBot, seen, curVertex, j, pc, roots, queueTop>>
    BY <1>8 DEF Done, vars, given, queueTop
  <2> QED BY <1>0, <2>1 DEF Inv, TypeOK, Control, RowsRead, SeenIsQueue, Distinct, Connected
<1> QED BY <1>1, <1>2, <1>3, <1>4, <1>5, <1>6, <1>7, <1>8 DEF Next

(* Every variable of the traversal keeps its type, sub_vars its bound.     *)
THEOREM BfsTypeCorrect == Spec => []TypeOK
<1>1. Inv => TypeOK
  BY DEF Inv
<1> QED BY <1>1, InitInv, StepInv, PTL DEF Spec

(* The variables of the sub-problem are distinct, fit sub_vars, and are as *)
(* many as asked for (util.cc:797-840).                                    *)
THEOREM CompleteAndDistinct == Spec => []SubProblemComplete
<1>1. Inv => SubProblemComplete
  BY DEF Inv, TypeOK, SubProblemComplete
<1> QED BY <1>1, InitInv, StepInv, PTL DEF Spec

(* A variable that was not picked at random is coupled to an earlier one.  *)
THEOREM TraversalConnected == Spec => []Connected
<1>1. Inv => Connected
  BY DEF Inv
<1> QED BY <1>1, InitInv, StepInv, PTL DEF Spec

(* A variable is drawn at random only when the couplers of the seen ones   *)
(* lead nowhere new in the order they are read (util.cc:811-838).          *)
THEOREM DrawsWhenExhausted == Spec => []ForwardExhausted
<1>1. Inv => ForwardExhausted
  <2> SUFFICES ASSUME Inv, pc = "draw", NEW e \in edges, e[1] \in seen
               PROVE  e[2] \in seen
    BY DEF ForwardExhausted
  <2>1. PICK a \in 1 .. queueTop : e[1] = queue[a]
    BY DEF Inv, SeenIsQueue
  <2>2. queueBot = queueTop /\ queueTop < sub_qubo_size
    BY DEF Inv, Control
  <2>3. queueTop # sub_qubo_size
    BY <2>2, BfsAssumption DEF Inv, TypeOK, queueTop
  <2> QED BY <2>1, <2>2, <2>3 DEF Inv, RowsRead
<1> QED BY <1>1, InitInv, StepInv, PTL DEF Spec
================================================================================
