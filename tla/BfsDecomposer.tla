----------------------------- MODULE BfsDecomposer -----------------------------
(***************************************************************************)
(* bfs_get_new_sub_qubo() of src/util.cc: choose the variables of a        *)
(* sub-problem (-a b) by a breadth-first traversal of the QUBO's graph     *)
(* from a random variable.  The output array sub_vars is the queue.        *)
(***************************************************************************)
EXTENDS Integers, Sequences, FiniteSets

CONSTANTS qubo_size,  \* variables of the QUBO
          Graphs      \* the sets of pairs <<i, j>>, i < j, with qubo[i][j] # 0

Vertex == 0 .. qubo_size - 1
Pairs  == {e \in Vertex \X Vertex : e[1] < e[2]}

ASSUME BfsAssumption ==
  /\ qubo_size \in Nat \ {0}
  /\ Graphs \subseteq SUBSET Pairs

VARIABLES
  edges,          \* the couplers of the QUBO
  sub_qubo_size,  \* variables of the sub-problem
  queue,          \* sub_vars[0 .. queueTop - 1]
  queueBot,       \* how many of them have been taken from the queue
  seen,
  curVertex,      \* whose row is being read
  j,              \* the column to read next
  pc,
  roots           \* history: the variables picked at random

given == <<edges, sub_qubo_size>>
vars == <<given, queue, queueBot, seen, curVertex, j, pc, roots>>

queueTop == Len(queue)
Push_Unmarked(v) == queue' = Append(queue, v) /\ seen' = seen
Push(v) == queue' = Append(queue, v) /\ seen' = seen \cup {v}
------------------------------------------------------------------------------
Init ==
  /\ edges \in Graphs
  /\ sub_qubo_size \in 1 .. qubo_size
  /\ queue = <<>> /\ queueBot = 0 /\ seen = {} /\ roots = {}
  /\ curVertex \in Vertex /\ j = 0
  /\ pc = "start"

Start ==
  /\ pc = "start"
  /\ \E v \in Vertex : Push(v) /\ roots' = {v}
  /\ pc' = "while"
  /\ UNCHANGED <<given, queueBot, curVertex, j>>

FirstColumn_OffByOne(v) == v + 2
FirstColumn(v) == v + 1

(* Take a vertex from the queue; its row is read from the diagonal on.     *)
Dequeue ==
  /\ pc = "while" /\ queueTop < sub_qubo_size /\ queueBot < queueTop
  /\ curVertex' = queue[queueBot + 1]
  /\ queueBot' = queueBot + 1
  /\ j' = FirstColumn(curVertex')
  /\ pc' = "scan"
  /\ UNCHANGED <<given, queue, seen, roots>>

Joins_AnyUnseen(v, w) == w \notin seen
Joins(v, w) == <<v, w>> \in edges /\ w \notin seen

Full_Late(q) == Len(q) > sub_qubo_size
Full(q) == Len(q) >= sub_qubo_size

(* Read one entry of the row, and leave it when the sub-problem is full.   *)
Scan ==
  /\ pc = "scan" /\ j < qubo_size
  /\ IF Joins(curVertex, j)
       THEN /\ Push(j)
            /\ pc' = IF Full(queue') THEN "while" ELSE "scan"
       ELSE UNCHANGED <<queue, seen, pc>>
  /\ j' = j + 1
  /\ UNCHANGED <<given, queueBot, curVertex, roots>>

EndRow ==
  /\ pc = "scan" /\ j >= qubo_size
  /\ pc' = "while"
  /\ UNCHANGED <<given, queue, queueBot, seen, curVertex, j, roots>>

(* The queue is empty: draw variables until one has not been seen.         *)
Exhausted ==
  /\ pc = "while" /\ queueTop < sub_qubo_size /\ queueBot = queueTop
  /\ pc' = "draw"
  /\ UNCHANGED <<given, queue, queueBot, seen, curVertex, j, roots>>

Draw_OfQueue(v) ==
  /\ pc = "draw" /\ curVertex \in seen
  /\ v < queueTop
  /\ curVertex' = v
  /\ UNCHANGED <<given, queue, queueBot, seen, j, pc, roots>>
Draw(v) ==
  /\ pc = "draw" /\ curVertex \in seen
  /\ curVertex' = v
  /\ UNCHANGED <<given, queue, queueBot, seen, j, pc, roots>>

NewRoot ==
  /\ pc = "draw" /\ curVertex \notin seen
  /\ Push(curVertex) /\ roots' = roots \cup {curVertex}
  /\ pc' = "while"
  /\ UNCHANGED <<given, queueBot, curVertex, j>>

Return ==
  /\ pc = "while" /\ queueTop >= sub_qubo_size
  /\ pc' = "done"
  /\ UNCHANGED <<given, queue, queueBot, seen, curVertex, j, roots>>

Done == pc = "done" /\ UNCHANGED vars

Next == \/ Start \/ Dequeue \/ Scan \/ EndRow \/ Exhausted \/ NewRoot \/ Return \/ Done
        \/ \E v \in Vertex : Draw(v)

(* One thread runs the loops; rand() keeps none of its values back.        *)
Spec == /\ Init /\ [][Next]_vars /\ WF_vars(Next)
        /\ \A v \in 0 .. qubo_size - 1 : WF_vars(Draw(v))
------------------------------------------------------------------------------
(* Every variable has its type (util.cc:798-840).                          *)
TypeOK ==
  /\ edges \in Graphs
  /\ sub_qubo_size \in 1 .. qubo_size
  /\ queue \in Seq(Vertex) /\ queueTop <= sub_qubo_size
  /\ queueBot \in 0 .. queueTop
  /\ seen \subseteq Vertex /\ roots \subseteq Vertex
  /\ curVertex \in Vertex /\ j \in 0 .. qubo_size
  /\ pc \in {"start", "while", "scan", "draw", "done"}

(* The variables handed to reduce(), which needs them distinct, never      *)
(* repeat and never overrun sub_vars, and there are as many as asked for.  *)
Distinct == \A a, b \in 1 .. queueTop : queue[a] = queue[b] => a = b
SubProblemComplete ==
  /\ queueTop <= sub_qubo_size /\ Distinct
  /\ pc = "done" => queueTop = sub_qubo_size

(* A variable that was not picked at random is coupled to one before it in *)
(* the queue: the sub-problem is a traversal of the graph (util.cc:794).   *)
Connected ==
  \A b \in 1 .. queueTop :
    queue[b] \in roots \/ \E a \in 1 .. b - 1 : <<queue[a], queue[b]>> \in edges

(* The traversal gives up a component and draws at random only when every  *)
(* coupler of a seen variable to a later one leads to a seen variable.     *)
ForwardExhausted ==
  pc = "draw" => \A e \in edges : e[1] \in seen => e[2] \in seen

(* The sub-problem is complete in the end, however unconnected the graph.  *)
Terminates == <>(pc = "done")
==============================================================================
