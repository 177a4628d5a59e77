--------------------------- MODULE PriorityQueue ---------------------------
(***************************************************************************)
(* What src/heap.h promises: a bounded bag of nodes, each a thread with    *)
(* its priority, from which the node of the smallest priority is taken.    *)
(* Nothing is said about arrays, parents or the order of equal nodes.      *)
(*                                                                         *)
(* `result' is the value returned by the last call, `out' the node it      *)
(* wrote through its out parameter.                                        *)
(***************************************************************************)
EXTENDS Integers, BagsExt, Bags

CONSTANTS Threads,      \* the TCBs a node can point to
          PriorityOf,   \* the priority of each
          Capacity      \* how many nodes the queue holds

VARIABLES queue, out, result

pqVars == <<queue, out, result>>

NodeOf(t) == [priority |-> PriorityOf[t], tcb |-> t]

(* The nodes no other node has precedence over. *)
First == {n \in BagToSet(queue) :
            \A m \in BagToSet(queue) : n.priority <= m.priority}

Init ==
  /\ queue = EmptyBag
  /\ result = 0

(* heap_insert: 0 and one more node, or -1 and no change. *)
Insert(t) ==
  \/ /\ BagCardinality(queue) < Capacity
     /\ queue' = BagAdd(queue, NodeOf(t))
     /\ result' = 0
     /\ UNCHANGED out
  \/ /\ BagCardinality(queue) >= Capacity
     /\ result' = -1
     /\ UNCHANGED <<queue, out>>

(* heap_remove: the caller gets a node of the smallest priority. *)
Remove ==
  \/ \E n \in First :
       /\ out' = n
       /\ queue' = BagRemove(queue, n)
       /\ result' = 0
  \/ /\ queue = EmptyBag
     /\ result' = -1
     /\ UNCHANGED <<queue, out>>

(* heap_peek: the same node, left where it is. *)
Peek ==
  \/ \E n \in First : out' = n /\ result' = 0 /\ UNCHANGED queue
  \/ queue = EmptyBag /\ result' = -1 /\ UNCHANGED <<queue, out>>

Next == (\E t \in Threads : Insert(t)) \/ Remove \/ Peek

Spec == Init /\ [][Next]_pqVars
=============================================================================
