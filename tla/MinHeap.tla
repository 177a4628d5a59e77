------------------------------ MODULE MinHeap ------------------------------
(***************************************************************************)
(* The ready queue of src/heap.c: a binary min-heap in a static array, one *)
(* step per iteration of the loops of sift_up and sift_down.               *)
(*                                                                         *)
(* The nodes are data[0], ..., data[size - 1]; cells from size on keep     *)
(* whatever was last written to them.  heap_insert counts its node only    *)
(* after sift_up, so while pc = "sift_up" the heap is data[0 .. size].     *)
(***************************************************************************)
EXTENDS Integers, FiniteSets

CONSTANTS Threads,      \* the TCBs
          PriorityOf,   \* thread->priority, set before it is inserted
          MAX_THREADS,  \* length of global_heap_data
          Requested,    \* the argument of heap_create
          NoThread      \* the NULL of a cell never written

Capacity == IF Requested = 0 THEN 8 ELSE Requested

ASSUME HeapAssumption ==
  /\ MAX_THREADS \in Nat \ {0}
  /\ Requested \in Nat
  /\ PriorityOf \in [Threads -> 0 .. 255]
  /\ NoThread \notin Threads

(* The array and, if the capacity exceeds it, the memory that follows it.  *)
Cells == 0 .. (IF Capacity > MAX_THREADS THEN Capacity ELSE MAX_THREADS) - 1

NodeOf(t) == [priority |-> PriorityOf[t], tcb |-> t]
Node == {NodeOf(t) : t \in Threads}
ZeroNode == [priority |-> 0, tcb |-> NoThread]

VARIABLES
  data,     \* the array of nodes
  size,     \* h->size
  pc,       \* "idle", or the loop that is running
  idx,      \* the node that loop is moving
  out,      \* the caller's node, written by heap_remove and heap_peek
  result    \* what the current or last call returns

vars == <<data, size, pc, idx, out, result>>

Parent(i) == (i - 1) \div 2
Left(i) == 2 * i + 1
Right(i) == Left(i) + 1

Less(i, j) == data[i].priority < data[j].priority

(* Mutant: swap_node without its temporary. *)
SwapNodeNoTemp(i, j) == data' = [data EXCEPT ![i] = data[j]]

SwapNode(i, j) == data' = [data EXCEPT ![i] = data[j], ![j] = data[i]]

(* Mutant: the answer of the realloc that is commented out. *)
HeapResizeGrants(newcap) == 0

(* heap_resize: the array is static, every request is refused. *)
HeapResize(newcap) == IF newcap > MAX_THREADS THEN -1 ELSE -3

(* heap_create, the call that precedes all others. *)
Init ==
  /\ data = [i \in Cells |-> ZeroNode]
  /\ size = 0
  /\ pc = "idle"
  /\ idx = 0
  /\ out = ZeroNode
  /\ result = 0

-----------------------------------------------------------------------------
(* heap_insert *)

HasRoom == size < Capacity \/ HeapResize(2 * Capacity) = 0

HeapInsert(t) ==
  /\ pc = "idle"
  /\ HasRoom
  /\ data' = [data EXCEPT ![size] = NodeOf(t)]
  /\ idx' = size
  /\ pc' = "sift_up"
  /\ result' = 0
  /\ UNCHANGED <<size, out>>

HeapInsertFull(t) ==
  /\ pc = "idle"
  /\ ~HasRoom
  /\ result' = -1
  /\ UNCHANGED <<data, size, pc, idx, out>>

(* Mutant: the loop stops one node below the root. *)
BelongsHigherOffByOne == idx > 1 /\ Less(idx, Parent(idx))

BelongsHigher == idx > 0 /\ Less(idx, Parent(idx))

SiftUp ==
  /\ pc = "sift_up"
  /\ BelongsHigher
  /\ SwapNode(Parent(idx), idx)
  /\ idx' = Parent(idx)
  /\ UNCHANGED <<size, pc, out, result>>

SiftUpDone ==
  /\ pc = "sift_up"
  /\ ~BelongsHigher
  /\ size' = size + 1
  /\ pc' = "idle"
  /\ idx' = 0
  /\ UNCHANGED <<data, out, result>>

-----------------------------------------------------------------------------
(* heap_remove.  Its request to shrink is refused like any other and its   *)
(* answer ignored, so it changes nothing.                                  *)

HeapRemove ==
  /\ pc = "idle"
  /\ size > 0
  /\ out' = data[0]
  /\ data' = [data EXCEPT ![0] = data[size - 1]]
  /\ size' = size - 1
  /\ pc' = IF size' > 0 THEN "sift_down" ELSE "idle"
  /\ idx' = 0
  /\ result' = 0

HeapRemoveEmpty ==
  /\ pc = "idle"
  /\ size = 0
  /\ result' = -1
  /\ UNCHANGED <<data, size, pc, idx, out>>

(* `smallest' of sift_down: idx, or the child that must replace it. *)
Smallest ==
  LET l == Left(idx)
      r == Right(idx)
      s == IF l < size /\ Less(l, idx) THEN l ELSE idx
  IN  IF r < size /\ Less(r, s) THEN r ELSE s

SiftDown ==
  /\ pc = "sift_down"
  /\ Smallest # idx
  /\ SwapNode(Smallest, idx)
  /\ idx' = Smallest
  /\ UNCHANGED <<size, pc, out, result>>

(* Mutant: the loop has no break, and ends below the last parent. *)
SiftDownDoneAtLeaf ==
  /\ pc = "sift_down"
  /\ Left(idx) >= size
  /\ pc' = "idle"
  /\ idx' = 0
  /\ UNCHANGED <<data, size, out, result>>

SiftDownDone ==
  /\ pc = "sift_down"
  /\ Smallest = idx
  /\ pc' = "idle"
  /\ idx' = 0
  /\ UNCHANGED <<data, size, out, result>>

-----------------------------------------------------------------------------
(* heap_peek *)

HeapPeek ==
  /\ pc = "idle"
  /\ size > 0
  /\ out' = data[0]
  /\ result' = 0
  /\ UNCHANGED <<data, size, pc, idx>>

HeapPeekEmpty ==
  /\ pc = "idle"
  /\ size = 0
  /\ result' = -1
  /\ UNCHANGED <<data, size, pc, idx, out>>

-----------------------------------------------------------------------------
Loop == SiftUp \/ SiftUpDone \/ SiftDown \/ SiftDownDone

Next ==
  \/ \E t \in Threads : HeapInsert(t) \/ HeapInsertFull(t)
  \/ HeapRemove \/ HeapRemoveEmpty
  \/ HeapPeek \/ HeapPeekEmpty
  \/ Loop

Spec == Init /\ [][Next]_vars

(* A call that has started runs to its end; calls need never be made. *)
FairSpec == Spec /\ WF_vars(Loop)

-----------------------------------------------------------------------------
(* Properties *)

(* How many cells hold nodes of the heap, the one being inserted included. *)
Used == IF pc = "sift_up" THEN size + 1 ELSE size

(* Every variable of the heap stays in its range, and the cells that count *)
(* hold threads, never the NULL of a cell not yet written (heap_insert and *)
(* heap_remove).                                                           *)
TypeOK ==
  /\ data \in [Cells -> Node \cup {ZeroNode}]
  /\ size \in 0 .. Capacity
  /\ pc \in {"idle", "sift_up", "sift_down"}
  /\ idx \in Cells
  /\ out \in Node \cup {ZeroNode}
  /\ result \in {0, -1}
  /\ \A i \in 0 .. Used - 1 : data[i] \in Node

(* No call writes past global_heap_data (heap_insert's data[h->size]).     *)
WithinArray == Used <= MAX_THREADS

(* Between calls no node precedes its parent: what sift_up and sift_down   *)
(* are there to restore.                                                   *)
HeapOrdered ==
  pc = "idle" => \A i \in 1 .. size - 1 : ~Less(i, Parent(i))

(* sift_up: only the node it moves may precede its parent, and the nodes   *)
(* below that one do not precede the one above it.                         *)
SiftUpInv ==
  pc = "sift_up" =>
    /\ idx <= size /\ size < Capacity
    /\ \A i \in 1 .. size : i # idx => ~Less(i, Parent(i))
    /\ idx > 0 => \A i \in 1 .. size :
                     Parent(i) = idx => ~Less(i, Parent(idx))

(* sift_down: only the children of the node it moves may precede their     *)
(* parent, and they do not precede their grandparent.                      *)
SiftDownInv ==
  pc = "sift_down" =>
    /\ idx < size
    /\ \A i \in 1 .. size - 1 : Parent(i) # idx => ~Less(i, Parent(i))
    /\ idx > 0 => \A i \in 1 .. size - 1 :
                     Parent(i) = idx => ~Less(i, Parent(idx))

(* The heap is ordered between calls, and inside a call out of order at    *)
(* the node being moved only (the while of sift_up, the for of sift_down). *)
LoopInv == HeapOrdered /\ SiftUpInv /\ SiftDownInv

(* Between calls data[0], which heap_remove and heap_peek hand out, has    *)
(* the smallest priority of all the nodes in the heap.                     *)
RootIsFirst ==
  pc = "idle" => \A i \in 0 .. size - 1 : ~Less(i, 0)

(* The array is an implementation of the bounded priority queue: it loses  *)
(* and invents no node, returns a smallest one, and refuses exactly when   *)
(* full or empty.                                                          *)
Contents ==
  LET nodes == {data[i] : i \in 0 .. Used - 1}
  IN  [n \in nodes |-> Cardinality({i \in 0 .. Used - 1 : data[i] = n})]

PQ == INSTANCE PriorityQueue WITH queue <- Contents

(* Every call of src/heap.c behaves as its counterpart of heap.h.          *)
ImplementsPriorityQueue == PQ!Spec

(* The loops of sift_up and sift_down end: every call returns.             *)
CallsReturn == (pc # "idle") ~> (pc = "idle")
=============================================================================
