--------------------------- MODULE MinHeap_proofs ---------------------------
(***************************************************************************)
(* Proofs about module MinHeap, for an array of any length, a heap of any  *)
(* capacity and any set of threads.                                        *)
(***************************************************************************)
EXTENDS MinHeap, Lemmas

-----------------------------------------------------------------------------
(* Positions *)

(* Every position but the root has a parent before it, and is one of that  *)
(* parent's two children. *)
LEMMA ParentFacts ==
  ASSUME NEW i \in Nat \ {0}
  PROVE  /\ Parent(i) \in Nat
         /\ Parent(i) < i
         /\ i = Left(Parent(i)) \/ i = Right(Parent(i))
BY DEF Parent, Left, Right

(* A node's children have it as their parent. *)
LEMMA ChildFacts ==
  ASSUME NEW i \in Nat
  PROVE  /\ Left(i) \in Nat /\ Left(i) > i /\ Parent(Left(i)) = i
         /\ Right(i) \in Nat /\ Right(i) > Left(i) /\ Parent(Right(i)) = i
BY DEF Parent, Left, Right

(* The heap has room for at least one node, and the array for its nodes. *)
LEMMA Sizes ==
  /\ Capacity \in Nat \ {0}
  /\ Cells \subseteq Nat
  /\ \A i \in Nat : i < Capacity => i \in Cells
  /\ 0 \in Cells
BY HeapAssumption DEF Capacity, Cells

(* Priorities are numbers, so of any two nodes one may precede the other. *)
LEMMA NodePriority ==
  ASSUME NEW n \in Node \cup {ZeroNode}
  PROVE  n.priority \in 0 .. 255
BY HeapAssumption DEF Node, NodeOf, ZeroNode

-----------------------------------------------------------------------------
(* The invariant *)

HeapInv == TypeOK /\ LoopInv

(* The priority at a position. *)
At(i) == data[i].priority

(* The priority there after the step. *)
New(i) == data'[i].priority

(* Priorities of the cells can be compared as numbers. *)
LEMMA AtNat ==
  ASSUME TypeOK
  PROVE  \A i \in Cells : At(i) \in Nat
BY NodePriority DEF TypeOK, At

(* The array just created is empty, and ordered. *)
LEMMA InitHeapInv == Init => HeapInv
<1> SUFFICES ASSUME Init PROVE HeapInv
  OBVIOUS
<1> USE DEF Init
<1>1. TypeOK
  BY Sizes DEF TypeOK, Used
<1>2. LoopInv
  BY DEF LoopInv, HeapOrdered, SiftUpInv, SiftDownInv
<1> QED BY <1>1, <1>2 DEF HeapInv

(* A call of heap_insert leaves the new node at the end, the rest ordered. *)
LEMMA HeapInsertStep ==
  ASSUME HeapInv, NEW t \in Threads, HeapInsert(t)
  PROVE  HeapInv'
<1>1. /\ size < Capacity /\ size \in Nat /\ size \in Cells
      /\ pc = "idle" /\ pc' = "sift_up" /\ idx' = size /\ result' = 0
      /\ data' = [data EXCEPT ![size] = NodeOf(t)]
      /\ UNCHANGED <<size, out>>
  <2>1. size < Capacity
    BY Sizes DEF HeapInsert, HasRoom, HeapResize
  <2> QED BY <2>1, Sizes DEF HeapInsert, HeapInv, TypeOK
<1>2. TypeOK'
  <2>1. NodeOf(t) \in Node
    BY DEF Node
  <2>2. \A i \in 0 .. size : data'[i] \in Node
    BY <1>1, <2>1, Sizes DEF HeapInv, TypeOK, Used
  <2> QED BY <1>1, <2>1, <2>2 DEF HeapInv, TypeOK, Used
<1>3. SiftUpInv'
  <2>1. \A i \in 1 .. size : i # size => /\ data'[i] = data[i]
                                        /\ data'[Parent(i)] = data[Parent(i)]
    BY <1>1, ParentFacts, Sizes DEF HeapInv, TypeOK
  <2>2. \A i \in 1 .. size : i # size => ~Less(i, Parent(i))
    BY <1>1 DEF HeapInv, LoopInv, HeapOrdered
  <2>3. \A i \in 1 .. size : Parent(i) # size
    BY <1>1, ParentFacts
  <2> QED BY <1>1, <2>1, <2>2, <2>3 DEF SiftUpInv, Less
<1>4. HeapOrdered' /\ SiftDownInv'
  BY <1>1 DEF HeapOrdered, SiftDownInv
<1> QED BY <1>2, <1>3, <1>4 DEF HeapInv, LoopInv

(* One turn of sift_up: the node moved may now precede its new parent. *)
LEMMA SiftUpStep == HeapInv /\ SiftUp => HeapInv'
<1> SUFFICES ASSUME HeapInv, SiftUp PROVE HeapInv'
  OBVIOUS
<1> DEFINE par == Parent(idx)
<1>1. /\ idx \in Nat \ {0} /\ idx \in Cells /\ idx <= size
      /\ size \in Nat /\ size < Capacity
      /\ pc = "sift_up" /\ pc' = "sift_up" /\ idx' = par
      /\ At(idx) < At(par)
      /\ data' = [data EXCEPT ![par] = data[idx], ![idx] = data[par]]
      /\ UNCHANGED <<size, out, result>>
  BY Sizes DEF SiftUp, BelongsHigher, SwapNode, Less, At, HeapInv, LoopInv, SiftUpInv, TypeOK
<1>2. par \in Nat /\ par < idx /\ par \in Cells
  BY <1>1, ParentFacts, Sizes
<1>3. \A i \in 0 .. size : i \in Cells /\ At(i) \in Nat
  BY <1>1, Sizes, AtNat DEF HeapInv
<1>4. \A i \in 0 .. size : New(i) = IF i = par THEN At(idx)
                                   ELSE IF i = idx THEN At(par) ELSE At(i)
  BY <1>1, <1>2, <1>3 DEF At, New, HeapInv, TypeOK
<1>5. \A i \in 1 .. size : /\ Parent(i) \in 0 .. size /\ Parent(i) < i
                           /\ i # idx => At(Parent(i)) <= At(i)
                           /\ Parent(i) = idx => At(par) <= At(i)
  <2>1. \A i \in 1 .. size : Parent(i) \in 0 .. size /\ Parent(i) < i
    BY <1>1, ParentFacts
  <2>2. \A i \in 1 .. size : /\ i # idx => ~(At(i) < At(Parent(i)))
                             /\ Parent(i) = idx => ~(At(i) < At(par))
    BY <1>1 DEF HeapInv, LoopInv, SiftUpInv, Less, At
  <2>3. par \in 0 .. size
    BY <1>1, <1>2
  <2> QED BY <1>3, <2>1, <2>2, <2>3
<1> HIDE DEF par
<1>6. TypeOK'
  <2>1. \A i \in 0 .. size : data[i] \in Node
    BY <1>1 DEF HeapInv, TypeOK, Used
  <2>2. par \in 0 .. size /\ idx \in 0 .. size
    BY <1>1, <1>2
  <2>3. \A i \in 0 .. size : data'[i] \in Node
    BY <1>1, <1>2, <1>3, <2>1, <2>2 DEF HeapInv, TypeOK
  <2>4. data' \in [Cells -> Node \cup {ZeroNode}]
    BY <1>1, <1>2 DEF HeapInv, TypeOK
  <2>5. Used' - 1 = size
    BY <1>1 DEF Used
  <2> QED BY <1>1, <1>2, <2>3, <2>4, <2>5 DEF HeapInv, TypeOK
<1>7. \A i \in 1 .. size : i # par => ~(New(i) < New(Parent(i)))
  <2> SUFFICES ASSUME NEW i \in 1 .. size, i # par PROVE ~(New(i) < New(Parent(i)))
    OBVIOUS
  <2>1. /\ New(i) = IF i = idx THEN At(par) ELSE At(i)
        /\ New(Parent(i)) = IF Parent(i) = par THEN At(idx)
                            ELSE IF Parent(i) = idx THEN At(par) ELSE At(Parent(i))
    BY <1>4, <1>5
  <2>2. At(par) \in Nat /\ At(idx) \in Nat /\ At(i) \in Nat /\ At(Parent(i)) \in Nat
    BY <1>1, <1>2, <1>3, <1>5
  <2>3. CASE i = idx
    BY <1>1, <2>1, <2>2, <2>3 DEF par
  <2>4. CASE i # idx
    BY <1>1, <1>5, <2>1, <2>2, <2>4
  <2> QED BY <2>3, <2>4
<1>8. par > 0 => \A i \in 1 .. size : Parent(i) = par => ~(New(i) < New(Parent(par)))
  <2> SUFFICES ASSUME par > 0, NEW i \in 1 .. size, Parent(i) = par
               PROVE  ~(New(i) < New(Parent(par)))
    OBVIOUS
  <2>1. par \in 1 .. size /\ Parent(par) \in 0 .. size /\ Parent(par) < par
    BY <1>1, <1>2, <1>5
  <2>2. New(Parent(par)) = At(Parent(par))
    BY <1>2, <1>4, <2>1
  <2>3. At(Parent(par)) <= At(par)
    BY <1>2, <1>5, <2>1
  <2>4. At(par) <= At(i) \/ i = idx
    BY <1>5
  <2>5. New(i) = IF i = idx THEN At(par) ELSE At(i)
    BY <1>4, <1>5
  <2> QED BY <1>3, <2>1, <2>2, <2>3, <2>4, <2>5
<1>9. SiftUpInv'
  <2> SUFFICES /\ par <= size /\ size < Capacity
               /\ \A i \in 1 .. size : i # par => ~(New(i) < New(Parent(i)))
               /\ par > 0 => \A i \in 1 .. size :
                                Parent(i) = par => ~(New(i) < New(Parent(par)))
    BY <1>1 DEF SiftUpInv, Less, New, Parent
  <2> QED BY <1>1, <1>2, <1>7, <1>8
<1>10. HeapOrdered' /\ SiftDownInv'
  BY <1>1 DEF HeapOrdered, SiftDownInv
<1> QED BY <1>6, <1>9, <1>10 DEF HeapInv, LoopInv

(* sift_up stops: the last node that could be out of order is not. *)
LEMMA SiftUpDoneStep == HeapInv /\ SiftUpDone => HeapInv'
<1> SUFFICES ASSUME HeapInv, SiftUpDone PROVE HeapInv'
  OBVIOUS
<1>1. /\ pc = "sift_up" /\ pc' = "idle" /\ idx' = 0
      /\ size \in Nat /\ size < Capacity /\ size' = size + 1
      /\ idx \in Nat
      /\ idx > 0 => ~Less(idx, Parent(idx))
      /\ UNCHANGED <<data, out, result>>
  BY Sizes DEF SiftUpDone, BelongsHigher, HeapInv, LoopInv, SiftUpInv, TypeOK
<1>2. TypeOK'
  <2>1. Used' = Used
    BY <1>1 DEF Used
  <2> QED BY <1>1, <2>1, Sizes DEF HeapInv, TypeOK
<1>3. HeapOrdered'
  <2>1. \A i \in 1 .. size : ~Less(i, Parent(i))
    BY <1>1 DEF HeapInv, LoopInv, SiftUpInv
  <2> QED BY <1>1, <2>1 DEF HeapOrdered, Less, Parent
<1>4. SiftUpInv' /\ SiftDownInv'
  BY <1>1 DEF SiftUpInv, SiftDownInv
<1> QED BY <1>2, <1>3, <1>4 DEF HeapInv, LoopInv

(* heap_remove puts the last node at the root, out of order there only. *)
LEMMA HeapRemoveStep == HeapInv /\ HeapRemove => HeapInv'
<1> SUFFICES ASSUME HeapInv, HeapRemove PROVE HeapInv'
  OBVIOUS
<1>1. /\ pc = "idle" /\ size \in Nat \ {0} /\ size <= Capacity
      /\ size' = size - 1 /\ idx' = 0 /\ result' = 0 /\ out' = data[0]
      /\ pc' = IF size' > 0 THEN "sift_down" ELSE "idle"
      /\ data' = [data EXCEPT ![0] = data[size - 1]]
  BY DEF HeapRemove, HeapInv, TypeOK
<1>2. \A i \in 0 .. size - 1 : i \in Cells /\ data[i] \in Node
  BY <1>1, Sizes DEF HeapInv, TypeOK, Used
<1>3. TypeOK'
  <2>1. data' \in [Cells -> Node \cup {ZeroNode}]
    BY <1>1, <1>2 DEF HeapInv, TypeOK
  <2>2. Used' = size - 1
    BY <1>1 DEF Used
  <2>3. \A i \in 0 .. size - 2 : data'[i] \in Node
    BY <1>1, <1>2 DEF HeapInv, TypeOK
  <2> QED BY <1>1, <1>2, <2>1, <2>2, <2>3, Sizes DEF TypeOK
<1>4. SiftDownInv'
  <2>1. \A i \in 1 .. size - 2 : Parent(i) # 0 =>
          /\ ~Less(i, Parent(i))
          /\ data'[i] = data[i] /\ data'[Parent(i)] = data[Parent(i)]
    <3> SUFFICES ASSUME NEW i \in 1 .. size - 2, Parent(i) # 0
                 PROVE  /\ ~Less(i, Parent(i))
                        /\ data'[i] = data[i] /\ data'[Parent(i)] = data[Parent(i)]
      OBVIOUS
    <3>1. Parent(i) \in 0 .. size - 1 /\ i \in 0 .. size - 1 /\ i # 0
      BY <1>1, ParentFacts
    <3>2. ~Less(i, Parent(i))
      BY <1>1 DEF HeapInv, LoopInv, HeapOrdered
    <3> QED BY <1>1, <1>2, <3>1, <3>2 DEF HeapInv, TypeOK
  <2> QED BY <1>1, <2>1 DEF SiftDownInv, Less, Parent
<1>5. HeapOrdered' /\ SiftUpInv'
  BY <1>1 DEF HeapOrdered, SiftUpInv
<1> QED BY <1>3, <1>4, <1>5 DEF HeapInv, LoopInv

(* `smallest' is no greater than any child, and is itself idx or a child   *)
(* that precedes it. *)
LEMMA SmallestFacts ==
  ASSUME HeapInv, pc = "sift_down"
  PROVE  /\ \A i \in 1 .. size - 1 : Parent(i) = idx => At(Smallest) <= At(i)
         /\ Smallest # idx => /\ Smallest \in 1 .. size - 1
                              /\ Parent(Smallest) = idx
                              /\ At(Smallest) < At(idx)
<1> DEFINE l == Left(idx)
           r == Right(idx)
           s == IF l < size /\ Less(l, idx) THEN l ELSE idx
<1>1. /\ idx \in Nat /\ size \in Nat /\ idx < size
      /\ l \in Nat /\ r \in Nat /\ idx < l /\ l < r
      /\ Parent(l) = idx /\ Parent(r) = idx
  BY Sizes, ChildFacts DEF HeapInv, TypeOK, LoopInv, SiftDownInv
<1>2. \A i \in 0 .. size - 1 : At(i) \in Nat
  BY <1>1, Sizes, AtNat DEF HeapInv, TypeOK
<1>3. \A i \in 1 .. size - 1 : Parent(i) = idx => i = l \/ i = r
  BY ParentFacts
<1>4. Smallest = IF r < size /\ Less(r, s) THEN r ELSE s
  BY DEF Smallest
<1> HIDE DEF l, r
<1>5. s = IF l < size /\ At(l) < At(idx) THEN l ELSE idx
  BY DEF Less, At
<1>6. Smallest = IF r < size /\ At(r) < At(s) THEN r ELSE s
  BY <1>4 DEF Less, At
<1> HIDE DEF s
<1>7. s \in {l, idx} /\ s < size /\ At(s) <= At(idx) /\ (l < size => At(s) <= At(l))
      /\ (s # idx => At(s) < At(idx))
  BY <1>1, <1>2, <1>5
<1>8. Smallest \in {l, r, idx} /\ Smallest < size
      /\ At(Smallest) <= At(s) /\ (r < size => At(Smallest) <= At(r))
      /\ (Smallest # idx => At(Smallest) < At(idx))
  BY <1>1, <1>2, <1>6, <1>7
<1>9. At(Smallest) \in Nat /\ At(s) \in Nat
  BY <1>1, <1>2, <1>7, <1>8
<1>10. \A i \in 1 .. size - 1 : Parent(i) = idx => At(Smallest) <= At(i)
  BY <1>1, <1>2, <1>3, <1>7, <1>8, <1>9
<1> QED BY <1>1, <1>8, <1>10

(* One turn of sift_down: the node moved may now follow its new children. *)
LEMMA SiftDownStep == HeapInv /\ SiftDown => HeapInv'
<1> SUFFICES ASSUME HeapInv, SiftDown PROVE HeapInv'
  OBVIOUS
<1> DEFINE s == Smallest
<1>1. /\ pc = "sift_down" /\ pc' = "sift_down" /\ idx' = s
      /\ idx \in Nat /\ size \in Nat /\ idx < size /\ size <= Capacity
      /\ data' = [data EXCEPT ![s] = data[idx], ![idx] = data[s]]
      /\ UNCHANGED <<size, out, result>>
  BY Sizes DEF SiftDown, SwapNode, HeapInv, TypeOK, LoopInv, SiftDownInv
<1>2. /\ s \in 1 .. size - 1 /\ Parent(s) = idx /\ s # idx
      /\ At(s) < At(idx)
      /\ \A i \in 1 .. size - 1 : Parent(i) = idx => At(s) <= At(i)
  BY <1>1, SmallestFacts DEF SiftDown
<1> HIDE DEF s
<1>3. \A i \in 0 .. size - 1 : i \in Cells /\ At(i) \in Nat /\ data[i] \in Node
  BY <1>1, Sizes, AtNat DEF HeapInv, TypeOK, Used
<1>4. \A i \in 0 .. size - 1 : New(i) = IF i = s THEN At(idx)
                                       ELSE IF i = idx THEN At(s) ELSE At(i)
  BY <1>1, <1>2, <1>3 DEF At, New, HeapInv, TypeOK
<1>5. \A i \in 1 .. size - 1 :
        /\ Parent(i) \in 0 .. size - 1 /\ Parent(i) < i
        /\ Parent(i) # idx => ~(At(i) < At(Parent(i)))
        /\ idx > 0 /\ Parent(i) = idx => ~(At(i) < At(Parent(idx)))
  <2>1. \A i \in 1 .. size - 1 : Parent(i) \in 0 .. size - 1 /\ Parent(i) < i
    BY <1>1, ParentFacts
  <2> QED BY <1>1, <2>1 DEF HeapInv, LoopInv, SiftDownInv, Less, At
<1>6. TypeOK'
  <2>1. s \in 0 .. size - 1 /\ idx \in 0 .. size - 1
    BY <1>1, <1>2
  <2>2. data' \in [Cells -> Node \cup {ZeroNode}]
    BY <1>1, <1>3, <2>1 DEF HeapInv, TypeOK
  <2>3. \A i \in 0 .. size - 1 : data'[i] \in Node
    BY <1>1, <1>3, <2>1 DEF HeapInv, TypeOK
  <2>4. Used' = size
    BY <1>1 DEF Used
  <2> QED BY <1>1, <1>3, <2>1, <2>2, <2>3, <2>4 DEF HeapInv, TypeOK
<1>7. \A i \in 1 .. size - 1 : Parent(i) # s => ~(New(i) < New(Parent(i)))
  <2> SUFFICES ASSUME NEW i \in 1 .. size - 1, Parent(i) # s
               PROVE  ~(New(i) < New(Parent(i)))
    OBVIOUS
  <2>1. /\ New(i) = IF i = s THEN At(idx) ELSE IF i = idx THEN At(s) ELSE At(i)
        /\ New(Parent(i)) = IF Parent(i) = idx THEN At(s) ELSE At(Parent(i))
    BY <1>4, <1>5
  <2>2. At(s) \in Nat /\ At(idx) \in Nat /\ At(i) \in Nat /\ At(Parent(i)) \in Nat
    BY <1>1, <1>2, <1>3, <1>5
  <2>3. CASE i = s
    BY <1>2, <2>1, <2>2, <2>3
  <2>4. CASE i = idx
    <3>1. At(Parent(i)) <= At(s)
      BY <1>2, <1>5, <2>2, <2>4
    <3>2. Parent(i) # idx
      BY <1>5, <2>4
    <3> QED BY <1>2, <2>1, <2>2, <2>4, <3>1, <3>2
  <2>5. CASE i # s /\ i # idx
    BY <1>2, <1>5, <2>1, <2>2, <2>5
  <2> QED BY <2>3, <2>4, <2>5
<1>8. \A i \in 1 .. size - 1 : Parent(i) = s => ~(New(i) < New(Parent(s)))
  <2> SUFFICES ASSUME NEW i \in 1 .. size - 1, Parent(i) = s
               PROVE  ~(New(i) < New(Parent(s)))
    OBVIOUS
  <2>1. New(Parent(s)) = At(s)
    BY <1>1, <1>2, <1>4
  <2>2. i # s /\ i # idx
    <3>1. Parent(i) < i /\ Parent(s) < s
      BY <1>2, <1>5
    <3> QED BY <1>1, <1>2, <3>1
  <2>3. New(i) = At(i) /\ ~(At(i) < At(s))
    BY <1>2, <1>4, <1>5, <2>2
  <2> QED BY <2>1, <2>3
<1>9. SiftDownInv'
  <2> SUFFICES /\ s < size
               /\ \A i \in 1 .. size - 1 : Parent(i) # s => ~(New(i) < New(Parent(i)))
               /\ s > 0 => \A i \in 1 .. size - 1 :
                              Parent(i) = s => ~(New(i) < New(Parent(s)))
    BY <1>1 DEF SiftDownInv, Less, New, Parent
  <2> QED BY <1>1, <1>2, <1>7, <1>8
<1>10. HeapOrdered' /\ SiftUpInv'
  BY <1>1 DEF HeapOrdered, SiftUpInv
<1> QED BY <1>6, <1>9, <1>10 DEF HeapInv, LoopInv

(* sift_down stops: the children of idx do not precede it. *)
LEMMA SiftDownDoneStep == HeapInv /\ SiftDownDone => HeapInv'
<1> SUFFICES ASSUME HeapInv, SiftDownDone PROVE HeapInv'
  OBVIOUS
<1>1. /\ pc = "sift_down" /\ pc' = "idle" /\ idx' = 0
      /\ Smallest = idx
      /\ UNCHANGED <<data, size, out, result>>
      /\ size \in Nat /\ idx \in Nat /\ idx < size
  BY Sizes DEF SiftDownDone, HeapInv, LoopInv, SiftDownInv, TypeOK
<1>2. TypeOK'
  <2>1. Used' = Used
    BY <1>1 DEF Used
  <2> QED BY <1>1, <2>1, Sizes DEF HeapInv, TypeOK
<1>3. HeapOrdered'
  <2>1. \A i \in 0 .. size - 1 : At(i) \in Nat
    BY <1>1, Sizes, AtNat DEF HeapInv, TypeOK
  <2>2. \A i \in 1 .. size - 1 : ~(At(i) < At(Parent(i)))
    <3> SUFFICES ASSUME NEW i \in 1 .. size - 1 PROVE ~(At(i) < At(Parent(i)))
      OBVIOUS
    <3>1. CASE Parent(i) = idx
      BY <1>1, <2>1, <3>1, SmallestFacts
    <3>2. CASE Parent(i) # idx
      BY <1>1, <3>2 DEF HeapInv, LoopInv, SiftDownInv, Less, At
    <3> QED BY <3>1, <3>2
  <2> QED BY <1>1, <2>2 DEF HeapOrdered, Less, At, Parent
<1>4. SiftUpInv' /\ SiftDownInv'
  BY <1>1 DEF SiftUpInv, SiftDownInv
<1> QED BY <1>2, <1>3, <1>4 DEF HeapInv, LoopInv

(* The calls that read, or are refused, leave the heap as it is. *)
LEMMA ReadOnlyStep ==
  ASSUME HeapInv,
         \/ \E t \in Threads : HeapInsertFull(t)
         \/ HeapRemoveEmpty \/ HeapPeek \/ HeapPeekEmpty
         \/ UNCHANGED vars
  PROVE  HeapInv'
<1>1. /\ UNCHANGED <<data, size, pc, idx>>
      /\ result' \in {0, -1}
      /\ out' = out \/ (size \in Nat \ {0} /\ pc = "idle" /\ out' = data[0])
  BY DEF HeapInsertFull, HeapRemoveEmpty, HeapPeek, HeapPeekEmpty, vars, HeapInv, TypeOK
<1>2. TypeOK'
  <2>1. Used' = Used
    BY <1>1 DEF Used
  <2>2. out' \in Node \cup {ZeroNode}
    BY <1>1, Sizes DEF HeapInv, TypeOK
  <2> QED BY <1>1, <2>1, <2>2 DEF HeapInv, TypeOK
<1>3. LoopInv'
  BY <1>1 DEF HeapInv, LoopInv, HeapOrdered, SiftUpInv, SiftDownInv, Less, Parent
<1> QED BY <1>2, <1>3 DEF HeapInv

-----------------------------------------------------------------------------
(* Theorems *)

(* Types and loop invariants hold in every state of the heap. *)
THEOREM HeapInvariance == Spec => []HeapInv
<1>1. HeapInv /\ [Next]_vars => HeapInv'
  BY HeapInsertStep, SiftUpStep, SiftUpDoneStep, HeapRemoveStep, SiftDownStep,
     SiftDownDoneStep, ReadOnlyStep DEF Next, Loop
<1> QED BY InitHeapInv, <1>1, PTL DEF Spec

(* The variables of the heap keep their types: in particular no index is   *)
(* ever outside the array or the memory its capacity claims. *)
THEOREM HeapTypeCorrect == Spec => []TypeOK
<1>1. HeapInv => TypeOK
  BY DEF HeapInv
<1> QED BY <1>1, HeapInvariance, PTL

(* sift_up and sift_down restore the order of the heap, whatever calls     *)
(* are made and in whatever order. *)
THEOREM HeapStaysOrdered == Spec => []LoopInv
<1>1. HeapInv => LoopInv
  BY DEF HeapInv
<1> QED BY <1>1, HeapInvariance, PTL

(* In an ordered heap no node precedes the root: the first node that did   *)
(* would not precede its parent, which does not precede the root. *)
LEMMA RootFirst == HeapInv => RootIsFirst
<1> SUFFICES ASSUME HeapInv, pc = "idle" PROVE \A i \in 0 .. size - 1 : ~Less(i, 0)
  BY DEF RootIsFirst
<1> DEFINE Before == {i \in 0 .. size - 1 : At(i) < At(0)}
<1>1. size \in Nat /\ \A i \in 0 .. size - 1 : At(i) \in Nat
  BY Sizes, AtNat DEF HeapInv, TypeOK
<1>2. ASSUME Before # {} PROVE FALSE
  <2>0. Before \in SUBSET Nat
    BY <1>1
  <2>1. PICK i \in Before : \A j \in Before : i <= j
    <3> HIDE DEF Before
    <3> QED BY <2>0, <1>2, LeastElement
  <2>2. i \in 1 .. size - 1 /\ Parent(i) \in 0 .. size - 1 /\ Parent(i) < i
    BY <1>1, <2>1, ParentFacts
  <2>3. ~(At(i) < At(Parent(i)))
    BY <2>2 DEF HeapInv, LoopInv, HeapOrdered, Less, At
  <2>4. ~(At(Parent(i)) < At(0))
    BY <2>1, <2>2
  <2>5. At(i) < At(0) /\ 0 \in 0 .. size - 1
    BY <1>1, <2>1
  <2> QED BY <1>1, <2>2, <2>3, <2>4, <2>5
<1>3. \A i \in 0 .. size - 1 : ~(At(i) < At(0))
  BY <1>2
<1> QED BY <1>3 DEF Less, At

(* heap_peek and heap_remove hand out a node of the smallest priority. *)
THEOREM RootHasSmallest == Spec => []RootIsFirst
<1> QED BY RootFirst, HeapInvariance, PTL

(* A heap whose capacity is that of the array never writes past it. *)
THEOREM NoOverrun ==
  ASSUME Requested \in 1 .. MAX_THREADS
  PROVE  Spec => []WithinArray
<1>1. HeapInv => WithinArray
  BY HeapAssumption
     DEF HeapInv, TypeOK, LoopInv, SiftUpInv, WithinArray, Used, Capacity
<1> QED BY <1>1, HeapInvariance, PTL
-----------------------------------------------------------------------------
(* The priority queue *)

Places == 0 .. Used - 1
Held == {data[i] : i \in Places}

(* How often a node is in the heap. *)
Times(n) == CountOf(data, Places, n)

(* The queue in terms of these. *)
ByTimes ==
  /\ Used \in Nat /\ Places \subseteq Cells
  /\ IsFiniteSet(Places) /\ Cardinality(Places) = Used
  /\ Contents = [n \in Held |-> Times(n)]
  /\ \A n : Times(n) \in Nat /\ (Times(n) > 0 <=> n \in Held)

LEMMA ContentsByTimes == HeapInv => ByTimes
<1> SUFFICES ASSUME HeapInv PROVE ByTimes
  OBVIOUS
<1>1. size \in Nat /\ size <= Capacity /\ (pc = "sift_up" => size < Capacity)
  BY Sizes DEF HeapInv, LoopInv, SiftUpInv, TypeOK
<1>2. Used \in Nat /\ Used <= Capacity
  BY <1>1, Sizes DEF Used
<1>3. Places \subseteq Cells
  BY <1>2, Sizes DEF Places
<1>4. IsFiniteSet(Places) /\ Cardinality(Places) = Used
  BY <1>2, FS_Interval DEF Places
<1>5. Contents = [n \in Held |-> Times(n)]
  BY DEF Contents, Held, Times, CountOf, Places
<1>6. ASSUME NEW n PROVE Times(n) \in Nat /\ (Times(n) > 0 <=> n \in Held)
  <2>1. /\ CountOf(data, Places, n) \in Nat
        /\ CountOf(data, Places, n) > 0 <=> \E i \in Places : data[i] = n
    BY <1>4, CountType, Zenon
  <2>2. n \in Held <=> \E i \in Places : data[i] = n
    BY DEF Held
  <2> QED BY <2>1, <2>2 DEF Times
<1> QED BY <1>2, <1>3, <1>4, <1>5, <1>6 DEF ByTimes

(* The queue has as many nodes as the heap. *)
LEMMA ContentsSize ==
  ASSUME HeapInv
  PROVE  PQ!BagCardinality(Contents) = Used
<1>1. IsFiniteSet(Held)
  <2>1. IsFiniteSet(Places)
    BY ContentsByTimes DEF ByTimes
  <2>2. [i \in Places |-> data[i]] \in Surjection(Places, Held)
    BY DEF Held, Surjection
  <2> QED BY <2>1, <2>2, FS_Surjection, Zenon
<1>2. \A i \in Places : data[i] \in Held
  BY DEF Held
<1> DEFINE w == [n \in Held |-> CountOf(data, Places, n)]
<1>3. SumFunctionOnSet(w, Held) = Cardinality(Places)
  BY <1>1, <1>2, ContentsByTimes, SumOfPlaces DEF ByTimes
<1>4. Contents = w /\ DOMAIN Contents = Held
  BY ContentsByTimes DEF ByTimes, Times
<1>5. PQ!BagCardinality(Contents) = SumFunctionOnSet(Contents, DOMAIN Contents)
  BY DEF PQ!BagCardinality, SumFunctionOnSet, FoldFunctionOnSet, MapThenFoldSet
<1> QED BY <1>3, <1>4, <1>5, ContentsByTimes DEF ByTimes
(* After a step too. *)
LEMMA ByTimesNext ==
  ASSUME HeapInv'
  PROVE  /\ Contents' = [n \in Held' |-> CountOf(data', Places', n)]
         /\ \A n : /\ CountOf(data', Places', n) \in Nat
                   /\ CountOf(data', Places', n) > 0 <=> n \in Held'
<1>1. (HeapInv => ByTimes)'
  BY ContentsByTimes, PTL
<1> QED BY <1>1 DEF ByTimes, Times

(* The queue stays the same if each node's number does. *)
LEMMA SameContents ==
  ASSUME HeapInv, HeapInv', \A n : CountOf(data', Places', n) = Times(n)
  PROVE  Contents' = Contents
<1>1. \A n : n \in Held' <=> n \in Held
  BY ByTimesNext, ContentsByTimes DEF ByTimes
<1>2. Held' = Held
  BY <1>1
<1> QED BY <1>2, ByTimesNext, ContentsByTimes DEF ByTimes

(* A swap moves nodes and loses none. *)
LEMMA SwapKeeps ==
  ASSUME HeapInv, HeapInv', Used' = Used,
         NEW i \in Places, NEW j \in Places, SwapNode(i, j)
  PROVE  Contents' = Contents
<1> DEFINE g == [data EXCEPT ![i] = data[j]]
<1>1. /\ IsFiniteSet(Places) /\ Places' = Places
      /\ i \in Cells /\ j \in Cells /\ Places \subseteq Cells
      /\ \A n : Times(n) \in Nat
  BY ContentsByTimes DEF ByTimes, Places
<1>2. DOMAIN data = Cells
  BY DEF HeapInv, TypeOK
<1>3. /\ \A k \in Places : k # i => data[k] = g[k]
      /\ g[i] = data[j] /\ g[j] = data[j]
  BY <1>1, <1>2
<1>4. /\ \A k \in Places : k # j => g[k] = data'[k]
      /\ data'[j] = data[i]
  BY <1>1, <1>2 DEF SwapNode
<1> HIDE DEF g
<1>5. ASSUME NEW n PROVE CountOf(data', Places', n) = Times(n)
  <2>1. CountOf(g, Places, n) = CountOf(data, Places, n)
          - (IF data[i] = n THEN 1 ELSE 0) + (IF g[i] = n THEN 1 ELSE 0)
    BY <1>1, <1>3, CountWritten
  <2>2. CountOf(data', Places, n) = CountOf(g, Places, n)
          - (IF g[j] = n THEN 1 ELSE 0) + (IF data'[j] = n THEN 1 ELSE 0)
    BY <1>1, <1>4, CountWritten
  <2>3. CountOf(data, Places, n) \in Nat
    BY <1>1 DEF Times
  <2> QED BY <1>1, <1>3, <1>4, <2>1, <2>2, <2>3 DEF Times
<1> QED BY <1>5, SameContents

(* heap_insert adds its node to the queue. *)
LEMMA InsertAdds ==
  ASSUME HeapInv, HeapInv', NEW t \in Threads, HeapInsert(t)
  PROVE  Contents' = PQ!BagAdd(Contents, NodeOf(t))
<1> DEFINE x == NodeOf(t)
<1>1. /\ size \in Nat /\ Places = 0 .. size - 1 /\ size \notin Places
      /\ Places' = Places \cup {size}
  BY Sizes DEF HeapInv, TypeOK, HeapInsert, Used, Places
<1>2. IsFiniteSet(Places) /\ \A n : Times(n) \in Nat
  BY ContentsByTimes DEF ByTimes
<1>3. data'[size] = x /\ \A k \in Places : data[k] = data'[k]
  <2>1. Places' \subseteq Cells
    <3>1. (HeapInv => ByTimes)'
      BY ContentsByTimes, PTL
    <3>2. Cells' = Cells
      BY DEF Cells, Capacity
    <3> QED BY <3>1, <3>2 DEF ByTimes
  <2>2. DOMAIN data = Cells
    BY DEF HeapInv, TypeOK
  <2> QED BY <1>1, <2>1, <2>2 DEF HeapInsert
<1> HIDE DEF x
<1>4. ASSUME NEW n
      PROVE  CountOf(data', Places', n) = Times(n) + (IF n = x THEN 1 ELSE 0)
  <2>1. CountOf(data', Places', n) =
          CountOf(data', Places, n) + (IF data'[size] = n THEN 1 ELSE 0)
    <3>1. size \notin Places
      BY <1>1
    <3>2. CountOf(data', Places \cup {size}, n) =
            CountOf(data', Places, n) + (IF data'[size] = n THEN 1 ELSE 0)
      BY <1>2, <3>1, CountOneMore
    <3> QED BY <1>1, <3>2, Zenon
  <2>2. CountOf(data, Places, n) = CountOf(data', Places, n)
    BY <1>3, CountAgrees
  <2>3. (IF data'[size] = n THEN 1 ELSE 0) = (IF n = x THEN 1 ELSE 0)
    BY <1>3
  <2> QED BY <2>1, <2>2, <2>3, Zenon DEF Times
<1>5. \A n : n \in Held' <=> n \in Held \/ n = x
  BY <1>2, <1>4, ByTimesNext, ContentsByTimes DEF ByTimes
<1>6. Held' = Held \cup {x}
  BY <1>5
<1>7. Contents = [n \in Held |-> Times(n)] /\ DOMAIN Contents = Held
  BY ContentsByTimes DEF ByTimes
<1>8. Contents' = [n \in Held \cup {x} |-> Times(n) + (IF n = x THEN 1 ELSE 0)]
  BY <1>4, <1>6, ByTimesNext
<1>9. CASE x \in Held
  BY <1>7, <1>8, <1>9, <1>2 DEF PQ!BagAdd, x
<1>10. CASE x \notin Held
  <2>1. Times(x) = 0
    BY <1>2, <1>10, ContentsByTimes DEF ByTimes
  <2> QED BY <1>2, <1>7, <1>8, <1>10, <2>1 DEF PQ!BagAdd, x
<1> QED BY <1>9, <1>10
(* heap_remove takes the node at the root out of the queue. *)
LEMMA RemoveTakes ==
  ASSUME HeapInv, HeapInv', HeapRemove
  PROVE  Contents' = PQ!BagRemove(Contents, data[0])
<1> DEFINE x == data[0]
           m == size - 1
<1>1. /\ m \in Nat /\ 0 \in Places /\ m \in Places /\ m \notin Places'
      /\ Places = Places' \cup {m}
  BY Sizes DEF HeapInv, TypeOK, HeapRemove, Used, Places
<1>2. /\ IsFiniteSet(Places) /\ Places \subseteq Cells
      /\ \A n : Times(n) \in Nat
  BY ContentsByTimes DEF ByTimes
<1>3. DOMAIN data = Cells
  BY DEF HeapInv, TypeOK
<1>4. /\ \A k \in Places : k # 0 => data[k] = data'[k]
      /\ data'[0] = data[m] /\ data'[m] = data[m]
  BY <1>1, <1>2, <1>3 DEF HeapRemove
<1>5. IsFiniteSet(Places')
  BY <1>1, <1>2, FS_Subset
<1> HIDE DEF x, m
<1>6. ASSUME NEW n
      PROVE  CountOf(data', Places', n) = Times(n) - (IF n = x THEN 1 ELSE 0)
  <2>1. CountOf(data', Places, n) = CountOf(data, Places, n)
          - (IF data[0] = n THEN 1 ELSE 0) + (IF data'[0] = n THEN 1 ELSE 0)
    <3>1. 0 \in Places /\ \A k \in Places : k # 0 => data[k] = data'[k]
      BY <1>1, <1>4
    <3> QED BY <1>2, <3>1, CountWritten
  <2>2. CountOf(data', Places, n) =
          CountOf(data', Places', n) + (IF data'[m] = n THEN 1 ELSE 0)
    BY <1>1, <1>5, CountOneMore
  <2>3. CountOf(data, Places, n) \in Nat /\ CountOf(data', Places', n) \in Nat
    BY <1>2, ByTimesNext DEF Times
  <2>4. data[0] = x /\ data'[0] = data'[m]
    BY <1>4 DEF x
  <2> QED BY <2>1, <2>2, <2>3, <2>4 DEF Times
<1>7. x \in Held /\ Times(x) > 0
  <2>1. x \in Held
    BY <1>1 DEF x, Held
  <2> QED BY <2>1, ContentsByTimes DEF ByTimes
<1>8. \A n : /\ n \in Held <=> Times(n) > 0
            /\ n \in Held' <=> CountOf(data', Places', n) > 0
  BY ByTimesNext, ContentsByTimes DEF ByTimes
<1>9. ASSUME NEW n, n # x PROVE n \in Held' <=> n \in Held
  <2>1. CountOf(data', Places', n) = Times(n)
    BY <1>2, <1>6, <1>9
  <2>2. /\ n \in Held <=> Times(n) > 0
        /\ n \in Held' <=> CountOf(data', Places', n) > 0
    BY ByTimesNext, ContentsByTimes DEF ByTimes
  <2> QED BY <2>1, <2>2
<1>10. x \in Held' <=> Times(x) # 1
  BY <1>2, <1>6, <1>7, <1>8
<1>11. Contents = [n \in Held |-> Times(n)] /\ DOMAIN Contents = Held
  BY ContentsByTimes DEF ByTimes
<1>12. Contents' = [n \in Held' |-> Times(n) - (IF n = x THEN 1 ELSE 0)]
  BY <1>6, ByTimesNext
<1>13. CASE Times(x) = 1
  <2>1. Held' = Held \ {x}
    BY <1>9, <1>10, <1>13
  <2>2. Contents' = [n \in Held \ {x} |-> Contents[n]]
    BY <1>2, <1>11, <1>12, <2>1
  <2> QED BY <1>7, <1>11, <1>13, <2>2 DEF PQ!BagRemove, x
<1>14. CASE Times(x) # 1
  <2>1. Held' = Held
    BY <1>7, <1>9, <1>10, <1>14
  <2>2. Contents' = [n \in Held |-> IF n = x THEN Contents[n] - 1 ELSE Contents[n]]
    BY <1>2, <1>11, <1>12, <2>1
  <2> QED BY <1>7, <1>11, <1>14, <2>2 DEF PQ!BagRemove, x
<1> QED BY <1>13, <1>14

(* The root is one of the nodes the queue may hand out. *)
LEMMA RootInFirst ==
  ASSUME HeapInv, pc = "idle", size > 0
  PROVE  data[0] \in PQ!First
<1>1. /\ Places = 0 .. size - 1 /\ 0 \in Places /\ Places \subseteq Cells
  BY Sizes, ContentsByTimes DEF ByTimes, HeapInv, TypeOK, Used, Places
<1>2. \A i \in Places : ~(At(i) < At(0)) /\ At(i) \in Nat
  BY <1>1, RootFirst, AtNat DEF RootIsFirst, Less, At, HeapInv
<1>3. \A m \in Held : data[0].priority <= m.priority
  BY <1>1, <1>2 DEF Held, At
<1>4. DOMAIN Contents = Held /\ data[0] \in Held
  BY <1>1, ContentsByTimes DEF ByTimes, Held
<1> QED BY <1>3, <1>4 DEF PQ!First, PQ!BagToSet

(* The empty heap is the empty queue. *)
LEMMA EmptyContents ==
  ASSUME HeapInv, pc = "idle", size = 0
  PROVE  Contents = PQ!EmptyBag
<1>1. Held = {}
  BY DEF Held, Places, Used
<1> QED BY <1>1, ContentsByTimes DEF ByTimes, PQ!EmptyBag, PQ!SetToBag

(* Every step of src/heap.c is a call of the priority queue, or one of the *)
(* steps inside of a call, which it does not see. *)
THEOREM HeapImplements == Spec => ImplementsPriorityQueue
<1>1. Init => PQ!Init
  <2> SUFFICES ASSUME Init PROVE PQ!Init
    OBVIOUS
  <2>1. Contents = PQ!EmptyBag
    BY InitHeapInv, EmptyContents DEF Init
  <2> QED BY <2>1 DEF PQ!Init, Init
<1>2. HeapInv /\ HeapInv' /\ [Next]_vars => [PQ!Next]_(PQ!pqVars)
  <2> SUFFICES ASSUME HeapInv, HeapInv', [Next]_vars
               PROVE  [PQ!Next]_(PQ!pqVars)
    OBVIOUS
  <2>1. ASSUME NEW t \in Threads, HeapInsert(t) PROVE PQ!Insert(t)
    <3>1. Contents' = PQ!BagAdd(Contents, PQ!NodeOf(t))
      BY <2>1, InsertAdds DEF NodeOf, PQ!NodeOf
    <3>2. PQ!BagCardinality(Contents) < Capacity
      BY <2>1, ContentsSize, Sizes
         DEF HeapInsert, HasRoom, HeapResize, Used, HeapInv, TypeOK
    <3> QED BY <2>1, <3>1, <3>2 DEF PQ!Insert, HeapInsert
  <2>2. ASSUME NEW t \in Threads, HeapInsertFull(t) PROVE PQ!Insert(t)
    <3>1. Contents' = Contents
      BY <2>2 DEF HeapInsertFull, Contents, Used
    <3>2. PQ!BagCardinality(Contents) >= Capacity
      BY <2>2, ContentsSize, Sizes
         DEF HeapInsertFull, HasRoom, Used, HeapInv, TypeOK
    <3> QED BY <2>2, <3>1, <3>2 DEF PQ!Insert, HeapInsertFull
  <2>3. ASSUME HeapRemove PROVE PQ!Remove
    <3>1. data[0] \in PQ!First
      BY <2>3, RootInFirst DEF HeapRemove
    <3>2. Contents' = PQ!BagRemove(Contents, data[0])
      BY <2>3, RemoveTakes
    <3> QED BY <2>3, <3>1, <3>2 DEF PQ!Remove, HeapRemove
  <2>4. ASSUME HeapRemoveEmpty PROVE PQ!Remove
    <3>1. Contents' = Contents
      BY <2>4 DEF HeapRemoveEmpty, Contents, Used
    <3> QED BY <2>4, <3>1, EmptyContents DEF PQ!Remove, HeapRemoveEmpty
  <2>5. ASSUME HeapPeek PROVE PQ!Peek
    <3>1. Contents' = Contents
      BY <2>5 DEF HeapPeek, Contents, Used
    <3>2. data[0] \in PQ!First
      BY <2>5, RootInFirst DEF HeapPeek
    <3> QED BY <2>5, <3>1, <3>2 DEF PQ!Peek, HeapPeek
  <2>6. ASSUME HeapPeekEmpty PROVE PQ!Peek
    <3>1. Contents' = Contents
      BY <2>6 DEF HeapPeekEmpty, Contents, Used
    <3> QED BY <2>6, <3>1, EmptyContents DEF PQ!Peek, HeapPeekEmpty
  <2>7. ASSUME SiftUp PROVE UNCHANGED PQ!pqVars
    <3>1. Parent(idx) \in Places /\ idx \in Places /\ Used' = Used
      <4>1. idx \in Nat \ {0} /\ idx <= size /\ size \in Nat
        BY <2>7, Sizes
           DEF SiftUp, BelongsHigher, HeapInv, TypeOK, LoopInv, SiftUpInv
      <4> QED BY <2>7, <4>1, ParentFacts DEF SiftUp, Used, Places
    <3>2. Contents' = Contents
      BY <2>7, <3>1, SwapKeeps DEF SiftUp
    <3> QED BY <2>7, <3>2 DEF PQ!pqVars, SiftUp
  <2>8. ASSUME SiftUpDone PROVE UNCHANGED PQ!pqVars
    <3>1. Contents' = Contents
      BY <2>8 DEF SiftUpDone, Contents, Used
    <3> QED BY <2>8, <3>1 DEF PQ!pqVars, SiftUpDone
  <2>9. ASSUME SiftDown PROVE UNCHANGED PQ!pqVars
    <3>1. Smallest \in Places /\ idx \in Places /\ Used' = Used
      <4>1. idx \in Nat /\ idx < size /\ size \in Nat
        BY <2>9, Sizes DEF SiftDown, HeapInv, TypeOK, LoopInv, SiftDownInv
      <4>2. Smallest \in 1 .. size - 1
        BY <2>9, SmallestFacts DEF SiftDown
      <4> QED BY <2>9, <4>1, <4>2 DEF SiftDown, Used, Places
    <3>2. Contents' = Contents
      BY <2>9, <3>1, SwapKeeps DEF SiftDown
    <3> QED BY <2>9, <3>2 DEF PQ!pqVars, SiftDown
  <2>10. ASSUME SiftDownDone PROVE UNCHANGED PQ!pqVars
    <3>1. Contents' = Contents
      BY <2>10 DEF SiftDownDone, Contents, Used
    <3> QED BY <2>10, <3>1 DEF PQ!pqVars, SiftDownDone
  <2>11. ASSUME UNCHANGED vars PROVE UNCHANGED PQ!pqVars
    BY <2>11 DEF vars, PQ!pqVars, Contents, Used
  <2> QED BY <2>1, <2>2, <2>3, <2>4, <2>5, <2>6, <2>7, <2>8, <2>9, <2>10, <2>11
          DEF Next, Loop, PQ!Next
<1> QED BY <1>1, <1>2, HeapInvariance, PTL
        DEF Spec, ImplementsPriorityQueue, PQ!Spec
=============================================================================
