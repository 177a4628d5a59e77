----------------------------- MODULE MCMinHeap -----------------------------
(* Instances of MinHeap for TLC: four threads, two of the same priority. *)
EXTENDS MinHeap

MCThreads == 0 .. 3
MCPriorityOf == [t \in MCThreads |-> IF t = 0 THEN 5 ELSE IF t = 3 THEN 20 ELSE 10]
=============================================================================
