----------------------------- MODULE RoundRobin -----------------------------
(***************************************************************************)
(* What the FIFOS kernel promises: its threads take turns in the order of  *)
(* their creation, a thread leaves the line once it has finished its work, *)
(* and not before, and the kernel stops with the last one.                 *)
(***************************************************************************)
EXTENDS Naturals, Sequences

CONSTANT N      \* how many threads there are

VARIABLES line,         \* the threads in the order of their turns
          finished,     \* those that have done their work
          stopped

rrVars == <<line, finished, stopped>>

Init ==
  /\ line = << >>
  /\ finished = {}
  /\ stopped = FALSE

Start ==
  /\ line = << >>
  /\ line' = [i \in 1 .. N |-> i]
  /\ UNCHANGED <<finished, stopped>>

(* Only the thread whose turn it is does any work. *)
Finish ==
  /\ line # << >>
  /\ Head(line) \notin finished
  /\ finished' = finished \cup {Head(line)}
  /\ UNCHANGED <<line, stopped>>

(* The turn passes to the next in line. *)
Pass ==
  /\ line # << >>
  /\ Head(line) \notin finished
  /\ line' = Append(Tail(line), Head(line))
  /\ UNCHANGED <<finished, stopped>>

Leave ==
  /\ Len(line) > 1
  /\ Head(line) \in finished
  /\ line' = Tail(line)
  /\ UNCHANGED <<finished, stopped>>

Stop ==
  /\ Len(line) = 1
  /\ Head(line) \in finished
  /\ stopped' = TRUE
  /\ UNCHANGED <<line, finished>>

Next == Start \/ Finish \/ Pass \/ Leave \/ Stop

Spec == Init /\ [][Next]_rrVars
=============================================================================
