----------------------------- MODULE MicrosDemo -----------------------------
(***************************************************************************)
(* MICROS with the thread function it is built with, thread_func of        *)
(* src/thread.c: rounds counted in a global array, at an index taken from  *)
(* a variable that never changes.  It does not yield, and runs with        *)
(* interrupts masked.                                                      *)
(***************************************************************************)
EXTENDS Micros

CONSTANT Wrap     \* the numbers of an int, 2^32 in the code

ASSUME MicrosDemoAssumption == Wrap \in Nat /\ Wrap > 6 /\ Wrap % 2 = 0

VARIABLES
  counter, done,    \* the arrays
  rounds            \* rounds that each thread has done

demo == <<counter, done, rounds>>

thread_ids == 1

DemoInit ==
  /\ Init
  /\ counter = [t \in Tid |-> 0]
  /\ done = [t \in Tid |-> FALSE]
  /\ rounds = [t \in Tid |-> 0]

(* ++counter[id], which wraps. *)
Incremented ==
  LET c == counter[thread_ids]
  IN  IF c = (Wrap \div 2) - 1 THEN -(Wrap \div 2) ELSE c + 1

CountRound ==
  /\ pc = "body"
  /\ counter' = [counter EXCEPT ![thread_ids] = Incremented]
  /\ rounds' = [rounds EXCEPT ![current_thread] = @ + 1]

(* A round of the while loop that is not the last... *)
Round ==
  /\ CountRound
  /\ Incremented # 3
  /\ UNCHANGED <<vars, done>>

(* ...and one that is. *)
LastRound ==
  /\ CountRound
  /\ Incremented = 3
  /\ done' = [done EXCEPT ![thread_ids] = TRUE]
  /\ ThreadReturn

DemoNext == Round \/ LastRound \/ ((Kernel \/ Stopped) /\ UNCHANGED demo)

(* The CPU executes. *)
DemoSpec ==
  /\ DemoInit /\ [][DemoNext]_<<vars, demo>>
  /\ WF_<<vars, demo>>(DemoNext)

-----------------------------------------------------------------------------
(* Properties *)

(* The rounds of a thread's function. *)
RoundsOf(t) == IF t = 0 THEN 3 ELSE Wrap

(* src/thread.c:357: a thread runs 3 times. *)
ThreeRounds == \A t \in Tid : jobs_done[t] = 1 => rounds[t] = 3

(* What there is instead, against that comment: the first thread does its  *)
(* three rounds, and each later one, which finds the counter where the one *)
(* before has left it, as many as an int has numbers; only one flag in     *)
(* done[] is ever set.                                                     *)
RoundsOfAll ==
  /\ \A t \in Tid : rounds[t] <= RoundsOf(t)
  /\ \A t \in Tid : jobs_done[t] = 1 => rounds[t] = RoundsOf(t)
  /\ \A t \in Tid : done[t] => t = thread_ids

-----------------------------------------------------------------------------
(* The inductive invariant *)

(* What the one counter reads after the first n rounds of thread t.        *)
CountAfter(t, n) ==
  IF t = 0 THEN n
  ELSE IF 3 + n < Wrap \div 2 THEN 3 + n ELSE 3 + n - Wrap

(* Nobody is dispatched but into the first instruction of the function,    *)
(* and the first thread is never dispatched again, though it stays queued. *)
FrameInv ==
  /\ \A t \in Tid :
       /\ sp[t].resume \in {"garbage", "entry", "hlt"}
       /\ sp[t].resume = "entry" => rounds[t] = 0 /\ (pc = "kmain" \/ t # 0)
  /\ pc = "dispatcher" => ret = "hlt"

CountInv ==
  LET t == current_thread IN
  /\ pc = "kmain" => counter[thread_ids] = 0 /\ \A u \in Tid : rounds[u] = 0
  /\ pc = "entry" => rounds[t] = 0
  /\ pc \in {"entry", "body"} =>
       /\ rounds[t] < RoundsOf(t)
       /\ counter[thread_ids] = CountAfter(t, rounds[t])
  /\ pc = "exit" => rounds[t] = RoundsOf(t)
  /\ pc \in {"exit", "dispatcher"} => counter[thread_ids] = 3

DemoInv ==
  /\ counter \in [Tid -> Int]
  /\ done \in [Tid -> BOOLEAN]
  /\ rounds \in [Tid -> Nat]
  /\ FrameInv /\ CountInv /\ RoundsOfAll
=============================================================================
