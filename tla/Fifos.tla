------------------------------- MODULE Fifos --------------------------------
(***************************************************************************)
(* The FIFOS kernel, src/fifos_a/CS552-FIFOS: kentry.c, context_switch.s   *)
(* and timer_interrupt_asm of fifos.s.  The macro FIFOS selects one of two *)
(* programs: with 1 threads yield to each other and interrupts stay off,   *)
(* with 2 they never yield and the timer switches between them.            *)
(*                                                                         *)
(* The steps of thread() that a tick can come between and make a           *)
(* difference are steps here: the load and the store of thread_ids++, of   *)
(* ++counter, and the compare and the jump that end the loop (the kernel   *)
(* is built with -O0).  Between other instructions a tick has the effect   *)
(* it has at the next of these.                                            *)
(*                                                                         *)
(* A saved stack pointer is modelled by the context whose frame it points  *)
(* to, and by Stale once the frame has been popped.  A switch to Stale     *)
(* jumps to what happens to be there: Wild, of which nothing more is said. *)
(* The TCBs lie in memory nobody has written, which reads as zero.         *)
(***************************************************************************)
EXTENDS Integers, Sequences, FiniteSets

CONSTANTS
  MAX_THREADS,
  Modes,        \* the values of FIFOS, a subset of {1, 2}
  ROUNDS,       \* rounds of a thread before it breaks out of its loop
  Wrap,         \* the modulus of counter, 2^32 in the code
  TickAt        \* the places a tick is taken at

Tid == 1 .. MAX_THREADS         \* thread t is fifos_threads[t - 1]
Kmain == 0                      \* the boot code, as a context
Ctx == Tid \cup {Kmain}
NULL == 0
Stale == -1
Wild == Stale                   \* the CPU follows a stale frame
Halted == -2                    \* cli; hlt

ThreadAt == {"entry", "incr", "line", "yield", "again", "count", "store",
             "reload", "cmp", "branch", "finish", "exit", "hlt", "woken"}
KmainAt == {"create", "first", "load", "switch"}

ASSUME FifosAssumption ==
  /\ MAX_THREADS \in Nat \ {0}
  /\ Modes \subseteq {1, 2}
  /\ ROUNDS \in Nat \ {0}
  /\ Wrap \in Nat /\ Wrap > ROUNDS
  /\ TickAt \subseteq ThreadAt \cup KmainAt

VARIABLES
  FIFOS,        \* the program built
  on,           \* the context the CPU is in, or Wild, or Halted
  at,           \* where each context is, or will go on
  reg,          \* the register it computes in (eax, edx; edi of Kmain)
  zf,           \* its zero flag
  id,           \* the local variable of thread()
  state, sp, next, prev,        \* TCB fields
  current, threads,             \* the run queue: its head and length
  done, counter, thread_ids     \* done[i] is done[i - 1] of the code

cpu == <<on, at, reg, zf, id>>
ring == <<next, prev, current, threads>>
work == <<done, counter, thread_ids>>
vars == <<FIFOS, on, at, reg, zf, id, state, sp, next, prev,
          current, threads, done, counter, thread_ids>>

-----------------------------------------------------------------------------
(* schedule(), for a current thread *)

Rotate ==
  /\ ~done[current]
  /\ current' = next[current]
  /\ UNCHANGED <<next, prev, threads>>

(* Mutant: the neighbour before still points to the thread taken out. *)
UnlinkBackwardOnly ==
  LET after == next[current] IN
  /\ done[current] /\ threads # 1
  /\ prev' = [prev EXCEPT ![after] = prev[current]]
  /\ current' = after
  /\ threads' = threads - 1
  /\ UNCHANGED next

(* Mutant: the neighbour after still points back to it. *)
UnlinkForwardOnly ==
  LET after == next[current] IN
  /\ done[current] /\ threads # 1
  /\ next' = [next EXCEPT ![prev[current]] = after]
  /\ current' = after
  /\ threads' = threads - 1
  /\ UNCHANGED prev

(* Mutant: the run queue's length is forgotten. *)
UnlinkUncounted ==
  LET after == next[current]
      linked == [next EXCEPT ![prev[current]] = after] IN
  /\ done[current] /\ threads # 1
  /\ next' = linked
  /\ current' = after
  /\ prev' = [prev EXCEPT ![after] = prev[current]]
  /\ UNCHANGED threads

(* `finished' is taken out.  The special case for two threads finds the    *)
(* pointer it would set already changed by the first assignment.           *)
Unlink ==
  LET after == next[current]
      linked == [next EXCEPT ![prev[current]] = after] IN
  /\ done[current] /\ threads # 1
  /\ next' = IF linked[after] = current
               THEN [linked EXCEPT ![after] = linked[current]] ELSE linked
  /\ current' = after
  /\ prev' = [prev EXCEPT ![after] = prev[current]]
  /\ threads' = threads - 1

(* Mutant: the count of threads is off by one. *)
HaltThereEarly == done[current] /\ threads <= 2 /\ on' = Halted /\ UNCHANGED ring

(* The last thread is done: cli; hlt inside schedule(). *)
HaltThere == done[current] /\ threads = 1 /\ on' = Halted /\ UNCHANGED ring

(* save_next_stack, the pops and the ret: go on from the frame the current *)
(* thread's stack pointer leads to, which is gone then.                    *)
Resume(saved) ==
  /\ on' = saved[current']
  /\ sp' = [saved EXCEPT ![current'] = Stale]

(* Mutant: the frame is saved after schedule() has changed current. *)
SwitchSavesLate(c) ==
  \/ /\ Rotate \/ Unlink
     /\ on' = [sp EXCEPT ![current'] = c][current']
     /\ sp' = [sp EXCEPT ![current'] = Stale]
  \/ HaltThere /\ UNCHANGED sp

(* dispatcher, and the end of timer_interrupt_asm: save_prev_stack stores  *)
(* the frame of context c in the current TCB, then schedule().             *)
Switch(c) ==
  LET saved == [sp EXCEPT ![current] = c] IN
  \/ (Rotate \/ Unlink) /\ Resume(saved)
  \/ HaltThere /\ sp' = saved

-----------------------------------------------------------------------------
(* kmain *)

Init ==
  /\ FIFOS \in Modes
  /\ on = Kmain
  /\ at = [c \in Ctx |-> IF c = Kmain THEN "create" ELSE "entry"]
  /\ reg = [c \in Ctx |-> IF c = Kmain THEN 1 ELSE 0]
  /\ zf = [t \in Tid |-> FALSE]
  /\ id = [t \in Tid |-> 0]
  /\ state = [t \in Tid |-> 0]
  /\ sp = [t \in Tid |-> Stale]
  /\ next = [t \in Tid |-> NULL]
  /\ prev = [t \in Tid |-> NULL]
  /\ current = NULL
  /\ threads = MAX_THREADS
  /\ done = [t \in Tid |-> FALSE]
  /\ counter = [t \in Tid |-> 0]
  /\ thread_ids = 1

KmainIn(place) == on = Kmain /\ at[Kmain] = place

KmainGoes(place) == at' = [at EXCEPT ![Kmain] = place]

(* The loop of kmain: thread_create of the first TCB whose state is 0, in  *)
(* which get_tcb finds the one kmain has just pointed to.                  *)
ThreadCreate ==
  /\ KmainIn("create")
  /\ reg[Kmain] <= MAX_THREADS
  /\ LET t == CHOOSE u \in Tid : state[u] = 0 /\ \A v \in Tid : v < u => state[v] # 0
     IN  /\ state' = [state EXCEPT ![t] = 1]
         /\ sp' = [sp EXCEPT ![t] = t]
         /\ next' = [next EXCEPT ![t] = NULL]
  /\ done' = [done EXCEPT ![reg[Kmain]] = FALSE]
  /\ reg' = [reg EXCEPT ![Kmain] = @ + 1]
  /\ UNCHANGED <<FIFOS, on, at, zf, id, prev, current, threads, counter,
                 thread_ids>>

(* The ring build_runqueue makes of the threads. *)
RingNext == [t \in Tid |-> IF t = MAX_THREADS THEN 1 ELSE t + 1]
RingPrev == [t \in Tid |-> IF t = 1 THEN MAX_THREADS ELSE t - 1]

BuildRunqueue ==
  /\ KmainIn("create")
  /\ reg[Kmain] > MAX_THREADS
  /\ next' = RingNext
  /\ prev' = RingPrev
  /\ KmainGoes("first")
  /\ UNCHANGED <<FIFOS, on, reg, zf, id, state, sp, current, threads>>
  /\ UNCHANGED work

SetCurrent ==
  /\ KmainIn("first")
  /\ current' = 1
  /\ KmainGoes("load")
  /\ UNCHANGED <<FIFOS, on, reg, zf, id, state, sp, next, prev, threads>>
  /\ UNCHANGED work

(* dispatch_first_run: save_next_stack reads the stack pointer into edi... *)
LoadFirst ==
  /\ KmainIn("load")
  /\ reg' = [reg EXCEPT ![Kmain] = sp[current]]
  /\ KmainGoes("switch")
  /\ UNCHANGED <<FIFOS, on, zf, id, state, sp>>
  /\ UNCHANGED ring /\ UNCHANGED work

(* ...and the frame there is popped. *)
SwitchFirst ==
  /\ KmainIn("switch")
  /\ on' = reg[Kmain]
  /\ sp' = [sp EXCEPT ![current] = Stale]
  /\ UNCHANGED <<FIFOS, at, reg, zf, id, state>>
  /\ UNCHANGED ring /\ UNCHANGED work

Boot == ThreadCreate \/ BuildRunqueue \/ SetCurrent \/ LoadFirst \/ SwitchFirst

-----------------------------------------------------------------------------
(* thread(), run by t *)

In(t, place) == on = t /\ at[t] = place

Goes(t, place) == at' = [at EXCEPT ![t] = place]

Computes(t, value) == reg' = [reg EXCEPT ![t] = value]

(* int id = thread_ids++ *)
LoadId(t) ==
  /\ In(t, "entry")
  /\ Computes(t, thread_ids)
  /\ Goes(t, "incr")
  /\ UNCHANGED <<FIFOS, on, zf, id, state, sp>>
  /\ UNCHANGED ring /\ UNCHANGED work

StoreId(t) ==
  /\ In(t, "incr")
  /\ thread_ids' = reg[t] + 1
  /\ id' = [id EXCEPT ![t] = reg[t]]
  /\ Computes(t, 0)
  /\ Goes(t, "line")
  /\ UNCHANGED <<FIFOS, on, zf, state, sp, done, counter>>
  /\ UNCHANGED ring

(* Mutant: the wrong one of the two programs yields. *)
PrintLineSwapped(t) ==
  /\ In(t, "line")
  /\ Goes(t, IF FIFOS = 2 THEN "yield" ELSE "count")
  /\ UNCHANGED <<FIFOS, on, reg, zf, id, state, sp>>
  /\ UNCHANGED ring /\ UNCHANGED work

(* A line of ten numbers, and whether the code after it yields. *)
PrintLine(t) ==
  /\ In(t, "line")
  /\ Goes(t, IF FIFOS = 1 THEN "yield" ELSE "count")
  /\ UNCHANGED <<FIFOS, on, reg, zf, id, state, sp>>
  /\ UNCHANGED ring /\ UNCHANGED work

(* yield calls dispatcher, which returns to dispatcher: the instruction    *)
(* after the call.  The second time it returns to thread().                *)
Yield(t) ==
  /\ \/ In(t, "yield") /\ Goes(t, "again")
     \/ In(t, "again") /\ Goes(t, "count")
  /\ Switch(t)
  /\ UNCHANGED <<FIFOS, reg, zf, id, state>> /\ UNCHANGED work

(* ++counter[id - 1] == 3 *)
LoadCounter(t) ==
  /\ In(t, "count")
  /\ Computes(t, (counter[id[t]] + 1) % Wrap)
  /\ Goes(t, "store")
  /\ UNCHANGED <<FIFOS, on, zf, id, state, sp>>
  /\ UNCHANGED ring /\ UNCHANGED work

StoreCounter(t) ==
  /\ In(t, "store")
  /\ counter' = [counter EXCEPT ![id[t]] = reg[t]]
  /\ Goes(t, "reload")
  /\ UNCHANGED <<FIFOS, on, reg, zf, id, state, sp, done, thread_ids>>
  /\ UNCHANGED ring

ReloadCounter(t) ==
  /\ In(t, "reload")
  /\ Computes(t, counter[id[t]])
  /\ Goes(t, "cmp")
  /\ UNCHANGED <<FIFOS, on, zf, id, state, sp>>
  /\ UNCHANGED ring /\ UNCHANGED work

(* Mutant: one round less. *)
CompareEarly(t) ==
  /\ In(t, "cmp")
  /\ zf' = [zf EXCEPT ![t] = reg[t] + 1 = ROUNDS]
  /\ Computes(t, 0)
  /\ Goes(t, "branch")
  /\ UNCHANGED <<FIFOS, on, id, state, sp>>
  /\ UNCHANGED ring /\ UNCHANGED work

Compare(t) ==
  /\ In(t, "cmp")
  /\ zf' = [zf EXCEPT ![t] = reg[t] = ROUNDS]
  /\ Computes(t, 0)
  /\ Goes(t, "branch")
  /\ UNCHANGED <<FIFOS, on, id, state, sp>>
  /\ UNCHANGED ring /\ UNCHANGED work

Branch(t) ==
  /\ In(t, "branch")
  /\ Goes(t, IF zf[t] THEN "finish" ELSE "line")
  /\ zf' = [zf EXCEPT ![t] = FALSE]
  /\ UNCHANGED <<FIFOS, on, reg, id, state, sp>>
  /\ UNCHANGED ring /\ UNCHANGED work

(* Mutant: the flag of the next thread is set. *)
SetDoneOffByOne(t) ==
  /\ In(t, "finish")
  /\ done' = [done EXCEPT ![(id[t] % MAX_THREADS) + 1] = TRUE]
  /\ Goes(t, "exit")
  /\ UNCHANGED <<FIFOS, on, reg, zf, id, state, sp, counter, thread_ids>>
  /\ UNCHANGED ring

(* done[id - 1] = TRUE, and the return into exit_thread *)
SetDone(t) ==
  /\ In(t, "finish")
  /\ done' = [done EXCEPT ![id[t]] = TRUE]
  /\ Goes(t, "exit")
  /\ UNCHANGED <<FIFOS, on, reg, zf, id, state, sp, counter, thread_ids>>
  /\ UNCHANGED ring

-----------------------------------------------------------------------------
(* exit_thread *)

(* With FIFOS = 1 it schedules, and dispatches without saving. *)
ExitDispatches(t) ==
  /\ FIFOS = 1
  /\ In(t, "exit")
  /\ state' = [state EXCEPT ![current] = 0]
  /\ \/ (Rotate \/ Unlink) /\ Resume(sp)
     \/ HaltThere /\ UNCHANGED sp
  /\ UNCHANGED <<FIFOS, at, reg, zf, id>> /\ UNCHANGED work

(* With FIFOS = 2 it waits for the tick that takes it out of the queue. *)
ExitWaits(t) ==
  /\ FIFOS = 2
  /\ In(t, "exit")
  /\ state' = [state EXCEPT ![current] = 0]
  /\ Goes(t, "hlt")
  /\ UNCHANGED <<FIFOS, on, reg, zf, id, sp>>
  /\ UNCHANGED ring /\ UNCHANGED work

(* Resumed after that tick, it returns past the top of its stack. *)
ExitReturns(t) ==
  /\ In(t, "woken")
  /\ on' = Wild
  /\ UNCHANGED <<FIFOS, at, reg, zf, id, state, sp>>
  /\ UNCHANGED ring /\ UNCHANGED work

Run(t) ==
  \/ LoadId(t) \/ StoreId(t) \/ PrintLine(t) \/ Yield(t)
  \/ LoadCounter(t) \/ StoreCounter(t) \/ ReloadCounter(t)
  \/ Compare(t) \/ Branch(t) \/ SetDone(t)
  \/ ExitDispatches(t) \/ ExitWaits(t) \/ ExitReturns(t)

-----------------------------------------------------------------------------
(* timer_interrupt_asm.  The flags it saves are not those the interrupt    *)
(* pushed but those PIC_sendEOI_0 left, with ZF clear.  Before there is a  *)
(* current thread it saves and restores through NULL, to no effect.        *)
Tick ==
  /\ FIFOS = 2
  /\ on \in Ctx /\ at[on] \in TickAt
  /\ current # NULL
  /\ zf' = [t \in Tid |-> IF t = on THEN FALSE ELSE zf[t]]
  /\ at' = IF at[on] = "hlt" THEN [at EXCEPT ![on] = "woken"] ELSE at
  /\ Switch(on)
  /\ UNCHANGED <<FIFOS, reg, id, state>> /\ UNCHANGED work

Stopped == on \in {Wild, Halted} /\ UNCHANGED vars

Next == Boot \/ (\E t \in Tid : Run(t)) \/ Tick \/ Stopped

Spec == Init /\ [][Next]_vars

(* The CPU does not stop, the timer ticks on, and at some twenty ticks a   *)
(* second a thread gets something done in infinitely many of its turns.    *)
Fairness ==
  /\ WF_vars(Boot)
  /\ WF_vars(Tick)
  /\ \A t \in Tid : SF_vars(Run(t))

FairSpec == Spec /\ Fairness

-----------------------------------------------------------------------------
(* Invariants *)

TypeOK ==
  /\ FIFOS \in Modes
  /\ on \in Ctx \cup {Wild, Halted}
  /\ at \in [Ctx -> ThreadAt \cup KmainAt]
  /\ \A c \in Ctx : at[c] \in IF c = Kmain THEN KmainAt ELSE ThreadAt
  /\ reg \in [Ctx -> Int]
  /\ zf \in [Tid -> BOOLEAN]
  /\ id \in [Tid -> 0 .. MAX_THREADS]
  /\ state \in [Tid -> {0, 1}]
  /\ sp \in [Tid -> Ctx \cup {Stale}]
  /\ next \in [Tid -> Tid \cup {NULL}]
  /\ prev \in [Tid -> Tid \cup {NULL}]
  /\ current \in Tid \cup {NULL}
  /\ threads \in Tid
  /\ done \in [Tid -> BOOLEAN]
  /\ counter \in [Tid -> 0 .. Wrap - 1]
  /\ thread_ids \in 1 .. MAX_THREADS + 1

(* The run queue: the threads whose neighbours point to them. *)
Ring == {t \in Tid : next[t] \in Tid /\ prev[next[t]] = t}

(* Whatever thread is unlinked, and whenever, next and prev are inverse to *)
(* each other in the run queue, it is one ring (no part of it is closed    *)
(* under next), and `threads' is its length, by which schedule() knows     *)
(* the last thread.                                                        *)
RingOK ==
  current # NULL =>
    /\ current \in Ring
    /\ \A t \in Ring : next[t] \in Ring /\ prev[t] \in Ring /\ next[prev[t]] = t
    /\ \A S \in (SUBSET Ring) \ {{}} : (\A t \in S : next[t] \in S) => S = Ring
    /\ threads = Cardinality(Ring)

(* The CPU runs the current thread on its own stack, and every other       *)
(* thread of the queue can be resumed on its own: only kmain, if a tick    *)
(* catches it in its last instructions, stands in for the first thread.    *)
OwnContext ==
  on \in Tid =>
    /\ current = on
    /\ \A t \in Ring \ {on} : sp[t] = t \/ (t = 1 /\ sp[t] = Kmain)

(* The threads that have taken their number. *)
Numbered == {t \in Tid : at[t] \notin {"entry", "incr"}}

(* However many updates of thread_ids are lost, a thread's number is never *)
(* 0 or beyond MAX_THREADS: counter[id - 1] and done[id - 1] exist.        *)
NumberOK ==
  /\ thread_ids <= 1 + Cardinality(Numbered)
  /\ \A t \in Tid : at[t] = "incr" => reg[t] \in 1 .. 1 + Cardinality(Numbered)
  /\ \A t \in Numbered : id[t] \in Tid

(* The threads that have left the loop of thread() for good. *)
Finished(t) == at[t] \in {"exit", "hlt", "woken"}

(* Wherever ticks come, and whoever shares a number with whom, the kernel  *)
(* does not halt before every thread has left its loop: it halts on the    *)
(* flags of all numbers, and no thread can set more than one.              *)
HaltsWhenDone == on = Halted => \A t \in Tid : Finished(t)

(* A thread that is marked done has printed all its lines and prints no    *)
(* more, and none is resumed in exit_thread to return past its stack.      *)
DoneIsDone ==
  /\ \A t \in Tid : done[t] => counter[t] = ROUNDS /\ Finished(t)
  /\ on # Wild

-----------------------------------------------------------------------------
(* The inductive invariant *)

(* Until kmain sets current, it alone runs; thread by thread it makes the  *)
(* TCBs and then the ring.                                                 *)
BootInv ==
  /\ current = NULL <=> at[Kmain] \in {"create", "first"}
  /\ current = NULL =>
       /\ on = Kmain
       /\ threads = MAX_THREADS
       /\ \A t \in Tid : at[t] = "entry" /\ ~done[t]
       /\ thread_ids = 1
  /\ at[Kmain] = "create" =>
       /\ reg[Kmain] \in 1 .. MAX_THREADS + 1
       /\ \A t \in Tid : IF t < reg[Kmain] THEN state[t] = 1 /\ sp[t] = t
                                           ELSE state[t] = 0
  /\ at[Kmain] = "first" =>
       /\ next = RingNext
       /\ prev = RingPrev
       /\ \A t \in Tid : sp[t] = t

(* While kmain runs it is in place of the first thread.  The stack pointer *)
(* it has read is that of the first thread, or of its own popped frame.    *)
KmainInv ==
  /\ at[Kmain] = "switch" => reg[Kmain] \in {1, Stale}
  /\ on = Kmain /\ current # NULL =>
       /\ current = 1
       /\ sp[1] \in {1, Stale}
       /\ \A t \in Ring \ {1} : sp[t] = t

(* With FIFOS = 1 the threads get their numbers in order, before the first *)
(* of them goes on, so each sets its own flag before it calls exit_thread. *)
YieldInv ==
  FIFOS = 1 /\ current # NULL =>
    /\ \A t \in Numbered : id[t] = t
    /\ \A t \in Tid : done[t] <=> at[t] = "exit"
    /\ Numbered # Tid =>
         /\ next = RingNext
         /\ \A t \in Tid : /\ (t < current => at[t] = "again")
                            /\ (t > current => at[t] = "entry")
         /\ at[current] \in {"entry", "incr", "line", "yield"}
         /\ at[current] \in {"entry", "incr"} => thread_ids = current
         /\ at[current] = "incr" => reg[current] = current
         /\ at[current] \in {"line", "yield"} => thread_ids = current + 1

IInv ==
  /\ TypeOK
  /\ \A t \in Tid : at[t] = "store" => reg[t] \in 0 .. Wrap - 1
  /\ BootInv /\ KmainInv /\ NumberOK
  /\ RingOK /\ OwnContext /\ YieldInv

-----------------------------------------------------------------------------
(* What holds besides as long as no tick has come at one of the places at  *)
(* which it changes what the kernel does.  So it is whenever FIFOS = 1.    *)

Critical == {"load", "switch", "entry", "incr", "branch"}

CalmStep == Tick => at[on] \notin Critical

(* kmain switches to the first thread before any tick, and nothing leads   *)
(* back to it or to a thread that has exited.                              *)
OnInv ==
  /\ on # Wild
  /\ at[Kmain] = "switch" /\ on = Kmain => reg[Kmain] = 1
  /\ on = Kmain /\ current # NULL => sp[1] = 1 /\ \A t \in Tid : at[t] = "entry"
  /\ on \in Tid => \A t \in Ring \ {on} : sp[t] = t
  /\ current # NULL /\ on # Halted => \A t \in Ring : at[t] # "woken"

(* The threads take their numbers in the order of the queue, each before   *)
(* the next one is started.                                                *)
NumberInv ==
  current # NULL =>
    /\ \A t \in Numbered : id[t] = t
    /\ Numbered # Tid =>
         /\ \A t \in Tid : /\ (t < current => t \in Numbered)
                           /\ (t > current => at[t] = "entry")
                           /\ (t >= current /\ t # MAX_THREADS => next[t] = t + 1)
         /\ at[current] \in {"entry", "incr"} => thread_ids = current
         /\ at[current] = "incr" => reg[current] = current
         /\ current \in Numbered => thread_ids = current + 1

(* The counter of a thread is its own, and is compared at its last value.  *)
WorkOf(t) ==
  /\ at[t] \in {"entry", "incr"} => counter[t] = 0
  /\ at[t] \in {"entry", "incr", "line", "yield", "again", "count", "store"} =>
       counter[t] < ROUNDS
  /\ at[t] = "store" => reg[t] = counter[t] + 1
  /\ at[t] \in {"reload", "cmp", "branch"} => counter[t] <= ROUNDS
  /\ at[t] = "cmp" => reg[t] = counter[t]
  /\ at[t] = "branch" => (zf[t] <=> counter[t] = ROUNDS)
  /\ at[t] = "finish" \/ Finished(t) => counter[t] = ROUNDS
  /\ done[t] <=> Finished(t)

WorkInv == \A t \in Tid : WorkOf(t)

(* The turn of the threads that yield, by round r: those before the        *)
(* current one have had it.  In the first turn of a round a thread comes   *)
(* to the yield after its line, in the second it only returns from it.     *)
FirstTurn(r) ==
  /\ \A t \in Tid : t < current => counter[t] = r /\ at[t] \in {"again", "exit"}
  /\ \A t \in Tid : t > current =>
       (at[t] = "entry" /\ r = 0) \/ (at[t] = "count" /\ counter[t] = r - 1)
  /\ at[current] \in {"count", "store"} => counter[current] = r - 1
  /\ at[current] \notin {"count", "store"} => counter[current] = r
  /\ at[current] # "again"

SecondTurn(r) ==
  \A t \in Tid : /\ counter[t] = r
                 /\ at[t] = IF t < current THEN "count" ELSE "again"

(* Nobody leaves the queue before the last round, in which they leave it   *)
(* one after the other.                                                    *)
StepInv ==
  FIFOS = 1 /\ current # NULL =>
    \E r \in 0 .. ROUNDS :
      /\ FirstTurn(r) \/ SecondTurn(r)
      /\ IF r < ROUNDS THEN next = RingNext
         ELSE /\ Ring = {t \in Tid : t >= current}
              /\ \A t \in Tid : t >= current /\ t # MAX_THREADS => next[t] = t + 1

CalmInv == OnInv /\ NumberInv /\ WorkInv /\ StepInv

-----------------------------------------------------------------------------
(* What the halt rests on, wherever ticks come *)

(* A flag is set by the thread that has its number and has left its loop;  *)
(* who is out of the queue has his flag set; and the kernel halts for a    *)
(* thread that is alone in it and has his set too.                         *)
HaltInv ==
  /\ \A i \in Tid : done[i] => \E t \in Tid : Finished(t) /\ id[t] = i
  /\ current # NULL => \A t \in Tid \ Ring : done[t]
  /\ on = Halted => current # NULL /\ done[current] /\ threads = 1

-----------------------------------------------------------------------------
(* Properties of steps and behaviours *)

(* A thread that has left the run queue never comes back to it, nor to the *)
(* CPU.                                                                    *)
LeftForGood ==
  [][\A t \in Tid \ Ring :
       current # NULL => t \notin Ring' /\ current' # t]_vars

(* The thread n hops after the current one. *)
Hop[n \in 0 .. MAX_THREADS] == IF n = 0 THEN current ELSE next[Hop[n - 1]]

(* The threads in the order of their turns. *)
line == IF current = NULL THEN << >> ELSE [i \in 1 .. threads |-> Hop[i - 1]]

(* The line comes back to its head, and nobody is in it twice. *)
LineInv ==
  current # NULL =>
    /\ next[Hop[threads - 1]] = current
    /\ \A n, m \in 0 .. threads - 1 : Hop[n] = Hop[m] => n = m

(* The lines a thread has printed: those its counter has counted, and one  *)
(* that it will count when it is back from its yield.                      *)
LinesOf(t) ==
  counter[t] + IF at[t] \in {"yield", "again", "count", "store"} THEN 1 ELSE 0

(* With FIFOS = 1 the threads print in step, though each yield goes round  *)
(* the queue twice: in every step LinesOf counts the line printed, if one  *)
(* is, and after it no thread is two lines ahead of another.               *)
InStep ==
  [][FIFOS = 1 =>
       /\ \A t \in Tid :
            LinesOf(t)' = LinesOf(t) + IF PrintLine(t) THEN 1 ELSE 0
       /\ \A t, u \in Tid : LinesOf(t)' <= LinesOf(u)' + 1]_vars

Line == INSTANCE RoundRobin
  WITH N <- MAX_THREADS,
       line <- line,
       finished <- {t \in Tid : Finished(t)},
       stopped <- (on = Halted)

(* The kernel is a round robin over its threads: see module RoundRobin. *)
ImplementsRoundRobin == Line!Spec

(* All threads print all their lines, and the kernel halts. *)
AllFinish == <>(on = Halted /\ \A t \in Tid : Finished(t))

(* kentry.c:101: a thread is unlinked when we are done with it. *)
UnlinkedFinished == current # NULL => \A t \in Tid \ Ring : Finished(t)
=============================================================================
