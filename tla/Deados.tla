------------------------------- MODULE Deados -------------------------------
(***************************************************************************)
(* DEADOS, src/fifos_a/CS552-FIFOS/deados: threads with a period and a     *)
(* budget, scheduled by the timer (kentry.c, heap.h, context_switch.s and  *)
(* timer_interrupt_asm of fifos.s).  One tick is one unit of time.         *)
(*                                                                         *)
(* The gate of the timer masks interrupts, so nothing comes between the    *)
(* steps of its handler: a step is one turn of one of its loops, and       *)
(* exactly one step is enabled until the handler has switched to a thread. *)
(*                                                                         *)
(* Stack pointers are modelled as in module Fifos: by the context whose    *)
(* frame they lead to, and by Stale once it has been popped.  Reading a    *)
(* deadline through the NULL pointer that peek returns for an empty list   *)
(* gives whatever the real-mode interrupt table holds there.               *)
(***************************************************************************)
EXTENDS Integers, Sequences, FiniteSets, FiniteSetsExt

CONSTANTS
  MAX_THREADS,
  Workloads,    \* periods and budgets kmain may be built with, the places
                \* a tick is taken at and the number of ticks
  LINE,         \* numbers in a line of output, 10 in the code
  ROUNDS,       \* lines of a thread, 3 in the code
  Wrap          \* the modulus of counter, 2^32 in the code

Tid == 1 .. MAX_THREADS         \* thread t is fifos_threads[t - 1]
Burner == MAX_THREADS + 2       \* burner_thread
Kmain == 0
NULL == -1
Stale == -2
Wild == Stale                   \* the CPU follows a stale or a NULL pointer
Ctx == Tid \cup {Burner, Kmain}

ThreadAt == {"start", "print", "hlt", "branch", "finish", "last", "exit", "gone"}
KmainAt == {"create", "load", "switch"}
BurnerAt == {"burn"}

ASSUME DeadosAssumption ==
  /\ MAX_THREADS \in Nat \ {0}
  /\ Workloads \subseteq
       [period : [Tid -> Nat \ {0}], budget : [Tid -> Nat], horizon : Nat,
        ticks : SUBSET (ThreadAt \cup (KmainAt \ {"create"}) \cup BurnerAt)]
  /\ LINE \in Nat \ {0} /\ ROUNDS \in Nat \ {0}
  /\ Wrap \in Nat /\ Wrap > ROUNDS

VARIABLES
  work,                       \* the workload
  on,                         \* the context the CPU is in, or Wild
  at,                         \* where each context is, or will go on
  edi,                        \* the register kmain switches by
  zf, id, left,               \* of thread(): zero flag, id, hlts to go
  counter, done, state,       \* of thread t, [t - 1] in the code
  sp, deadline, run_time,     \* TCB fields
  current,
  ready,                      \* the list at top_node
  waiting,                    \* waiting[0 .. waiting_size - 1]
  nodes,                      \* nodes taken from heap_memory
  current_time,
  step,                       \* what the CPU does: "run", or the handler's part
  i,                          \* in check_waiting_threads
  pos                         \* in swap, or 0 outside

cpu == <<on, at, edi>>
thread == <<zf, id, left, counter, done, state>>
queues == <<deadline, run_time, current, ready, waiting, nodes>>
handler == <<current_time, step, i, pos>>
vars == <<work, on, at, edi, zf, id, left, counter, done, state, sp,
          deadline, run_time, current, ready, waiting, nodes,
          current_time, step, i, pos>>

-----------------------------------------------------------------------------
(* kmain *)

Init ==
  /\ work \in Workloads
  /\ on = Kmain
  /\ at = [c \in Ctx |-> IF c = Kmain THEN "create"
                         ELSE IF c = Burner THEN "burn" ELSE "start"]
  /\ edi = Stale
  /\ zf = [t \in Tid |-> FALSE]
  /\ id = [t \in Tid |-> 0]
  /\ left = [t \in Tid |-> LINE]
  /\ counter = [t \in Tid |-> 0]
  /\ done = [t \in Tid |-> FALSE]
  /\ state = [t \in Tid |-> 0]
  /\ sp = [c \in Tid \cup {Burner} |-> Stale]
  /\ deadline = [t \in Tid |-> 0]
  /\ run_time = [t \in Tid |-> 0]
  /\ current = NULL
  /\ ready = << >>
  /\ waiting = << >>
  /\ nodes = 0
  /\ current_time = 0
  /\ step = "run"
  /\ i = 1
  /\ pos = 0

KmainIn(place) == step = "run" /\ on = Kmain /\ at[Kmain] = place

KmainGoes(place) == at' = [at EXCEPT ![Kmain] = place]

(* One turn of kmain's loop: the thread waits for time 0, and thread_create *)
(* finds its TCB the only one that is idle.                                 *)
ThreadCreate ==
  /\ KmainIn("create")
  /\ Len(waiting) < MAX_THREADS
  /\ LET t == CHOOSE u \in Tid : state[u] = 0 /\ \A v \in Tid : v < u => state[v] # 0
     IN  /\ state' = [state EXCEPT ![t] = 1]
         /\ sp' = [sp EXCEPT ![t] = t]
  /\ waiting' = Append(waiting, Len(waiting) + 1)
  /\ UNCHANGED <<work, cpu, zf, id, left, counter, done,
                 deadline, run_time, current, ready, nodes, handler>>

(* With no TCB idle thread_create sets up burner_thread. *)
BurnerCreate ==
  /\ KmainIn("create")
  /\ Len(waiting) = MAX_THREADS
  /\ sp' = [sp EXCEPT ![Burner] = Burner]
  /\ current' = Burner
  /\ KmainGoes("load")
  /\ UNCHANGED <<work, on, edi, thread, deadline, run_time, ready,
                 waiting, nodes, handler>>

(* dispatch_first_run reads the stack pointer, interrupts enabled... *)
LoadFirst ==
  /\ KmainIn("load")
  /\ edi' = sp[current]
  /\ KmainGoes("switch")
  /\ UNCHANGED <<work, on, thread, sp, queues, handler>>

(* ...and pops the frame there. *)
SwitchFirst ==
  /\ KmainIn("switch")
  /\ on' = edi
  /\ sp' = [sp EXCEPT ![current] = Stale]
  /\ UNCHANGED <<work, at, edi, thread, queues, handler>>

Boot == ThreadCreate \/ BurnerCreate \/ LoadFirst \/ SwitchFirst

-----------------------------------------------------------------------------
(* thread() and exit_thread(), run by t *)

In(t, place) == step = "run" /\ on = t /\ at[t] = place

Goes(t, place) == at' = [at EXCEPT ![t] = place]

(* int id = current->tid *)
Start(t) ==
  /\ In(t, "start")
  /\ id' = [id EXCEPT ![t] = current]
  /\ Goes(t, "print")
  /\ UNCHANGED <<work, on, edi, zf, left, counter, done, state, sp, queues,
                 handler>>

(* The for loop: a number, then hlt, which the next tick ends. *)
PrintNumber(t) ==
  /\ In(t, "print") /\ left[t] > 0
  /\ left' = [left EXCEPT ![t] = @ - 1]
  /\ Goes(t, "hlt")
  /\ UNCHANGED <<work, on, edi, zf, id, counter, done, state, sp, queues,
                 handler>>

(* ++counter[id - 1] == 3.  The counter is this thread's own. *)
Count(t) ==
  /\ In(t, "print") /\ left[t] = 0
  /\ counter' = [counter EXCEPT ![id[t]] = (@ + 1) % Wrap]
  /\ zf' = [zf EXCEPT ![t] = counter'[id[t]] = ROUNDS]
  /\ left' = [left EXCEPT ![t] = LINE]
  /\ Goes(t, "branch")
  /\ UNCHANGED <<work, on, edi, id, done, state, sp, queues, handler>>

Branch(t) ==
  /\ In(t, "branch")
  /\ Goes(t, IF zf[t] THEN "finish" ELSE "print")
  /\ UNCHANGED <<work, on, edi, thread, sp, queues, handler>>

(* done[id - 1] = TRUE, and a last hlt before the return *)
Finish(t) ==
  /\ In(t, "finish")
  /\ done' = [done EXCEPT ![id[t]] = TRUE]
  /\ Goes(t, "last")
  /\ UNCHANGED <<work, on, edi, zf, id, left, counter, state, sp, queues,
                 handler>>

(* exit_thread frees the TCB it finds through current, and halts; the      *)
(* scheduler goes on giving it its budget.                                 *)
Exit(t) ==
  /\ In(t, "exit")
  /\ state' = [state EXCEPT ![current] = 0]
  /\ Goes(t, "gone")
  /\ UNCHANGED <<work, on, edi, zf, id, left, counter, done, sp, queues,
                 handler>>

Run(t) ==
  \/ Start(t) \/ PrintNumber(t) \/ Count(t) \/ Branch(t) \/ Finish(t) \/ Exit(t)

-----------------------------------------------------------------------------
(* The list of ready threads: add_node, swap and peek of heap.h *)

(* Mutant: later deadlines move to the front. *)
BubbledReversed ==
  IF deadline[ready[pos]] < deadline[ready[pos + 1]]
    THEN [ready EXCEPT ![pos] = ready[pos + 1], ![pos + 1] = ready[pos]]
    ELSE ready

(* A turn of the loop of swap. *)
Bubbled ==
  IF deadline[ready[pos]] > deadline[ready[pos + 1]]
    THEN [ready EXCEPT ![pos] = ready[pos + 1], ![pos + 1] = ready[pos]]
    ELSE ready

Bubble ==
  /\ pos > 0
  /\ IF pos < Len(ready) THEN ready' = Bubbled /\ pos' = pos + 1
                         ELSE pos' = 0 /\ UNCHANGED ready
  /\ UNCHANGED <<work, cpu, thread, sp, deadline, run_time, current, waiting,
                 nodes, current_time, step, i>>

(* Mutant: the job added has the deadline of the last one. *)
AddNodeAgain(t, list) ==
  /\ ready' = <<t>> \o list
  /\ nodes' = nodes + 1
  /\ pos' = 1
  /\ UNCHANGED deadline

(* The next job of t, in a new node at the front of list, to be bubbled.   *)
(* Nodes are never freed.                                                  *)
AddNode(t, list) ==
  /\ deadline' = [deadline EXCEPT ![t] = @ + work.period[t]]
  /\ ready' = <<t>> \o list
  /\ nodes' = nodes + 1
  /\ pos' = 1

-----------------------------------------------------------------------------
(* timer_interrupt_asm: save_prev_stack, schedule, increase_time, and the  *)
(* switch.  The flags it saves are those PIC_sendEOI_0 left.               *)

Handling(part) == step = part /\ pos = 0

(* Mutant: the first place is not looked at. *)
SecondWaiting == 2

FirstWaiting == 1

Tick ==
  /\ step = "run" /\ on \in Ctx
  /\ at[on] \in work.ticks
  /\ current_time < work.horizon
  /\ sp' = [sp EXCEPT ![current] = on]
  /\ at' = [at EXCEPT ![on] = IF @ = "hlt" THEN "print"
                              ELSE IF @ = "last" THEN "exit" ELSE @]
  /\ zf' = [t \in Tid |-> IF t = on THEN FALSE ELSE zf[t]]
  /\ step' = "check"
  /\ i' = FirstWaiting
  /\ UNCHANGED <<work, on, edi, id, left, counter, done, state, queues,
                 current_time, pos>>

(* check_waiting_threads: the thread at i is due and its next job ready,   *)
(* and shift_queue closes the gap.                                         *)
Shifted == [j \in 1 .. Len(waiting) - 1 |->
              IF j < i THEN waiting[j] ELSE waiting[j + 1]]

Release ==
  /\ Handling("check") /\ i <= Len(waiting)
  /\ deadline[waiting[i]] <= current_time
  /\ AddNode(waiting[i], ready)
  /\ run_time' = [run_time EXCEPT ![waiting[i]] = 0]
  /\ waiting' = Shifted
  /\ UNCHANGED <<work, cpu, thread, sp, current, current_time, step, i>>

NotDue ==
  /\ Handling("check") /\ i <= Len(waiting)
  /\ deadline[waiting[i]] > current_time
  /\ i' = i + 1
  /\ UNCHANGED <<work, cpu, thread, sp, queues, current_time, step, pos>>

(* schedule, after the check: current->run_time++, then its conditions.    *)
Deciding == Handling("check") /\ i > Len(waiting)

Ran == run_time[current] + 1

(* Mutant: one tick too many. *)
UsedUpLate == Ran > work.budget[current]

UsedUp == Ran >= work.budget[current]

(* What is read through a NULL heap_peak may be any number. *)
MayGoOn ==
  /\ ready # << >> => deadline[Head(ready)] >= deadline[current]
  /\ current_time < deadline[current]

MayMiss ==
  ready # << >> /\ current_time < deadline[current] =>
    deadline[Head(ready)] < deadline[current]

Charge == run_time' = IF current \in Tid THEN [run_time EXCEPT ![current] = Ran]
                                         ELSE run_time

(* The burner thread, with no other ready, or a job that may go on. *)
GoOn ==
  /\ Deciding
  /\ IF current = Burner THEN ready = << >> ELSE ~UsedUp /\ MayGoOn
  /\ Charge
  /\ step' = "switch"
  /\ UNCHANGED <<work, cpu, thread, sp, deadline, current, ready, waiting,
                 nodes, current_time, i, pos>>

(* The budget is used up, and no other thread is ready. *)
ToBurner ==
  /\ Deciding
  /\ current \in Tid /\ UsedUp /\ ready = << >>
  /\ Charge
  /\ waiting' = Append(waiting, current)
  /\ current' = Burner
  /\ step' = "switch"
  /\ UNCHANGED <<work, cpu, thread, sp, deadline, ready, nodes, current_time,
                 i, pos>>

(* Another thread is to run: it is popped.  "met" or "miss". *)
Displace ==
  /\ Deciding
  /\ IF current = Burner THEN ready # << >>
     ELSE IF UsedUp THEN ready # << >> ELSE MayMiss
  /\ Charge
  /\ step' = "pop"
  /\ UNCHANGED <<work, cpu, thread, sp, deadline, current, ready, waiting,
                 nodes, current_time, i, pos>>

(* pop: a thread whose deadline has passed goes back with its next job. *)
PopAgain ==
  /\ Handling("pop") /\ ready # << >>
  /\ deadline[Head(ready)] <= current_time
  /\ AddNode(Head(ready), Tail(ready))
  /\ UNCHANGED <<work, cpu, thread, sp, run_time, current, waiting,
                 current_time, step, i>>

(* Mutant: the thread displaced is forgotten. *)
PreviousLost == waiting

Previous == IF current \in Tid THEN Append(waiting, current) ELSE waiting

(* Mutant: the first is taken though its deadline has passed. *)
PopPastDeadline ==
  /\ Handling("pop")
  /\ current' = IF ready = << >> THEN NULL ELSE Head(ready)
  /\ ready' = IF ready = << >> THEN << >> ELSE Tail(ready)
  /\ run_time' = IF ready = << >> THEN run_time
                                  ELSE [run_time EXCEPT ![Head(ready)] = 0]
  /\ waiting' = Previous
  /\ step' = "switch"
  /\ UNCHANGED <<work, cpu, thread, sp, deadline, nodes, current_time, i, pos>>

(* The first of the others becomes current, or NULL; the thread displaced  *)
(* waits for its next job.                                                 *)
Pop ==
  /\ Handling("pop")
  /\ ready # << >> => deadline[Head(ready)] > current_time
  /\ current' = IF ready = << >> THEN NULL ELSE Head(ready)
  /\ ready' = IF ready = << >> THEN << >> ELSE Tail(ready)
  /\ run_time' = IF ready = << >> THEN run_time
                                  ELSE [run_time EXCEPT ![Head(ready)] = 0]
  /\ waiting' = Previous
  /\ step' = "switch"
  /\ UNCHANGED <<work, cpu, thread, sp, deadline, nodes, current_time, i, pos>>

(* Mutant: increase_time is not called. *)
SwitchTimeless ==
  /\ Handling("switch")
  /\ on' = IF current = NULL THEN Wild ELSE sp[current]
  /\ sp' = [c \in Tid \cup {Burner} |-> IF c = current THEN Stale ELSE sp[c]]
  /\ step' = "run"
  /\ UNCHANGED <<work, at, edi, thread, queues, current_time, i, pos>>

(* increase_time, save_next_stack, the pops and the ret. *)
Switch ==
  /\ Handling("switch")
  /\ current_time' = current_time + 1
  /\ on' = IF current = NULL THEN Wild ELSE sp[current]
  /\ sp' = [c \in Tid \cup {Burner} |-> IF c = current THEN Stale ELSE sp[c]]
  /\ step' = "run"
  /\ UNCHANGED <<work, at, edi, thread, queues, i, pos>>

Schedule ==
  Release \/ NotDue \/ GoOn \/ ToBurner \/ Displace \/ PopAgain \/ Pop
    \/ Bubble \/ Switch

(* Nothing is said of a CPU that has lost its way, nor after the last tick. *)
Stopped ==
  /\ step = "run"
  /\ on = Wild \/ current_time = work.horizon
  /\ UNCHANGED vars

Next == Boot \/ (\E t \in Tid : Run(t)) \/ Tick \/ Schedule \/ Stopped

Spec == Init /\ [][Next]_vars

(* The CPU does not stop and the timer ticks on. *)
FairSpec ==
  /\ Spec
  /\ WF_vars(Boot) /\ WF_vars(\E t \in Tid : Run(t))
  /\ WF_vars(Tick) /\ WF_vars(Schedule)

-----------------------------------------------------------------------------
(* Invariants *)

TypeOK ==
  /\ work \in Workloads
  /\ on \in Ctx \cup {Wild}
  /\ at \in [Ctx -> ThreadAt \cup KmainAt \cup BurnerAt]
  /\ \A c \in Ctx : at[c] \in IF c = Kmain THEN KmainAt
                              ELSE IF c = Burner THEN BurnerAt ELSE ThreadAt
  /\ edi \in Ctx \cup {Stale}
  /\ zf \in [Tid -> BOOLEAN]
  /\ id \in [Tid -> 0 .. MAX_THREADS]
  /\ left \in [Tid -> 0 .. LINE]
  /\ counter \in [Tid -> 0 .. Wrap - 1]
  /\ done \in [Tid -> BOOLEAN]
  /\ state \in [Tid -> {0, 1}]
  /\ sp \in [Tid \cup {Burner} -> Ctx \cup {Stale}]
  /\ deadline \in [Tid -> Nat]
  /\ run_time \in [Tid -> Nat]
  /\ current \in Tid \cup {Burner, NULL}
  /\ ready \in Seq(Tid)
  /\ waiting \in Seq(Tid)
  /\ nodes \in Nat
  /\ current_time \in 0 .. work.horizon
  /\ step \in {"run", "check", "pop", "switch"}
  /\ i \in Nat \ {0}
  /\ pos \in 0 .. Len(ready)
  /\ pos > 0 => step \in {"check", "pop"}

InReady(t) == \E j \in 1 .. Len(ready) : ready[j] = t
InWaiting(t) == \E j \in 1 .. Len(waiting) : waiting[j] = t

(* However threads are released, displaced and popped, each is in exactly  *)
(* one place: current, in the list, or waiting.  So waiting[] never        *)
(* overflows, also after the NULL pointer has been popped.                 *)
Conserved ==
  /\ \A j, k \in 1 .. Len(ready) : ready[j] = ready[k] => j = k
  /\ \A j, k \in 1 .. Len(waiting) : waiting[j] = waiting[k] => j = k
  /\ \A t \in Tid : InReady(t) => ~InWaiting(t)
  /\ current \in Tid => ~InReady(current) /\ ~InWaiting(current)
  /\ at[Kmain] # "create" =>
       \A t \in Tid : t = current \/ InReady(t) \/ InWaiting(t)

(* The list is sorted by deadline, but for the node swap is moving. *)
Sorted ==
  \A j, k \in 1 .. Len(ready) :
    j < k /\ j # pos => deadline[ready[j]] <= deadline[ready[k]]

(* A thread runs on its own stack, and whatever TCB is dispatched leads to *)
(* that thread's own context; only kmain, if a tick catches it before it   *)
(* has switched, is taken for the burner thread.                           *)
OwnContext ==
  /\ step = "run" /\ on \in Tid \cup {Burner} => current = on
  /\ \A t \in Tid : at[t] # "start" => id[t] = t
  /\ at[Kmain] # "create" =>
       \A c \in Tid \cup {Burner} :
         \/ sp[c] = c \/ (c = Burner /\ sp[c] = Kmain)
         \/ c = current /\ step = "run"

(* A job runs neither past its deadline nor beyond its budget: a tick that *)
(* finds either reached ends it (a budget of 0 is found out after one).    *)
WithinJob ==
  step = "run" /\ current \in Tid =>
    /\ current_time <= deadline[current]
    /\ run_time[current] < work.budget[current] \/ run_time[current] = 0

(* No job is forgotten: the next one of a thread that waits is released    *)
(* when it is due, or at the tick after.                                   *)
ReleasedOnTime ==
  step = "run" => \A j \in 1 .. Len(waiting) :
                    deadline[waiting[j]] >= current_time - 1

(* heap_malloc never frees, but the nodes taken are one for each period of *)
(* each thread that has begun: so fast the memory behind 0x800000 is eaten *)
(* up, and no faster.                                                      *)
NodesPerPeriod ==
  nodes <= SumFunction([t \in Tid |-> current_time \div work.period[t] + 1])

-----------------------------------------------------------------------------
(* The inductive invariant *)

(* Until kmain has made the burner thread it alone runs, and the threads   *)
(* made so far wait; then only its last two instructions are left.         *)
BootInv ==
  /\ at[Kmain] = "create" <=> current = NULL /\ on = Kmain /\ step = "run"
  /\ at[Kmain] = "create" =>
       /\ ready = << >>
       /\ current_time = 0
       /\ Len(waiting) <= MAX_THREADS
       /\ \A j \in 1 .. Len(waiting) : waiting[j] = j
       /\ \A t \in Tid : IF t <= Len(waiting) THEN state[t] = 1 /\ sp[t] = t
                                              ELSE state[t] = 0
  /\ at[Kmain] = "create" =>
       \A t \in Tid : at[t] = "start" /\ deadline[t] = 0

(* kmain is in place of the burner thread, and what it has read of its     *)
(* stack pointer is the frame of the burner thread or a popped one.        *)
KmainInv ==
  /\ at[Kmain] = "switch" => edi \in {Burner, Stale}
  /\ on = Kmain /\ step = "run" /\ at[Kmain] # "create" =>
       current = Burner /\ sp[Burner] \in {Burner, Stale}

(* What is known of deadlines in each part of the handler. *)
DeadlineInv ==
  /\ \A t \in Tid : deadline[t] <= current_time + work.period[t]
  /\ current \in Tid =>
       IF step = "switch" THEN deadline[current] > current_time
                          ELSE deadline[current] >= current_time
  /\ \A j \in 1 .. Len(waiting) :
       /\ deadline[waiting[j]] >= current_time - 1
       /\ step = "switch" => deadline[waiting[j]] >= current_time
       /\ step = "pop" \/ (step = "check" /\ j < i) =>
            deadline[waiting[j]] > current_time

(* The handler has a thread or the burner to displace, and a job keeps     *)
(* within its budget until it is displaced.                                *)
CurrentInv ==
  /\ step # "run" => current_time < work.horizon
  /\ step \in {"check", "pop"} => current \in Tid \cup {Burner}
  /\ step # "pop" /\ current \in Tid =>
       run_time[current] < work.budget[current] \/ run_time[current] = 0

(* A node was taken for each period a thread's deadline is made of. *)
NodesInv ==
  nodes = SumFunction([t \in Tid |-> deadline[t] \div work.period[t]])

IInv ==
  /\ TypeOK /\ BootInv /\ KmainInv
  /\ Conserved /\ Sorted /\ OwnContext
  /\ DeadlineInv /\ CurrentInv

-----------------------------------------------------------------------------
(* Behaviours *)

Deadlines == INSTANCE EarliestDeadline
  WITH Tid <- Tid, None <- NULL,
       period <- work.period,
       now <- current_time,
       running <- IF current \in Tid THEN current ELSE NULL,
       ready <- {t \in Tid : InReady(t)},
       waiting <- {t \in Tid : InWaiting(t)},
       deadline <- deadline

(* Threads are dispatched by earliest deadline: see EarliestDeadline. *)
EarliestFirst == Deadlines!Spec

(* All threads print their lines, set their done flag and exit. *)
AllExit == <>(\A t \in Tid : done[t] /\ state[t] = 0)

(* README.md:9, `our DEADOS implementation works when all the deadlines    *)
(* can be met': when the deadline of a job has come, and the next job of   *)
(* its thread takes its place, it has had its budget.  (Before its first   *)
(* job a thread has deadline 0.)                                           *)
NoMiss ==
  [][\A t \in Tid : deadline[t] > 0 /\ deadline'[t] # deadline[t] =>
       run_time[t] >= work.budget[t]]_vars
=============================================================================
