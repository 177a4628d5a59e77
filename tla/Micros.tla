------------------------------- MODULE Micros -------------------------------
(***************************************************************************)
(* The MICROS kernel: src/thread.c, src/scheduler.c, src/context_switch.s  *)
(* and the parts of src/kmain.c that start threads and switch stacks.      *)
(*                                                                         *)
(* One CPU runs kmain, then thread after thread.  A thread that returns    *)
(* from its function falls into exit_thread, which accounts for the job,   *)
(* calls schedule_rm and then dispatcher, which calls schedule_rm again.   *)
(*                                                                         *)
(* A saved stack pointer is modelled by what is found there: the frame     *)
(* that dispatcher or thread_create pushed, as long as the CPU has not     *)
(* run on that stack since, and Garbage afterwards.  Thread t is TCB t of  *)
(* tcb_pool and thread_stacks[t] its stack.                                *)
(***************************************************************************)
EXTENDS Integers

CONSTANTS
  MAX_THREADS,    \* size of tcb_pool, thread_stacks and ready_queue
  Tables,         \* the tables of parameters kmain may be built with
  FuncYields,     \* TRUE if a thread function may call yield
  TimerUnmasked   \* TRUE if the platform leaves an interrupt line open

Tid == 0 .. MAX_THREADS - 1
None == -1        \* NULL, and the curr_tid of no thread

ASSUME MicrosAssumption ==
  /\ MAX_THREADS \in Nat \ {0}
  /\ Tables \subseteq [Tid -> [period : Nat, max_jobs : Int]]
  /\ FuncYields \in BOOLEAN
  /\ TimerUnmasked \in BOOLEAN

VARIABLES
  table,            \* period and max_jobs of each thread
  created,          \* i, the loop variable of kmain
  state,            \* TCB fields state, jobs_done and sp
  jobs_done,
  sp,
  ready_queue,      \* the cells of the heap, in no order
  current_thread,
  curr_tid,
  pc,               \* the code the CPU is in
  esp,              \* the stack it is on: a thread's, or None for kmain's
  ret,              \* in dispatcher, where its `ret' leads
  intr              \* IF, the interrupt flag

tcbs == <<state, jobs_done, sp>>
cpu == <<pc, esp, ret, intr>>
vars == <<table, created, state, jobs_done, sp, ready_queue,
          current_thread, curr_tid, pc, esp, ret, intr>>

-----------------------------------------------------------------------------
(* TCBs *)

States == {"IDLE", "READY", "RUNNING", "EXITED"}

IsPeriodic(t) == table[t].period > 0

(* priority_t is an unsigned char: the period, or 0xFFFFFFFF, truncated. *)
Priority(t) == IF IsPeriodic(t) THEN table[t].period % 256 ELSE 255

(* Mutant: the job in progress is counted. *)
AllJobsDoneEarly(t, jobs) ==
  IsPeriodic(t) /\ jobs[t] + 1 >= table[t].max_jobs

AllJobsDone(t, jobs) == IsPeriodic(t) /\ jobs[t] >= table[t].max_jobs

(* get_tcb: the first idle TCB. *)
GetTcb ==
  IF \E t \in Tid : state[t] = "IDLE"
    THEN CHOOSE t \in Tid : /\ state[t] = "IDLE"
                            /\ \A u \in Tid : u < t => state[u] # "IDLE"
    ELSE None

-----------------------------------------------------------------------------
(* The ready queue: heap.c through the promise of module PriorityQueue.    *)

Slots == Tid

Queued(q, t) == \E s \in Slots : q[s] = t

(* heap_insert; its failure when full is reported on screen and ignored.   *)
HeapInsert(q, t) ==
  IF \E s \in Slots : q[s] = None
    THEN [q EXCEPT ![CHOOSE s \in Slots :
                        /\ q[s] = None
                        /\ \A r \in Slots : r < s => q[r] # None] = t]
    ELSE q

-----------------------------------------------------------------------------
(* schedule_rm drains the queue.  Exited threads and those that have done  *)
(* all their jobs are dropped, the first of the others becomes current,    *)
(* the rest are put back.  Interrupts are enabled when it returns.         *)

Candidate(q, st, jobs, t) ==
  Queued(q, t) /\ st[t] # "EXITED" /\ ~AllJobsDone(t, jobs)

IsBest(q, st, jobs, best) ==
  IF \E t \in Tid : Candidate(q, st, jobs, t)
    THEN /\ best \in Tid
         /\ Candidate(q, st, jobs, best)
         /\ \A t \in Tid : Candidate(q, st, jobs, t) =>
                             Priority(best) <= Priority(t)
    ELSE best = None

(* Mutant: the thread chosen is put back too. *)
ReinsertedAll(q, st, jobs, best) ==
  [s \in Slots |-> IF q[s] \in Tid /\ Candidate(q, st, jobs, q[s])
                     THEN q[s] ELSE None]

Reinserted(q, st, jobs, best) ==
  [s \in Slots |-> IF /\ q[s] \in Tid \ {best}
                      /\ Candidate(q, st, jobs, q[s])
                     THEN q[s] ELSE None]

Marked(q, st, jobs, best) ==
  [t \in Tid |-> IF t = best THEN "RUNNING"
                 ELSE IF Queued(q, t) /\ AllJobsDone(t, jobs) THEN "EXITED"
                 ELSE st[t]]

(* Mutant: curr_tid is left as it was. *)
ScheduleRmStaleTid(q, st, jobs, best) ==
  /\ IsBest(q, st, jobs, best)
  /\ ready_queue' = Reinserted(q, st, jobs, best)
  /\ state' = Marked(q, st, jobs, best)
  /\ current_thread' = best
  /\ UNCHANGED curr_tid

ScheduleRm(q, st, jobs, best) ==
  /\ IsBest(q, st, jobs, best)
  /\ ready_queue' = Reinserted(q, st, jobs, best)
  /\ state' = Marked(q, st, jobs, best)
  /\ current_thread' = best
  /\ curr_tid' = best

-----------------------------------------------------------------------------
(* schedule_rm_org, the scheduler before schedule_rm, which is still in    *)
(* the file: the thread it is called in competes when it is ready, periods *)
(* are compared in full, and the thread chosen stays in the queue.  The    *)
(* remaining_time it tests is a constant, the execution time.              *)

(* Mutant: the numbers are compared first. *)
rm_cmpByTid(t, u) == t < u

(* t goes before u. *)
rm_cmp(t, u) ==
  \/ table[t].period < table[u].period
  \/ table[t].period = table[u].period /\ t < u

(* Who competes when schedule_rm_org runs in the thread curr.              *)
CandidateOrg(q, st, jobs, curr, t) ==
  Candidate(q, st, jobs, t) \/ (t = curr /\ st[t] = "READY")

ScheduleRmOrg(q, st, jobs, curr) ==
  LET Candidates == {t \in Tid : CandidateOrg(q, st, jobs, curr, t)}
  IN  [best |-> IF Candidates = {} THEN None
                ELSE CHOOSE t \in Candidates :
                       \A u \in Candidates \ {t} : rm_cmp(t, u),
       left |-> {t \in Tid : Candidate(q, st, jobs, t)}]

-----------------------------------------------------------------------------
(* Frames *)

Garbage == [stack |-> None, resume |-> "garbage", intr |-> FALSE]

(* The frame thread_create builds: EIP is the function, EFLAGS has IF set. *)
FirstFrame(stk) == [stack |-> stk, resume |-> "entry", intr |-> TRUE]

(* The frame dispatcher pushes on the stack it was called on. *)
CalledFrame == [stack |-> esp, resume |-> ret, intr |-> intr]

Frame == {Garbage} \cup
         [stack : Tid, resume : {"entry", "body", "dispatcher", "hlt"},
          intr : BOOLEAN]

(* From now on the CPU pushes and pops on stk: its frames are lost. *)
Overwritten(stk, sps) ==
  [t \in Tid |-> IF sps[t].stack = stk THEN Garbage ELSE sps[t]]

(* Go on where thread t's frame says: save_next_stack, the pops and `ret'. *)
(* A frame that returns into dispatcher was left by yield, whose own       *)
(* caller is the thread function.  Without a thread save_next_stack reads  *)
(* through NULL; that, or Garbage, sends the CPU anywhere.                 *)
Lands(t, sps) == t # None /\ sps[t] # Garbage

SwitchTo(t, sps) ==
  IF Lands(t, sps)
    THEN /\ pc' = sps[t].resume
         /\ esp' = sps[t].stack
         /\ ret' = IF sps[t].resume = "dispatcher" THEN "body" ELSE "none"
         /\ sp' = Overwritten(sps[t].stack, sps)
    ELSE /\ pc' = "wild"
         /\ sp' = sps
         /\ UNCHANGED <<esp, ret>>

-----------------------------------------------------------------------------
(* kmain.  init_thread_pool has run; multiboot leaves interrupts disabled. *)

Init ==
  /\ table \in Tables
  /\ created = 0
  /\ state = [t \in Tid |-> "IDLE"]
  /\ jobs_done = [t \in Tid |-> 0]
  /\ sp = [t \in Tid |-> Garbage]
  /\ ready_queue = [s \in Slots |-> None]
  /\ current_thread = None
  /\ curr_tid = None
  /\ pc = "kmain"
  /\ esp = None
  /\ ret = "none"
  /\ intr = FALSE

(* One turn of kmain's loop: thread_create on the created-th stack. *)
ThreadCreate ==
  /\ pc = "kmain"
  /\ created < MAX_THREADS
  /\ created' = created + 1
  /\ LET t == GetTcb
     IN  IF t = None
           THEN UNCHANGED <<state, jobs_done, sp, ready_queue, curr_tid>>
           ELSE /\ state' = [state EXCEPT ![t] = "READY"]
                /\ jobs_done' = [jobs_done EXCEPT ![t] = 0]
                /\ sp' = [sp EXCEPT ![t] = FirstFrame(created)]
                /\ ready_queue' = HeapInsert(ready_queue, t)
                /\ curr_tid' = t
  /\ UNCHANGED <<table, current_thread, cpu>>

(* The end of kmain: the first thread runs while still in the queue.       *)
(* dispatch_first_run ends with sti, whatever flags the frame holds.       *)
DispatchFirstRun ==
  /\ pc = "kmain"
  /\ created = MAX_THREADS
  /\ current_thread' = 0
  /\ curr_tid' = 0
  /\ SwitchTo(0, sp)
  /\ intr' = TRUE
  /\ UNCHANGED <<table, created, state, jobs_done, ready_queue>>

-----------------------------------------------------------------------------
(* Threads *)

(* The function's first instruction is cli. *)
ThreadStart ==
  /\ pc = "entry"
  /\ pc' = "body"
  /\ intr' = FALSE
  /\ UNCHANGED <<table, created, tcbs, ready_queue, current_thread, curr_tid,
                 esp, ret>>

(* Its last are sti and ret, into exit_thread. *)
ThreadReturn ==
  /\ pc = "body"
  /\ pc' = "exit"
  /\ intr' = TRUE
  /\ UNCHANGED <<table, created, tcbs, ready_queue, current_thread, curr_tid,
                 esp, ret>>

(* yield calls dispatcher, which follows it in memory: the frame saved     *)
(* will return into dispatcher a second time.                              *)
Yield ==
  /\ FuncYields
  /\ pc = "body"
  /\ pc' = "dispatcher"
  /\ ret' = "dispatcher"
  /\ UNCHANGED <<table, created, tcbs, ready_queue, current_thread, curr_tid,
                 esp, intr>>

(* exit_thread up to its call of dispatcher, or to its halt. *)
ExitThread ==
  /\ pc = "exit"
  /\ LET t == curr_tid
         jobs == IF IsPeriodic(t)
                   THEN [jobs_done EXCEPT ![t] = @ + 1] ELSE jobs_done
         last == AllJobsDone(t, jobs)
         st == IF IsPeriodic(t)
                 THEN [state EXCEPT ![t] = IF last THEN "EXITED" ELSE "READY"]
                 ELSE state
         q == IF IsPeriodic(t) /\ ~last
                THEN HeapInsert(ready_queue, t) ELSE ready_queue
     IN  /\ jobs_done' = jobs
         /\ \E best \in Tid \cup {None} :
              /\ ScheduleRm(q, st, jobs, best)
              /\ pc' = IF best = None THEN "finished" ELSE "dispatcher"
  /\ ret' = "hlt"
  /\ intr' = TRUE
  /\ UNCHANGED <<table, created, sp, esp>>

(* dispatcher: save_prev_stack into the TCB that is current by now,        *)
(* schedule_rm, and on to the thread it chose, with that thread's flags.   *)
Dispatcher ==
  /\ pc = "dispatcher"
  /\ LET saved == [sp EXCEPT ![current_thread] = CalledFrame]
     IN  \E best \in Tid \cup {None} :
           /\ ScheduleRm(ready_queue, state, jobs_done, best)
           /\ SwitchTo(best, saved)
           /\ intr' = IF Lands(best, saved) THEN saved[best].intr ELSE TRUE
  /\ UNCHANGED <<table, created, jobs_done>>

(* There is no interrupt descriptor table: an interrupt that is let in     *)
(* leaves the kernel for good.                                             *)
SpuriousInterrupt ==
  /\ TimerUnmasked
  /\ intr
  /\ pc # "wild"
  /\ pc' = "wild"
  /\ UNCHANGED <<table, created, tcbs, ready_queue, current_thread, curr_tid,
                 esp, ret, intr>>

(* The halt loops; nothing is claimed of a CPU that has lost its way. *)
Stopped == pc \in {"finished", "hlt", "wild"} /\ UNCHANGED vars

Kernel == \/ ThreadCreate \/ DispatchFirstRun \/ ThreadStart
          \/ ExitThread \/ Dispatcher

Next == Kernel \/ ThreadReturn \/ Yield \/ SpuriousInterrupt \/ Stopped

Spec == Init /\ [][Next]_vars

(* The CPU executes, and the functions given to thread_create return. *)
FairSpec == Spec /\ WF_vars(Kernel) /\ WF_vars(ThreadReturn)

-----------------------------------------------------------------------------
(* Properties *)

(* The TCBs, the queue and the CPU hold values of their types, and the     *)
(* jobs counted are never negative (all of src/thread.c).                  *)
TypeOK ==
  /\ table \in Tables
  /\ created \in 0 .. MAX_THREADS
  /\ state \in [Tid -> States]
  /\ jobs_done \in [Tid -> Nat]
  /\ sp \in [Tid -> Frame]
  /\ ready_queue \in [Slots -> Tid \cup {None}]
  /\ current_thread \in Tid \cup {None}
  /\ curr_tid \in Tid \cup {None}
  /\ pc \in {"kmain", "entry", "body", "exit", "dispatcher",
             "finished", "hlt", "wild"}
  /\ esp \in Tid \cup {None}
  /\ ret \in {"none", "body", "dispatcher", "hlt"}
  /\ intr \in BOOLEAN

(* A TCB is in the ready queue at most once: the thread that exit_thread   *)
(* reinserts is not there yet, or, for the first one that ran, the queue   *)
(* has no room for it.                                                     *)
NoDoubleQueue ==
  \A r, s \in Slots : ready_queue[r] # None /\ ready_queue[r] = ready_queue[s]
                        => r = s

InThread == \/ pc \in {"entry", "body", "exit"}
            \/ pc = "dispatcher" /\ ret # "hlt"

(* Code of a thread runs on that thread's stack, and the TCB that          *)
(* exit_thread charges the job to, found through curr_tid, is the one of   *)
(* the thread that ran, although dispatcher saves an exiting thread's      *)
(* stack pointer into another's TCB.                                       *)
OwnStack ==
  InThread => esp \in Tid /\ current_thread = esp /\ curr_tid = esp

(* A context saved while its thread was exiting is never resumed: the halt *)
(* that follows the call of dispatcher in exit_thread is never reached.    *)
NoReturnToExit == pc # "hlt"

(* Part of the invariant, and against what the code is for (InstancesRun): *)
(* no thread does a second job, as no stack pointer is ever made to point  *)
(* to a first frame again.                                                 *)
OneJobEach == \A t \in Tid : jobs_done[t] <= 1

(* Part of the invariant: a thread function, which starts with cli, runs   *)
(* with interrupts masked.                                                 *)
BodyMasked == pc = "body" => ~intr

(* What is left in the queue for schedule_rm is ready to run. *)
QueuedReady == \A t \in Tid : Queued(ready_queue, t) => state[t] = "READY"

-----------------------------------------------------------------------------
(* The inductive invariant *)

(* kmain's loop gives TCB, stack and queue cell i to the i-th thread. *)
BootInv ==
  pc = "kmain" =>
    /\ current_thread = None
    /\ \A t \in Tid :
         /\ jobs_done[t] = 0
         /\ IF t < created
              THEN /\ state[t] = "READY"
                   /\ sp[t] = FirstFrame(t)
                   /\ ready_queue[t] = t
              ELSE /\ state[t] = "IDLE"
                   /\ sp[t] = Garbage
                   /\ ready_queue[t] = None

(* A thread on the CPU has its first job to finish, and no frame.  It is   *)
(* in the queue only if the queue is full: the first thread, that kmain    *)
(* dispatches without removing it.                                         *)
ThreadInv ==
  InThread =>
    /\ sp[current_thread] = Garbage
    /\ state[current_thread] \in {"READY", "RUNNING"}
    /\ jobs_done[current_thread] = 0
    /\ Queued(ready_queue, current_thread) =>
         \A s \in Slots : ready_queue[s] # None

(* dispatcher saves into a TCB that is not in the queue, or into that of   *)
(* the thread it was called by; only the calls of yield come masked.       *)
DispatcherInv ==
  pc = "dispatcher" =>
    /\ esp \in Tid
    /\ current_thread \in Tid
    /\ ret # "none"
    /\ ret = "hlt" => ~Queued(ready_queue, current_thread)
    /\ ret # "hlt" => ~intr

(* No saved frame lies on the stack the CPU is using. *)
StackInv ==
  InThread \/ pc = "dispatcher" => \A t \in Tid : sp[t].stack # esp

(* The stack pointer of a thread in the queue leads back into its first    *)
(* job, on its own stack, or nowhere.                                      *)
QueuedInv ==
  \A t \in Tid : Queued(ready_queue, t) /\ sp[t] # Garbage =>
    /\ sp[t].stack = t
    /\ jobs_done[t] = 0
    /\ \/ sp[t].resume = "entry"
       \/ sp[t].resume \in {"body", "dispatcher"} /\ ~sp[t].intr

(* All that the safety of the dispatch rests on: who can be in the queue,  *)
(* and where thread_create and dispatcher have left its stack pointer.     *)
IInv ==
  /\ TypeOK
  /\ NoDoubleQueue /\ QueuedReady /\ QueuedInv
  /\ OwnStack /\ ThreadInv /\ DispatcherInv /\ StackInv
  /\ BootInv
  /\ BodyMasked /\ OneJobEach /\ NoReturnToExit

(* Whoever calls schedule_rm is the current thread by both names, and has  *)
(* been made so by schedule_rm; but for the first, which kmain dispatches, *)
(* as long as it is still in the queue.                                    *)
CallerInv ==
  InThread \/ pc = "dispatcher" =>
    /\ curr_tid = current_thread
    /\ state[current_thread] = "READY" =>
         current_thread = 0 /\ Queued(ready_queue, 0)

-----------------------------------------------------------------------------
(* Action properties *)

(* The threads nobody will hear of again: not exited, but neither current  *)
(* nor in the queue.                                                       *)
Lost(t) ==
  /\ pc # "kmain"
  /\ state[t] # "EXITED"
  /\ current_thread # t
  /\ ~Queued(ready_queue, t)

(* A lost thread stays lost: only a current thread is ever reinserted. *)
LostForever == [][\A t \in Tid : Lost(t) => Lost(t)']_vars

(* Periodic tasks of different periods, none too long for a priority, of   *)
(* which the first, that kmain starts unscheduled, has a job to do.        *)
Comparable ==
  /\ \A t, u \in Tid : /\ table[t].period \in 1 .. 255
                       /\ t # u => table[t].period # table[u].period
  /\ table[0].max_jobs > 0

(* For such tasks schedule_rm chooses as schedule_rm_org did, although it  *)
(* takes the order from the heap, knows truncated priorities only and does *)
(* not look at the thread that calls it; all it changed is that the thread *)
(* chosen leaves the queue.                                                *)
SchedulersAgree ==
  [][Dispatcher /\ Comparable =>
       LET org == ScheduleRmOrg(ready_queue, state, jobs_done, curr_tid)
       IN  /\ current_thread' = org.best
           /\ \A t \in Tid : Queued(ready_queue, t)' <=> t \in org.left \ {org.best}]_vars

-----------------------------------------------------------------------------
(* Progress, and what the sources say of it *)

(* Every thread gets to finish a first job: schedule_rm, called twice for  *)
(* each exit, takes the exiting thread the first time and another one the  *)
(* second.  So it is when periods grow with the thread, as kmain's do, and *)
(* each has a second job to do.                                            *)
FirstJobsRun == \A t \in Tid : <>(jobs_done[t] = 1)

(* src/thread.c:77: with no more threads exit_thread says so and halts.    *)
AllThreadsFinish == <>(pc = "finished")

(* src/thread.h:15: max_jobs is `how many periodic instances to run'.      *)
InstancesRun == \A t \in Tid : <>(jobs_done[t] = table[t].max_jobs)

(* src/thread.h:15: with max_jobs -1 there is no end to them, so that the  *)
(* thread never exits.                                                     *)
InfiniteGoesOn ==
  \A t \in Tid : IsPeriodic(t) /\ table[t].max_jobs = -1 => state[t] # "EXITED"

(* src/thread.c:28: finished threads free their TCB slots for new          *)
(* thread_create() calls, which take what get_tcb finds.                   *)
FinishedFreesSlot == (\E t \in Tid : state[t] = "EXITED") => GetTcb # None

(* src/defs.h:73: smaller period, higher priority.  No thread left in the  *)
(* queue has a shorter period than the one dispatcher switches to.         *)
RateMonotonic ==
  [][Dispatcher /\ current_thread' # None =>
       \A t \in Tid : Queued(ready_queue, t)' /\ IsPeriodic(t) =>
                        /\ IsPeriodic(current_thread')
                        /\ table[current_thread'].period <= table[t].period]_vars
=============================================================================
