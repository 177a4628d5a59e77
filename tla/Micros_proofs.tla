--------------------------- MODULE Micros_proofs ---------------------------
(***************************************************************************)
(* Proofs about module Micros, for any number of threads, any tables of    *)
(* parameters, with or without yield and stray interrupts, and about the   *)
(* thread function of MicrosDemo.                                          *)
(***************************************************************************)
EXTENDS MicrosDemo, Lemmas

-----------------------------------------------------------------------------
(* The queue *)

Queue == [Slots -> Tid \cup {None}]

Full(q) == \A s \in Slots : q[s] # None

Distinct(q) == \A r, s \in Slots : q[r] # None /\ q[r] = q[s] => r = s

(* heap_insert either finds no place and does nothing, or uses one that    *)
(* was free, the first one. *)
LEMMA InsertCases ==
  ASSUME NEW q \in Queue, NEW t \in Tid
  PROVE  \/ Full(q) /\ HeapInsert(q, t) = q
         \/ \E s \in Slots : /\ q[s] = None
                             /\ \A r \in Slots : r < s => q[r] # None
                             /\ HeapInsert(q, t) = [q EXCEPT ![s] = t]
<1>1. CASE Full(q)
  BY <1>1 DEF Full, HeapInsert
<1>2. CASE ~Full(q)
  <2> DEFINE Free == {s \in Slots : q[s] = None}
             First(s) == q[s] = None /\ \A r \in Slots : r < s => q[r] # None
  <2>1. Free \in SUBSET Nat /\ Free # {}
    BY <1>2, MicrosAssumption DEF Full, Slots, Tid
  <2>2. PICK m \in Free : \A n \in Free : m <= n
    BY <2>1, LeastElement
  <2>3. m \in Slots /\ First(m)
    <3>1. \A r \in Slots : r < m => ~(m <= r)
      BY <2>1 DEF Slots, Tid
    <3> QED BY <2>2, <3>1
  <2>4. (CHOOSE s \in Slots : First(s)) \in Slots /\ First(CHOOSE s \in Slots : First(s))
    BY <2>3
  <2>5. HeapInsert(q, t) = [q EXCEPT ![CHOOSE s \in Slots : First(s)] = t]
    BY <1>2 DEF HeapInsert, Full
  <2> QED BY <2>4, <2>5
<1> QED BY <1>1, <1>2

(* The queue after heap_insert is a queue, and holds nothing else new. *)
LEMMA InsertQueue ==
  ASSUME NEW q \in Queue, NEW t \in Tid
  PROVE  /\ HeapInsert(q, t) \in Queue
         /\ \A u : Queued(HeapInsert(q, t), u) /\ u # None
                     => Queued(q, u) \/ u = t
         /\ \A u \in Tid : Queued(q, u) => Queued(HeapInsert(q, t), u)
<1>1. None \notin Tid
  BY MicrosAssumption DEF Tid, None
<1> QED BY InsertCases, <1>1 DEF Queue, Queued

(* Inserting a thread that is not in the queue, or into a full queue, does *)
(* not put it there twice. *)
LEMMA InsertDistinct ==
  ASSUME NEW q \in Queue, NEW t \in Tid, Distinct(q), Queued(q, t) => Full(q)
  PROVE  Distinct(HeapInsert(q, t))
<1>1. CASE Full(q) /\ HeapInsert(q, t) = q
  BY <1>1
<1>2. ASSUME NEW s \in Slots, q[s] = None,
             HeapInsert(q, t) = [q EXCEPT ![s] = t]
      PROVE  Distinct(HeapInsert(q, t))
  <2>1. ~Queued(q, t)
    BY <1>2 DEF Full
  <2> QED BY <1>2, <2>1 DEF Distinct, Queue, Queued
<1> QED BY <1>1, <1>2, InsertCases

(* schedule_rm keeps of the queue some of its entries, where they are, and *)
(* not the thread it chooses. *)
LEMMA ReinsertedQueue ==
  ASSUME NEW q \in Queue, NEW st, NEW jobs, NEW best
  PROVE  /\ Reinserted(q, st, jobs, best) \in Queue
         /\ Distinct(q) => Distinct(Reinserted(q, st, jobs, best))
         /\ \A u \in Tid : Queued(Reinserted(q, st, jobs, best), u) <=>
                             Candidate(q, st, jobs, u) /\ u # best
<1>1. None \notin Tid
  BY MicrosAssumption DEF Tid, None
<1>2. \A u \in Tid : Candidate(q, st, jobs, u) => Queued(q, u)
  BY DEF Candidate
<1> QED BY <1>1, <1>2 DEF Reinserted, Queue, Distinct, Queued

-----------------------------------------------------------------------------
(* Frames *)

(* What thread_create leaves on a stack is a frame, and not Garbage. *)
LEMMA FirstFrameFields ==
  ASSUME NEW t \in Tid
  PROVE  /\ FirstFrame(t).stack = t
         /\ FirstFrame(t).resume = "entry"
         /\ FirstFrame(t) # Garbage
         /\ Garbage.stack = None
         /\ FirstFrame(t) \in Frame
<1>1. FirstFrame(t).resume = "entry" /\ Garbage.resume = "garbage"
  BY DEF FirstFrame, Garbage
<1> QED BY <1>1 DEF FirstFrame, Garbage, Frame

-----------------------------------------------------------------------------
(* The invariant holds at the start of kmain. *)
LEMMA InitIInv == Init => IInv
<1> SUFFICES ASSUME Init PROVE IInv
  OBVIOUS
<1> USE MicrosAssumption DEF Init
<1>1. None \notin Tid
  BY DEF Tid, None
<1>2. TypeOK
  <2>1. sp \in [Tid -> Frame]
    BY DEF Frame
  <2>2. created \in 0 .. MAX_THREADS
    OBVIOUS
  <2> QED BY <2>1, <2>2 DEF TypeOK, States
<1>3. NoDoubleQueue /\ QueuedReady /\ QueuedInv
  BY <1>1 DEF NoDoubleQueue, QueuedReady, QueuedInv, Queued
<1>4. OwnStack /\ ThreadInv /\ DispatcherInv /\ StackInv
  BY DEF OwnStack, ThreadInv, DispatcherInv, StackInv, InThread
<1>5. BootInv
  BY DEF BootInv, Tid, Slots
<1>6. BodyMasked /\ OneJobEach /\ NoReturnToExit
  BY DEF BodyMasked, OneJobEach, NoReturnToExit
<1> QED BY <1>2, <1>3, <1>4, <1>5, <1>6 DEF IInv

(* thread_create, called in kmain's loop, takes TCB and cell number i for  *)
(* the thread number i. *)
LEMMA CreatePlace ==
  ASSUME IInv, pc = "kmain", created < MAX_THREADS
  PROVE  /\ created \in Tid
         /\ GetTcb = created
         /\ HeapInsert(ready_queue, created)
              = [ready_queue EXCEPT ![created] = created]
<1> USE MicrosAssumption
<1>1. created \in Tid /\ None \notin Tid
  BY DEF IInv, TypeOK, Tid, None
<1>2. \A t \in Tid : IF t < created
                       THEN state[t] = "READY" /\ ready_queue[t] = t
                       ELSE state[t] = "IDLE" /\ ready_queue[t] = None
  BY DEF IInv, BootInv
<1>3. GetTcb = created
  <2> DEFINE P(t) == state[t] = "IDLE" /\ \A u \in Tid : u < t => state[u] # "IDLE"
  <2>1. P(created)
    BY <1>1, <1>2 DEF Tid
  <2>2. \A t \in Tid : P(t) => t = created
    <3> SUFFICES ASSUME NEW t \in Tid, P(t) PROVE t = created
      OBVIOUS
    <3>1. ~(t < created) /\ ~(created < t)
      BY <1>1, <1>2 DEF Tid
    <3> QED BY <3>1, <1>1 DEF Tid
  <2>3. GetTcb = CHOOSE t \in Tid : P(t)
    BY <1>1, <2>1 DEF GetTcb
  <2>4. \A t : t \in Tid /\ P(t) <=> t = created
    BY <1>1, <2>1, <2>2
  <2> HIDE DEF P
  <2> QED BY <2>3, <2>1, <2>2, <1>1
<1>4. HeapInsert(ready_queue, created)
       = [ready_queue EXCEPT ![created] = created]
  <2>1. ready_queue \in Queue
    BY DEF IInv, TypeOK, Queue
  <2>2. ~Full(ready_queue)
    BY <1>1, <1>2 DEF Full, Slots, Tid
  <2>3. PICK s \in Slots :
          /\ ready_queue[s] = None
          /\ \A r \in Slots : r < s => ready_queue[r] # None
          /\ HeapInsert(ready_queue, created) = [ready_queue EXCEPT ![s] = created]
    BY <2>1, <2>2, <1>1, InsertCases
  <2>4. ~(s < created) /\ ~(created < s)
    BY <1>1, <1>2, <2>3 DEF Slots, Tid
  <2>5. s = created
    BY <2>4, <1>1 DEF Slots, Tid
  <2> QED BY <2>3, <2>5
<1> QED BY <1>1, <1>3, <1>4

(* thread_create fills the next TCB, stack and cell of the queue. *)
LEMMA ThreadCreateStep == IInv /\ ThreadCreate => IInv'
<1> SUFFICES ASSUME IInv, ThreadCreate PROVE IInv'
  OBVIOUS
<1> USE MicrosAssumption
<1>1. None \notin Tid
  BY DEF Tid, None
<1>2. /\ pc = "kmain" /\ created < MAX_THREADS
      /\ created' = created + 1
      /\ UNCHANGED <<table, current_thread, pc, esp, ret, intr>>
  BY DEF ThreadCreate, cpu
<1>3. created \in Tid
  BY <1>2, CreatePlace
<1>4. /\ state' = [state EXCEPT ![created] = "READY"]
      /\ jobs_done' = [jobs_done EXCEPT ![created] = 0]
      /\ sp' = [sp EXCEPT ![created] = FirstFrame(created)]
      /\ ready_queue' = [ready_queue EXCEPT ![created] = created]
      /\ curr_tid' = created
  BY <1>2, <1>3, <1>1, CreatePlace DEF ThreadCreate
<1>5. TypeOK'
  <2>1. created' \in 0 .. MAX_THREADS
    BY <1>2, <1>3 DEF Tid
  <2>2. FirstFrame(created) \in Frame
    BY <1>3 DEF FirstFrame, Frame
  <2> QED BY <1>2, <1>3, <1>4, <2>1, <2>2 DEF IInv, TypeOK, States, Slots
<1>6. BootInv'
  <2>1. \A t \in Tid : t < created + 1 <=> t < created \/ t = created
    BY <1>3 DEF Tid
  <2>2. BootInv /\ TypeOK
    BY DEF IInv
  <2> QED BY <1>2, <1>3, <1>4, <2>1, <2>2 DEF BootInv, TypeOK, Slots
<1>7. (NoDoubleQueue /\ QueuedReady /\ QueuedInv)'
  <2>1. \A t \in Tid :
          /\ jobs_done'[t] = 0
          /\ \/ state'[t] = "READY" /\ sp'[t] = FirstFrame(t) /\ ready_queue'[t] = t
             \/ ready_queue'[t] = None
    BY <1>2, <1>6 DEF BootInv
  <2>2. \A t, s \in Tid : ready_queue'[s] = t => s = t /\ state'[t] = "READY" /\ sp'[t] = FirstFrame(t)
    BY <2>1, <1>1
  <2>3. NoDoubleQueue'
    BY <2>1, <1>1 DEF NoDoubleQueue, Slots
  <2>4. QueuedReady'
    BY <2>2 DEF QueuedReady, Queued, Slots
  <2>5. QueuedInv'
    BY <2>1, <2>2, FirstFrameFields DEF QueuedInv, Queued, Slots
  <2> QED BY <2>3, <2>4, <2>5
<1>8. (OwnStack /\ ThreadInv /\ DispatcherInv /\ StackInv)'
  BY <1>2 DEF OwnStack, ThreadInv, DispatcherInv, StackInv, InThread
<1>9. (BodyMasked /\ OneJobEach /\ NoReturnToExit)'
  BY <1>2, <1>6 DEF BodyMasked, OneJobEach, NoReturnToExit, BootInv
<1> QED BY <1>5, <1>6, <1>7, <1>8, <1>9 DEF IInv

(* dispatch_first_run resumes the first frame, of a thread still queued. *)
LEMMA FirstRunFacts ==
  ASSUME IInv, DispatchFirstRun
  PROVE  /\ \A t \in Tid : /\ jobs_done[t] = 0 /\ state[t] = "READY"
                           /\ sp[t] = FirstFrame(t) /\ ready_queue[t] = t
         /\ current_thread' = 0 /\ curr_tid' = 0
         /\ pc' = "entry" /\ esp' = 0 /\ ret' = "none" /\ intr' = TRUE
         /\ sp' = [t \in Tid |-> IF t = 0 THEN Garbage ELSE FirstFrame(t)]
         /\ UNCHANGED <<table, created, state, jobs_done, ready_queue>>
<1> USE MicrosAssumption
<1>1. None \notin Tid /\ 0 \in Tid
  BY DEF Tid, None
<1>2. \A t \in Tid : /\ jobs_done[t] = 0 /\ state[t] = "READY"
                     /\ sp[t] = FirstFrame(t) /\ ready_queue[t] = t
  BY DEF DispatchFirstRun, IInv, BootInv, Tid
<1>3. Lands(0, sp)
  BY <1>1, <1>2, FirstFrameFields DEF Lands
<1>4. /\ current_thread' = 0 /\ curr_tid' = 0
      /\ pc' = "entry" /\ esp' = 0 /\ ret' = "none" /\ intr' = TRUE
      /\ sp' = Overwritten(0, sp)
      /\ UNCHANGED <<table, created, state, jobs_done, ready_queue>>
  BY <1>1, <1>2, <1>3, FirstFrameFields DEF DispatchFirstRun, SwitchTo
<1>5. sp' = [t \in Tid |-> IF t = 0 THEN Garbage ELSE FirstFrame(t)]
  BY <1>2, <1>4, FirstFrameFields DEF Overwritten
<1> QED BY <1>2, <1>4, <1>5

(* So the first thread runs on its stack, and the invariant holds for it.  *)
LEMMA DispatchFirstRunStep == IInv /\ DispatchFirstRun => IInv'
<1> SUFFICES ASSUME IInv, DispatchFirstRun PROVE IInv'
  OBVIOUS
<1> USE MicrosAssumption
<1>1. None \notin Tid /\ 0 \in Tid
  BY DEF Tid, None
<1>2. \A t \in Tid : /\ jobs_done[t] = 0 /\ state[t] = "READY"
                     /\ sp[t] = FirstFrame(t) /\ ready_queue[t] = t
  BY FirstRunFacts
<1>4. /\ current_thread' = 0 /\ curr_tid' = 0
      /\ pc' = "entry" /\ esp' = 0 /\ ret' = "none" /\ intr' = TRUE
      /\ UNCHANGED <<table, created, state, jobs_done, ready_queue>>
  BY FirstRunFacts
<1>5. sp' = [t \in Tid |-> IF t = 0 THEN Garbage ELSE FirstFrame(t)]
  BY FirstRunFacts
<1>6. TypeOK'
  <2>1. \A t \in Tid : FirstFrame(t) \in Frame
    BY DEF FirstFrame, Frame
  <2>2. Garbage \in Frame
    BY DEF Frame
  <2>3. sp' \in [Tid -> Frame]
    BY <1>5, <2>1, <2>2
  <2> QED BY <1>1, <1>4, <2>3 DEF IInv, TypeOK
<1>7. (NoDoubleQueue /\ QueuedReady /\ QueuedInv)'
  <2>1. (NoDoubleQueue /\ QueuedReady)'
    BY <1>4 DEF IInv, NoDoubleQueue, QueuedReady, Queued
  <2>2. QueuedInv'
    BY <1>2, <1>4, <1>5, FirstFrameFields DEF QueuedInv
  <2> QED BY <2>1, <2>2
<1>8. (OwnStack /\ ThreadInv /\ DispatcherInv /\ StackInv)'
  <2>1. OwnStack' /\ DispatcherInv'
    BY <1>1, <1>4 DEF OwnStack, DispatcherInv
  <2>2. ThreadInv'
    BY <1>1, <1>2, <1>4, <1>5 DEF ThreadInv, Slots
  <2>3. StackInv'
    BY <1>1, <1>4, <1>5, FirstFrameFields DEF StackInv
  <2> QED BY <2>1, <2>2, <2>3
<1>9. (BootInv /\ BodyMasked /\ OneJobEach /\ NoReturnToExit)'
  BY <1>2, <1>4 DEF BootInv, BodyMasked, OneJobEach, NoReturnToExit
<1> QED BY <1>6, <1>7, <1>8, <1>9 DEF IInv

(* Steps that move the CPU only: what is said of TCBs and queue is kept. *)
LEMMA CpuOnly ==
  ASSUME IInv, pc' # "kmain",
         UNCHANGED <<table, created, tcbs, ready_queue, current_thread, curr_tid, esp>>
  PROVE  (NoDoubleQueue /\ QueuedReady /\ QueuedInv /\ BootInv /\ OneJobEach)'
BY DEF IInv, tcbs, NoDoubleQueue, QueuedReady, QueuedInv, Queued, BootInv, OneJobEach

(* The first instruction of a thread function masks interrupts. *)
LEMMA ThreadStartStep == IInv /\ ThreadStart => IInv'
<1> SUFFICES ASSUME IInv, ThreadStart PROVE IInv'
  OBVIOUS
<1>1. TypeOK'
  BY DEF ThreadStart, IInv, TypeOK, tcbs
<1>2. (NoDoubleQueue /\ QueuedReady /\ QueuedInv /\ BootInv /\ OneJobEach)'
  BY CpuOnly DEF ThreadStart
<1>3. (OwnStack /\ ThreadInv /\ DispatcherInv /\ StackInv)'
  BY DEF ThreadStart, IInv, OwnStack, ThreadInv, DispatcherInv, StackInv,
         InThread, Queued, tcbs
<1>4. (BodyMasked /\ NoReturnToExit)'
  BY DEF ThreadStart, BodyMasked, NoReturnToExit
<1> QED BY <1>1, <1>2, <1>3, <1>4 DEF IInv

(* A function that returns is in exit_thread, on its own stack. *)
LEMMA ThreadReturnStep == IInv /\ ThreadReturn => IInv'
<1> SUFFICES ASSUME IInv, ThreadReturn PROVE IInv'
  OBVIOUS
<1>1. TypeOK'
  BY DEF ThreadReturn, IInv, TypeOK, tcbs
<1>2. (NoDoubleQueue /\ QueuedReady /\ QueuedInv /\ BootInv /\ OneJobEach)'
  BY CpuOnly DEF ThreadReturn
<1>3. (OwnStack /\ ThreadInv /\ DispatcherInv /\ StackInv)'
  BY DEF ThreadReturn, IInv, OwnStack, ThreadInv, DispatcherInv, StackInv,
         InThread, Queued, tcbs
<1>4. (BodyMasked /\ NoReturnToExit)'
  BY DEF ThreadReturn, BodyMasked, NoReturnToExit
<1> QED BY <1>1, <1>2, <1>3, <1>4 DEF IInv

(* yield calls dispatcher with interrupts still masked. *)
LEMMA YieldStep == IInv /\ Yield => IInv'
<1> SUFFICES ASSUME IInv, Yield PROVE IInv'
  OBVIOUS
<1>1. TypeOK'
  BY DEF Yield, IInv, TypeOK, tcbs
<1>2. (NoDoubleQueue /\ QueuedReady /\ QueuedInv /\ BootInv /\ OneJobEach)'
  BY CpuOnly DEF Yield
<1>3. (OwnStack /\ ThreadInv /\ DispatcherInv /\ StackInv)'
  BY DEF Yield, IInv, OwnStack, ThreadInv, DispatcherInv, StackInv,
         InThread, Queued, BodyMasked, tcbs
<1>4. (BodyMasked /\ NoReturnToExit)'
  BY DEF Yield, BodyMasked, NoReturnToExit
<1> QED BY <1>1, <1>2, <1>3, <1>4 DEF IInv

(* A stray interrupt leaves all but the CPU as it was. *)
LEMMA SpuriousInterruptStep == IInv /\ SpuriousInterrupt => IInv'
<1> SUFFICES ASSUME IInv, SpuriousInterrupt PROVE IInv'
  OBVIOUS
<1>1. TypeOK'
  BY DEF SpuriousInterrupt, IInv, TypeOK, tcbs
<1>2. (NoDoubleQueue /\ QueuedReady /\ QueuedInv /\ BootInv /\ OneJobEach)'
  BY CpuOnly DEF SpuriousInterrupt
<1>3. (OwnStack /\ ThreadInv /\ DispatcherInv /\ StackInv)'
  BY DEF SpuriousInterrupt, OwnStack, ThreadInv, DispatcherInv, StackInv, InThread
<1>4. (BodyMasked /\ NoReturnToExit)'
  BY DEF SpuriousInterrupt, BodyMasked, NoReturnToExit
<1> QED BY <1>1, <1>2, <1>3, <1>4 DEF IInv

(* Stuttering, which the halt loops are too. *)
LEMMA UnchangedStep == IInv /\ UNCHANGED vars => IInv'
<1> SUFFICES ASSUME IInv, UNCHANGED vars PROVE IInv'
  OBVIOUS
<1> USE DEF vars
<1>1. (TypeOK /\ NoDoubleQueue /\ QueuedReady /\ QueuedInv)'
  BY DEF IInv, TypeOK, NoDoubleQueue, QueuedReady, QueuedInv, Queued
<1>2. (OwnStack /\ ThreadInv /\ DispatcherInv /\ StackInv)'
  BY DEF IInv, OwnStack, ThreadInv, DispatcherInv, StackInv, InThread, Queued
<1>3. (BootInv /\ BodyMasked /\ OneJobEach /\ NoReturnToExit)'
  BY DEF IInv, BootInv, BodyMasked, OneJobEach, NoReturnToExit
<1> QED BY <1>1, <1>2, <1>3 DEF IInv

-----------------------------------------------------------------------------
(* schedule_rm *)

(* What schedule_rm leaves, when the queue it finds holds no thread twice. *)
LEMMA ScheduleRmFacts ==
  ASSUME NEW q \in Queue, NEW st \in [Tid -> States], NEW jobs, NEW best,
         Distinct(q), ScheduleRm(q, st, jobs, best)
  PROVE  /\ best \in Tid \cup {None}
         /\ best # None => Candidate(q, st, jobs, best)
         /\ current_thread' = best /\ curr_tid' = best
         /\ ready_queue' \in Queue
         /\ NoDoubleQueue'
         /\ \A u \in Tid : Queued(ready_queue', u) <=>
                             Candidate(q, st, jobs, u) /\ u # best
         /\ state' \in [Tid -> States]
         /\ best # None => state'[best] = "RUNNING"
         /\ \A u \in Tid : Queued(ready_queue', u) => state'[u] = st[u]
<1>1. None \notin Tid
  BY MicrosAssumption DEF Tid, None
<1>2. /\ IsBest(q, st, jobs, best)
      /\ ready_queue' = Reinserted(q, st, jobs, best)
      /\ state' = Marked(q, st, jobs, best)
      /\ current_thread' = best /\ curr_tid' = best
  BY DEF ScheduleRm
<1>3. best \in Tid \cup {None} /\ (best # None => Candidate(q, st, jobs, best))
  BY <1>1, <1>2 DEF IsBest
<1>4. /\ ready_queue' \in Queue
      /\ Distinct(ready_queue')
      /\ \A u \in Tid : Queued(ready_queue', u) <=>
                          Candidate(q, st, jobs, u) /\ u # best
  BY <1>2, ReinsertedQueue
<1>5. NoDoubleQueue'
  BY <1>4 DEF Distinct, NoDoubleQueue
<1>6. /\ state' \in [Tid -> States]
      /\ best # None => state'[best] = "RUNNING"
      /\ \A u \in Tid : Candidate(q, st, jobs, u) /\ u # best => state'[u] = st[u]
  BY <1>2, <1>3 DEF Marked, States, Candidate
<1> QED BY <1>2, <1>3, <1>4, <1>5, <1>6

(* exit_thread's own part, before schedule_rm: the thread that ran has     *)
(* done its only job; it may be in the queue, from now on without a frame. *)
ExitJobs == IF IsPeriodic(curr_tid)
              THEN [jobs_done EXCEPT ![curr_tid] = @ + 1] ELSE jobs_done
ExitLast == AllJobsDone(curr_tid, ExitJobs)
ExitState ==
  IF IsPeriodic(curr_tid)
    THEN [state EXCEPT ![curr_tid] = IF ExitLast THEN "EXITED" ELSE "READY"]
    ELSE state
ExitQueue == IF IsPeriodic(curr_tid) /\ ~ExitLast
               THEN HeapInsert(ready_queue, curr_tid) ELSE ready_queue

(* The thread that exits is the current one, on its own stack. *)
LEMMA ExitCurrent ==
  ASSUME IInv, pc = "exit"
  PROVE  /\ curr_tid \in Tid /\ current_thread = curr_tid /\ esp = curr_tid
         /\ sp[curr_tid] = Garbage
         /\ state[curr_tid] \in {"READY", "RUNNING"}
         /\ jobs_done[curr_tid] = 0
         /\ Queued(ready_queue, curr_tid) => Full(ready_queue)
         /\ \A t \in Tid : sp[t].stack # esp
BY DEF IInv, OwnStack, ThreadInv, StackInv, InThread, Full

(* exit_thread's accounting: it counts the first job of the current thread *)
(* and puts no thread into the queue twice. *)
LEMMA ExitAccounts ==
  ASSUME IInv, pc = "exit"
  PROVE  /\ ExitJobs \in [Tid -> Nat]
         /\ \A t \in Tid : ExitJobs[t] <= 1
         /\ \A t \in Tid : t # curr_tid => ExitJobs[t] = jobs_done[t]
         /\ ExitState \in [Tid -> States]
         /\ \A t \in Tid : t # curr_tid => ExitState[t] = state[t]
         /\ ExitQueue \in Queue
         /\ Distinct(ExitQueue)
         /\ \A t \in Tid : Queued(ExitQueue, t) => Queued(ready_queue, t) \/ t = curr_tid
         /\ Queued(ExitQueue, curr_tid) => ExitState[curr_tid] \in {"READY", "EXITED"}
<1>1. /\ curr_tid \in Tid
      /\ jobs_done \in [Tid -> Nat] /\ state \in [Tid -> States]
      /\ ready_queue \in Queue /\ Distinct(ready_queue)
      /\ \A t \in Tid : jobs_done[t] <= 1
      /\ jobs_done[curr_tid] = 0
      /\ Queued(ready_queue, curr_tid) => Full(ready_queue) /\ state[curr_tid] = "READY"
  BY ExitCurrent DEF IInv, TypeOK, OneJobEach, NoDoubleQueue, Distinct, Queue, QueuedReady
<1>2. /\ ExitJobs \in [Tid -> Nat]
      /\ \A t \in Tid : ExitJobs[t] <= 1
      /\ \A t \in Tid : t # curr_tid => ExitJobs[t] = jobs_done[t]
  BY <1>1 DEF ExitJobs
<1>3. /\ ExitState \in [Tid -> States]
      /\ \A t \in Tid : t # curr_tid => ExitState[t] = state[t]
  BY <1>1 DEF ExitState, States
<1>4. /\ ExitQueue \in Queue
      /\ Distinct(ExitQueue)
  BY <1>1, InsertQueue, InsertDistinct DEF ExitQueue
<1>5. \A t \in Tid : Queued(ExitQueue, t) => Queued(ready_queue, t) \/ t = curr_tid
  <2>1. None \notin Tid
    BY MicrosAssumption DEF Tid, None
  <2> QED BY <1>1, <2>1, InsertQueue DEF ExitQueue
<1>6. Queued(ExitQueue, curr_tid) => ExitState[curr_tid] \in {"READY", "EXITED"}
  BY <1>1 DEF ExitQueue, ExitState
<1> QED BY <1>2, <1>3, <1>4, <1>5, <1>6

(* exit_thread, from its accounting to its call of dispatcher. *)
LEMMA ExitThreadStep == IInv /\ ExitThread => IInv'
<1> SUFFICES ASSUME IInv, ExitThread PROVE IInv'
  OBVIOUS
<1>1. /\ pc = "exit" /\ ret' = "hlt" /\ intr' = TRUE
      /\ UNCHANGED <<table, created, sp, esp>>
      /\ jobs_done' = ExitJobs
  BY DEF ExitThread, ExitJobs
<1>2. PICK best \in Tid \cup {None} :
        /\ ScheduleRm(ExitQueue, ExitState, ExitJobs, best)
        /\ pc' = IF best = None THEN "finished" ELSE "dispatcher"
  BY DEF ExitThread, ExitJobs, ExitLast, ExitState, ExitQueue
<1>3. /\ best # None => Candidate(ExitQueue, ExitState, ExitJobs, best)
      /\ current_thread' = best /\ curr_tid' = best
      /\ ready_queue' \in Queue
      /\ NoDoubleQueue'
      /\ \A u \in Tid : Queued(ready_queue', u) <=>
                          Candidate(ExitQueue, ExitState, ExitJobs, u) /\ u # best
      /\ state' \in [Tid -> States]
      /\ \A u \in Tid : Queued(ready_queue', u) => state'[u] = ExitState[u]
  BY <1>1, <1>2, ExitAccounts, ScheduleRmFacts
<1>4. None \notin Tid
  BY MicrosAssumption DEF Tid, None
<1>5. \A u \in Tid : Queued(ready_queue', u) =>
        /\ Queued(ready_queue, u) \/ u = curr_tid
        /\ ExitState[u] = "READY"
  <2> SUFFICES ASSUME NEW u \in Tid, Queued(ready_queue', u)
               PROVE  /\ Queued(ready_queue, u) \/ u = curr_tid
                      /\ ExitState[u] = "READY"
    OBVIOUS
  <2>1. Queued(ExitQueue, u) /\ ExitState[u] # "EXITED"
    BY <1>3 DEF Candidate
  <2>2. Queued(ready_queue, u) \/ u = curr_tid
    BY <1>1, <2>1, ExitAccounts
  <2>3. CASE u = curr_tid
    BY <1>1, <2>1, <2>3, ExitAccounts
  <2>4. CASE u # curr_tid
    BY <1>1, <2>2, <2>4, ExitAccounts DEF IInv, QueuedReady
  <2> QED BY <2>2, <2>3, <2>4
<1>6. TypeOK'
  BY <1>1, <1>2, <1>3, ExitAccounts DEF IInv, TypeOK, Queue
<1>7. (QueuedReady /\ QueuedInv)'
  <2>1. QueuedReady'
    BY <1>3, <1>5 DEF QueuedReady
  <2>2. QueuedInv'
    <3> SUFFICES ASSUME NEW u \in Tid, Queued(ready_queue', u), sp[u] # Garbage
                 PROVE  /\ sp[u].stack = u
                        /\ jobs_done'[u] = 0
                        /\ \/ sp[u].resume = "entry"
                           \/ sp[u].resume \in {"body", "dispatcher"} /\ ~sp[u].intr
      BY <1>1 DEF QueuedInv
    <3>1. u # curr_tid
      BY <1>1, ExitCurrent
    <3>2. Queued(ready_queue, u)
      BY <1>5, <3>1
    <3>3. jobs_done'[u] = jobs_done[u]
      BY <1>1, <3>1, ExitAccounts
    <3> QED BY <3>2, <3>3 DEF IInv, QueuedInv
  <2> QED BY <2>1, <2>2
<1>8. (OwnStack /\ ThreadInv /\ BootInv /\ BodyMasked /\ NoReturnToExit)'
  BY <1>1, <1>2 DEF OwnStack, ThreadInv, InThread, BootInv, BodyMasked, NoReturnToExit
<1>9. (DispatcherInv /\ StackInv)'
  <2>1. DispatcherInv'
    <3> SUFFICES ASSUME pc' = "dispatcher"
                 PROVE  /\ esp' \in Tid /\ current_thread' \in Tid
                        /\ ret' = "hlt" /\ ~Queued(ready_queue', current_thread')
      BY DEF DispatcherInv
    <3> QED BY <1>1, <1>2, <1>3, <1>4, ExitCurrent
  <2>2. StackInv'
    BY <1>1, ExitCurrent DEF StackInv
  <2> QED BY <2>1, <2>2
<1>10. OneJobEach'
  BY <1>1, ExitAccounts DEF OneJobEach
<1> QED BY <1>3, <1>6, <1>7, <1>8, <1>9, <1>10 DEF IInv

(* The stack pointers when dispatcher has saved the one it runs on. *)
Saved == [sp EXCEPT ![current_thread] = CalledFrame]

(* Where a thread of the queue can be resumed from. *)
Resumable(t, frame) ==
  /\ frame.stack = t
  /\ \/ frame.resume = "entry"
     \/ frame.resume \in {"body", "dispatcher"} /\ ~frame.intr

(* The frame that dispatcher saves does not change where queued threads    *)
(* can be resumed, or leads them back into their first job. *)
LEMMA SavedFacts ==
  ASSUME IInv, pc = "dispatcher"
  PROVE  /\ Saved \in [Tid -> Frame]
         /\ \A t \in Tid : Queued(ready_queue, t) /\ Saved[t] # Garbage =>
              Resumable(t, Saved[t]) /\ jobs_done[t] = 0
<1>1. /\ esp \in Tid /\ current_thread \in Tid
      /\ ret \in {"body", "dispatcher", "hlt"} /\ intr \in BOOLEAN
      /\ sp \in [Tid -> Frame]
  BY DEF IInv, DispatcherInv, TypeOK
<1>2. CalledFrame \in Frame
  BY <1>1 DEF CalledFrame, Frame
<1>3. Saved \in [Tid -> Frame]
  BY <1>1, <1>2 DEF Saved
<1>4. ASSUME NEW t \in Tid, Queued(ready_queue, t), Saved[t] # Garbage
      PROVE  Resumable(t, Saved[t]) /\ jobs_done[t] = 0
  <2>1. CASE t # current_thread
    <3>1. Saved[t] = sp[t]
      BY <1>1, <2>1 DEF Saved
    <3> QED BY <1>4, <3>1 DEF IInv, QueuedInv, Resumable
  <2>2. CASE t = current_thread
    <3>1. ret # "hlt"
      BY <1>4, <2>2 DEF IInv, DispatcherInv
    <3>2. esp = t /\ jobs_done[t] = 0 /\ ~intr
      BY <2>2, <3>1 DEF IInv, OwnStack, ThreadInv, DispatcherInv, InThread
    <3>3. Saved[t] = CalledFrame
      BY <1>1, <2>2 DEF Saved
    <3> QED BY <1>1, <3>1, <3>2, <3>3 DEF CalledFrame, Resumable
  <2> QED BY <2>1, <2>2
<1> QED BY <1>3, <1>4

(* dispatcher, which lands in a thread's first job or nowhere. *)
LEMMA DispatcherStep == IInv /\ Dispatcher => IInv'
<1> SUFFICES ASSUME IInv, Dispatcher PROVE IInv'
  OBVIOUS
<1>1. pc = "dispatcher" /\ UNCHANGED <<table, created, jobs_done>>
  BY DEF Dispatcher
<1>2. PICK best \in Tid \cup {None} :
        /\ ScheduleRm(ready_queue, state, jobs_done, best)
        /\ SwitchTo(best, Saved)
        /\ intr' = IF Lands(best, Saved) THEN Saved[best].intr ELSE TRUE
  BY DEF Dispatcher, Saved
<1>3. None \notin Tid
  BY MicrosAssumption DEF Tid, None
<1>4. /\ best # None => Queued(ready_queue, best)
      /\ current_thread' = best /\ curr_tid' = best
      /\ ready_queue' \in Queue
      /\ NoDoubleQueue'
      /\ \A u \in Tid : Queued(ready_queue', u) => Queued(ready_queue, u) /\ u # best
      /\ state' \in [Tid -> States]
      /\ best # None => state'[best] = "RUNNING"
      /\ \A u \in Tid : Queued(ready_queue', u) => state'[u] = state[u]
  <2>1. /\ ready_queue \in Queue /\ state \in [Tid -> States] /\ Distinct(ready_queue)
    BY DEF IInv, TypeOK, Queue, NoDoubleQueue, Distinct
  <2> QED BY <1>2, <2>1, ScheduleRmFacts DEF Candidate
<1>5. QueuedReady'
  BY <1>4 DEF IInv, QueuedReady
<1>6. (OneJobEach /\ BootInv)'
  <2>1. pc' # "kmain"
    <3>1. CASE Lands(best, Saved)
      <4>1. pc' = Saved[best].resume /\ best \in Tid /\ Saved[best] # Garbage
        BY <1>2, <3>1 DEF SwitchTo, Lands
      <4>2. Resumable(best, Saved[best])
        BY <1>1, <1>3, <1>4, <4>1, SavedFacts
      <4> QED BY <4>1, <4>2 DEF Resumable
    <3>2. CASE ~Lands(best, Saved)
      BY <1>2, <3>2 DEF SwitchTo
    <3> QED BY <3>1, <3>2
  <2> QED BY <1>1, <2>1 DEF IInv, OneJobEach, BootInv
<1>7. CASE ~Lands(best, Saved)
  <2>1. pc' = "wild" /\ sp' = Saved /\ intr' = TRUE /\ UNCHANGED <<esp, ret>>
    BY <1>2, <1>7 DEF SwitchTo
  <2>2. TypeOK'
    BY <1>1, <1>2, <1>4, <2>1, SavedFacts DEF IInv, TypeOK, Queue
  <2>3. QueuedInv'
    BY <1>1, <1>4, <2>1, SavedFacts DEF QueuedInv, Resumable
  <2>4. (OwnStack /\ ThreadInv /\ DispatcherInv /\ StackInv)'
    BY <2>1 DEF OwnStack, ThreadInv, DispatcherInv, StackInv, InThread
  <2>5. (BodyMasked /\ NoReturnToExit)'
    BY <2>1 DEF BodyMasked, NoReturnToExit
  <2> QED BY <1>4, <1>5, <1>6, <2>2, <2>3, <2>4, <2>5 DEF IInv
<1>8. CASE Lands(best, Saved)
  <2> DEFINE frame == Saved[best]
  <2>1. /\ best \in Tid /\ frame # Garbage
        /\ Resumable(best, frame)
        /\ jobs_done[best] = 0
        /\ frame \in Frame
    BY <1>1, <1>2, <1>3, <1>4, <1>8, SavedFacts DEF Lands
  <2>2. /\ pc' = frame.resume /\ pc' \in {"entry", "body", "dispatcher"}
        /\ esp' = best
        /\ ret' = IF pc' = "dispatcher" THEN "body" ELSE "none"
        /\ intr' = frame.intr /\ intr' \in BOOLEAN
        /\ pc' # "entry" => ~intr'
        /\ sp' = [t \in Tid |-> IF Saved[t].stack = best THEN Garbage ELSE Saved[t]]
    <3>1. frame.intr \in BOOLEAN
      BY <2>1 DEF Frame, Garbage
    <3> QED BY <1>2, <1>8, <2>1, <3>1 DEF SwitchTo, Overwritten, Resumable
  <2> HIDE DEF frame
  <2>3. sp' \in [Tid -> Frame] /\ sp'[best] = Garbage
        /\ \A t \in Tid : sp'[t].stack # best
    <3>1. Saved[best].stack = best
      BY <2>1 DEF Resumable, frame
    <3>2. Garbage \in Frame /\ Garbage.stack # best
      BY <1>3, <2>1 DEF Frame, Garbage
    <3> QED BY <1>1, <2>1, <2>2, <3>1, <3>2, SavedFacts
  <2>4. TypeOK'
    BY <1>1, <1>2, <1>4, <2>1, <2>2, <2>3 DEF IInv, TypeOK, Queue
  <2>5. QueuedInv'
    <3>1. \A t \in Tid : sp'[t] # Garbage => sp'[t] = Saved[t]
      BY <2>2
    <3> QED BY <1>1, <1>4, <3>1, SavedFacts DEF QueuedInv, Resumable
  <2>6. OwnStack' /\ StackInv'
    BY <1>4, <2>1, <2>2, <2>3 DEF OwnStack, StackInv
  <2>7. ThreadInv' /\ DispatcherInv'
    <3>1. ~Queued(ready_queue', best)
      BY <1>4, <2>1
    <3>2. current_thread' = best /\ state'[best] = "RUNNING"
      BY <1>3, <1>4, <2>1
    <3> QED BY <1>1, <2>1, <2>2, <2>3, <3>1, <3>2 DEF ThreadInv, DispatcherInv
  <2>8. (BodyMasked /\ NoReturnToExit)'
    BY <2>2 DEF BodyMasked, NoReturnToExit
  <2> QED BY <1>4, <1>5, <1>6, <2>4, <2>5, <2>6, <2>7, <2>8 DEF IInv
<1> QED BY <1>7, <1>8

-----------------------------------------------------------------------------
(* Theorems *)

(* Every step of the kernel keeps the invariant. *)
LEMMA NextStep == IInv /\ [Next]_vars => IInv'
<1>1. CASE Kernel
  BY <1>1, ThreadCreateStep, DispatchFirstRunStep, ThreadStartStep,
     ExitThreadStep, DispatcherStep DEF Kernel
<1>2. CASE ThreadReturn \/ Yield \/ SpuriousInterrupt
  BY <1>2, ThreadReturnStep, YieldStep, SpuriousInterruptStep
<1>3. CASE Stopped \/ UNCHANGED vars
  BY <1>3, UnchangedStep DEF Stopped
<1> QED BY <1>1, <1>2, <1>3 DEF Next

(* IInv holds in every state of the kernel: whoever is in the queue can    *)
(* only be resumed where dispatcher or thread_create left it.              *)
THEOREM Invariance == Spec => []IInv
<1> QED BY InitIInv, NextStep, PTL DEF Spec

(* The kernel's variables keep their types. *)
THEOREM TypeCorrect == Spec => []TypeOK
<1>1. IInv => TypeOK
  BY DEF IInv
<1> QED BY <1>1, Invariance, PTL

(* The ready queue never holds a TCB twice, so it cannot be filled by      *)
(* repeated insertions of the same thread.                                 *)
THEOREM QueueDistinct == Spec => []NoDoubleQueue
<1>1. IInv => NoDoubleQueue
  BY DEF IInv
<1> QED BY <1>1, Invariance, PTL

(* Threads run on their own stacks and their jobs are charged to them. *)
THEOREM StacksKept == Spec => []OwnStack
<1>1. IInv => OwnStack
  BY DEF IInv
<1> QED BY <1>1, Invariance, PTL

(* No thread ever does a second job, whatever its max_jobs: src/thread.h's *)
(* `how many periodic instances to run' is not met by any table.           *)
THEOREM OneJob == Spec => []OneJobEach
<1>1. IInv => OneJobEach
  BY DEF IInv
<1> QED BY <1>1, Invariance, PTL

(* The halt loop after exit_thread's call of dispatcher is dead code. *)
THEOREM ExitNeverResumed == Spec => []NoReturnToExit
<1>1. IInv => NoReturnToExit
  BY DEF IInv
<1> QED BY <1>1, Invariance, PTL

(* Thread functions run with interrupts disabled. *)
THEOREM BodiesMasked == Spec => []BodyMasked
<1>1. IInv => BodyMasked
  BY DEF IInv
<1> QED BY <1>1, Invariance, PTL

(* Whatever schedule_rm finds in the queue has a job to do. *)
THEOREM QueueReady == Spec => []QueuedReady
<1>1. IInv => QueuedReady
  BY DEF IInv
<1> QED BY <1>1, Invariance, PTL

-----------------------------------------------------------------------------
(* Action properties *)

(* schedule_rm neither revives a thread that has exited nor finds one that *)
(* is not in the queue. *)
LEMMA ScheduleRmKeeps ==
  ASSUME NEW q \in Queue, NEW st \in [Tid -> States], NEW jobs,
         NEW best \in Tid \cup {None}, ScheduleRm(q, st, jobs, best)
  PROVE  \A t \in Tid :
           /\ st[t] = "EXITED" => state'[t] = "EXITED" /\ current_thread' # t
           /\ ~Queued(q, t) => /\ state'[t] = st[t]
                               /\ current_thread' # t
                               /\ ~Queued(ready_queue', t)
<1>1. None \notin Tid
  BY MicrosAssumption DEF Tid, None
<1>2. current_thread' = best
  BY DEF ScheduleRm
<1>3. \A t \in Tid : best = t => Queued(q, t) /\ st[t] # "EXITED"
  BY <1>1 DEF ScheduleRm, IsBest, Candidate
<1>4. \A t \in Tid :
        state'[t] = IF t = best THEN "RUNNING"
                    ELSE IF Queued(q, t) /\ AllJobsDone(t, jobs) THEN "EXITED"
                    ELSE st[t]
  BY DEF ScheduleRm, Marked
<1>5. \A t \in Tid : Queued(ready_queue', t) => Queued(q, t)
  BY ReinsertedQueue DEF ScheduleRm, Candidate
<1> QED BY <1>2, <1>3, <1>4, <1>5

(* The steps that leave the TCBs' states, the queue and the current thread *)
(* alone, and those that do not. *)
LEMMA StepKinds ==
  ASSUME IInv, [Next]_vars
  PROVE  \/ pc = "kmain" /\ (ThreadCreate \/ DispatchFirstRun)
         \/ pc = "exit" /\ ExitThread
         \/ pc = "dispatcher" /\ Dispatcher
         \/ /\ UNCHANGED <<state, ready_queue, current_thread>>
            /\ pc' = "kmain" => pc = "kmain"
BY DEF Next, Kernel, ThreadCreate, DispatchFirstRun, ThreadStart, ThreadReturn,
       Yield, ExitThread, Dispatcher, SpuriousInterrupt, Stopped, vars, tcbs

(* exit_thread calls schedule_rm on what its accounting has left. *)
LEMMA ExitSchedules ==
  ASSUME IInv, pc = "exit", ExitThread
  PROVE  /\ \E best \in Tid \cup {None} : ScheduleRm(ExitQueue, ExitState, ExitJobs, best)
         /\ ExitQueue \in Queue /\ ExitState \in [Tid -> States]
         /\ pc' # "kmain"
BY ExitAccounts
   DEF ExitThread, ExitJobs, ExitLast, ExitState, ExitQueue

(* dispatcher calls schedule_rm on the queue and states as they are, and   *)
(* never gets back to kmain. *)
LEMMA DispatcherSchedules ==
  ASSUME IInv, pc = "dispatcher", Dispatcher
  PROVE  /\ \E best \in Tid \cup {None} : ScheduleRm(ready_queue, state, jobs_done, best)
         /\ ready_queue \in Queue /\ state \in [Tid -> States]
         /\ pc' # "kmain"
<1>1. ready_queue \in Queue /\ state \in [Tid -> States]
  BY DEF IInv, TypeOK, Queue
<1>2. pc' # "kmain"
  <2>1. PICK best \in Tid \cup {None} :
          /\ SwitchTo(best, Saved)
          /\ best # None => Queued(ready_queue, best)
    BY DEF Dispatcher, Saved, ScheduleRm, IsBest, Candidate
  <2>2. CASE Lands(best, Saved)
    <3>1. best \in Tid /\ Queued(ready_queue, best) /\ Saved[best] # Garbage
      BY <2>1, <2>2 DEF Lands
    <3>2. Resumable(best, Saved[best])
      BY <3>1, SavedFacts
    <3> QED BY <2>1, <2>2, <3>2 DEF SwitchTo, Resumable
  <2>3. CASE ~Lands(best, Saved)
    BY <2>1, <2>3 DEF SwitchTo
  <2> QED BY <2>2, <2>3
<1> QED BY <1>1, <1>2 DEF Dispatcher

(* A thread that is neither current nor queued, and has not exited, stays  *)
(* so forever: the kernel has no way to find it again. *)
THEOREM LostForGood == Spec => LostForever
<1> DEFINE Keeps == \A t \in Tid : Lost(t) => Lost(t)'
<1>1. IInv /\ [Next]_vars => Keeps
  <2> SUFFICES ASSUME IInv, [Next]_vars, NEW t \in Tid, Lost(t) PROVE Lost(t)'
    OBVIOUS
  <2> USE DEF Lost
  <2>1. CASE pc = "kmain"
    BY <2>1
  <2>2. CASE pc = "exit" /\ ExitThread
    <3>1. ~Queued(ExitQueue, t) /\ ExitState[t] = state[t]
      BY <2>2, ExitCurrent, ExitAccounts
    <3> QED BY <2>2, <3>1, ExitSchedules, ScheduleRmKeeps
  <2>3. CASE pc = "dispatcher" /\ Dispatcher
    BY <2>3, DispatcherSchedules, ScheduleRmKeeps
  <2>4. CASE UNCHANGED <<state, ready_queue, current_thread>> /\ (pc' = "kmain" => pc = "kmain")
    BY <2>4 DEF Queued
  <2> QED BY <2>1, <2>2, <2>3, <2>4, StepKinds
<1> QED BY <1>1, Invariance, PTL DEF Spec, LostForever

(* Whomever schedule_rm chooses is current, by both names, and running. *)
LEMMA ScheduleRmRuns ==
  ASSUME NEW q, NEW st, NEW jobs, NEW best \in Tid, ScheduleRm(q, st, jobs, best)
  PROVE  current_thread' = best /\ curr_tid' = best /\ state'[best] = "RUNNING"
BY DEF ScheduleRm, Marked

(* Every step of the kernel keeps what is known of the caller. *)
LEMMA CallerStep == IInv /\ CallerInv /\ [Next]_vars => CallerInv'
<1> SUFFICES ASSUME IInv, CallerInv, [Next]_vars PROVE CallerInv'
  OBVIOUS
<1>0. None \notin Tid /\ 0 \in Tid
  BY MicrosAssumption DEF Tid, None
<1>1. CASE ThreadCreate
  BY <1>1 DEF ThreadCreate, CallerInv, InThread, cpu
<1>2. CASE DispatchFirstRun
  <2>1. /\ current_thread' = 0 /\ curr_tid' = 0
        /\ ready_queue' = ready_queue /\ ready_queue[0] = 0
    BY <1>0, <1>2, MicrosAssumption DEF DispatchFirstRun, IInv, BootInv, Tid
  <2> QED BY <1>0, <2>1 DEF CallerInv, Queued, Slots
<1>3. CASE ThreadStart \/ ThreadReturn \/ Yield
  <2>1. /\ pc \in {"entry", "body"}
        /\ UNCHANGED <<state, ready_queue, current_thread, curr_tid>>
    BY <1>3 DEF ThreadStart, ThreadReturn, Yield, tcbs
  <2> QED BY <2>1 DEF CallerInv, InThread, Queued
<1>4. CASE ExitThread
  <2>1. PICK best \in Tid \cup {None} :
          /\ ScheduleRm(ExitQueue, ExitState, ExitJobs, best)
          /\ pc' = IF best = None THEN "finished" ELSE "dispatcher"
    BY <1>4 DEF ExitThread, ExitJobs, ExitLast, ExitState, ExitQueue
  <2>2. CASE best = None
    BY <2>1, <2>2 DEF CallerInv, InThread
  <2>3. CASE best \in Tid
    BY <2>1, <2>3, ScheduleRmRuns DEF CallerInv
  <2> QED BY <2>2, <2>3
<1>5. CASE Dispatcher
  <2>1. PICK best \in Tid \cup {None} :
          /\ ScheduleRm(ready_queue, state, jobs_done, best)
          /\ SwitchTo(best, Saved)
    BY <1>5 DEF Dispatcher, Saved
  <2>2. CASE best = None
    BY <2>1, <2>2 DEF SwitchTo, Lands, CallerInv, InThread
  <2>3. CASE best \in Tid
    BY <2>1, <2>3, ScheduleRmRuns DEF CallerInv
  <2> QED BY <2>2, <2>3
<1>6. CASE SpuriousInterrupt
  BY <1>6 DEF SpuriousInterrupt, CallerInv, InThread
<1>7. CASE Stopped \/ UNCHANGED vars
  BY <1>7 DEF Stopped, CallerInv, InThread, Queued, vars, tcbs, cpu
<1> QED BY <1>1, <1>2, <1>3, <1>4, <1>5, <1>6, <1>7 DEF Next, Kernel

(* That the calling thread competes in schedule_rm_org too makes no        *)
(* difference: it is not ready, or in the queue. *)
LEMMA SameCandidates ==
  ASSUME IInv, CallerInv, Comparable, pc = "dispatcher", NEW t \in Tid
  PROVE  CandidateOrg(ready_queue, state, jobs_done, curr_tid, t)
           <=> Candidate(ready_queue, state, jobs_done, t)
<1> SUFFICES ASSUME t = curr_tid, state[t] = "READY"
             PROVE  Candidate(ready_queue, state, jobs_done, t)
  BY DEF CandidateOrg
<1>1. t = 0 /\ t = current_thread /\ Queued(ready_queue, t)
  BY DEF CallerInv
<1>2. ret # "hlt"
  BY <1>1 DEF IInv, DispatcherInv
<1>3. jobs_done[t] = 0
  BY <1>1, <1>2 DEF IInv, ThreadInv, InThread
<1>4. table[0].max_jobs \in Int
  BY <1>1, MicrosAssumption DEF IInv, TypeOK
<1>5. ~AllJobsDone(t, jobs_done)
  BY <1>1, <1>3, <1>4 DEF Comparable, AllJobsDone
<1> QED BY <1>1, <1>5 DEF Candidate

(* The earlier scheduler and the one that has replaced it agree on whom    *)
(* dispatcher switches to. *)
THEOREM Agreed == Spec => SchedulersAgree
<1> DEFINE org == ScheduleRmOrg(ready_queue, state, jobs_done, curr_tid)
           Agree == Dispatcher /\ Comparable =>
                      /\ current_thread' = org.best
                      /\ \A t \in Tid : Queued(ready_queue, t)'
                                         <=> t \in org.left \ {org.best}
           C(t) == Candidate(ready_queue, state, jobs_done, t)
           Cs == {t \in Tid : C(t)}
<1>1. IInv /\ CallerInv => Agree
  <2> SUFFICES ASSUME IInv, CallerInv, Dispatcher, Comparable
               PROVE  /\ current_thread' = org.best
                      /\ \A t \in Tid : Queued(ready_queue, t)'
                                         <=> t \in org.left \ {org.best}
    OBVIOUS
  <2>1. pc = "dispatcher"
    BY DEF Dispatcher
  <2>2. PICK best \in Tid \cup {None} : ScheduleRm(ready_queue, state, jobs_done, best)
    BY <2>1, DispatcherSchedules
  <2>3. current_thread' = best /\ IsBest(ready_queue, state, jobs_done, best)
    BY <2>2 DEF ScheduleRm
  <2>4. \A t, u \in Tid : /\ table[t].period \in 1 .. 255
                          /\ Priority(t) = table[t].period
                          /\ t # u => table[t].period # table[u].period
    BY DEF Comparable, Priority, IsPeriodic
  <2> DEFINE Os == {t \in Tid : CandidateOrg(ready_queue, state, jobs_done, curr_tid, t)}
             Best(S) == IF S = {} THEN None
                        ELSE CHOOSE t \in S : \A u \in S \ {t} : rm_cmp(t, u)
  <2>5. Os = Cs
    BY <2>1, SameCandidates
  <2>6. org.best = Best(Cs) /\ org.left = Cs
    <3>1. org = [best |-> Best(Os), left |-> Cs]
      BY DEF ScheduleRmOrg
    <3> HIDE DEF org, Os, Cs, Best
    <3> QED BY <2>5, <3>1
  <2>7. org.best = best
    <3>1. CASE Cs = {}
      BY <2>3, <2>6, <3>1 DEF IsBest
    <3>2. CASE Cs # {}
      <4>1. /\ best \in Cs
            /\ \A u \in Cs : table[best].period <= table[u].period
        BY <2>3, <2>4, <3>2 DEF IsBest
      <4>2. \A t, u \in Tid : t # u => (rm_cmp(t, u) <=> table[t].period < table[u].period)
        BY <2>4 DEF rm_cmp
      <4>3. \A t \in Tid : table[t].period \in Int
        BY <2>4
      <4>4. \A u \in Cs \ {best} : table[best].period < table[u].period
        BY <2>4, <4>1, <4>3
      <4>5. \A u \in Cs \ {best} : rm_cmp(best, u)
        BY <4>1, <4>2, <4>4
      <4>6. \A t \in Cs : (\A u \in Cs \ {t} : rm_cmp(t, u)) => t = best
        BY <4>1, <4>2, <4>3, <4>4
      <4> HIDE DEF Cs
      <4>7. (CHOOSE t \in Cs : \A u \in Cs \ {t} : rm_cmp(t, u)) = best
        BY <4>1, <4>5, <4>6
      <4> QED BY <2>6, <3>2, <4>7
    <3> QED BY <3>1, <3>2
  <2>8. \A t \in Tid : Queued(ready_queue', t) <=> C(t) /\ t # best
    BY <2>1, <2>2, DispatcherSchedules, ReinsertedQueue DEF ScheduleRm
  <2>9. \A t \in Tid : Queued(ready_queue, t)' <=> Queued(ready_queue', t)
    BY DEF Queued
  <2> HIDE DEF org
  <2> QED BY <2>3, <2>6, <2>7, <2>8, <2>9
<1>2. Init => CallerInv
  BY DEF Init, CallerInv, InThread
<1>3. Spec => []CallerInv
  BY <1>2, CallerStep, Invariance, PTL DEF Spec
<1> QED BY <1>1, <1>3, Invariance, PTL DEF Spec, SchedulersAgree

-----------------------------------------------------------------------------
(* The thread function *)

(* Counting from where the thread before has left it, the counter reads 3  *)
(* again after as many rounds as an int has numbers, and not before.       *)
LEMMA CountOn ==
  ASSUME NEW t \in Nat, NEW n \in Nat, n < RoundsOf(t),
         counter[thread_ids] = CountAfter(t, n)
  PROVE  /\ Incremented = 3 <=> n + 1 = RoundsOf(t)
         /\ n + 1 < RoundsOf(t) => Incremented = CountAfter(t, n + 1)
<1> DEFINE H == Wrap \div 2
<1>1. H \in Nat /\ H > 3 /\ Wrap = 2 * H
  BY MicrosDemoAssumption
<1>2. CASE t = 0
  BY <1>1, <1>2 DEF Incremented, CountAfter, RoundsOf
<1>3. CASE t # 0
  <2>1. CountAfter(t, n) = IF 3 + n < H THEN 3 + n ELSE 3 + n - 2 * H
    BY <1>1, <1>3 DEF CountAfter
  <2>2. CountAfter(t, n + 1) = IF 4 + n < H THEN 4 + n ELSE 4 + n - 2 * H
    BY <1>1, <1>3 DEF CountAfter
  <2>3. Incremented = IF CountAfter(t, n) = H - 1 THEN -H ELSE CountAfter(t, n) + 1
    BY DEF Incremented
  <2>4. RoundsOf(t) = 2 * H
    BY <1>1, <1>3 DEF RoundsOf
  <2> HIDE DEF H
  <2> QED BY <1>1, <2>1, <2>2, <2>3, <2>4
<1> QED BY <1>2, <1>3

(* A round of the loop counts, and the last one is the one that reads 3.   *)
LEMMA RoundStep ==
  ASSUME IInv, DemoInv, MAX_THREADS > 1, Round \/ LastRound
  PROVE  DemoInv'
<1> DEFINE t == current_thread
           n == rounds[t]
<1>1. /\ pc = "body" /\ t \in Tid /\ esp = t /\ sp[t] = Garbage
      /\ counter' = [counter EXCEPT ![thread_ids] = Incremented]
      /\ rounds' = [rounds EXCEPT ![t] = n + 1]
      /\ UNCHANGED <<jobs_done, sp, current_thread>>
  BY DEF Round, LastRound, CountRound, ThreadReturn, tcbs, vars,
         IInv, OwnStack, ThreadInv, InThread
<1>2. /\ Tid \subseteq Nat /\ thread_ids \in Tid
      /\ counter \in [Tid -> Int] /\ done \in [Tid -> BOOLEAN] /\ rounds \in [Tid -> Nat]
  BY MicrosAssumption DEF Tid, thread_ids, DemoInv
<1>3. n \in Nat /\ n < RoundsOf(t) /\ counter[thread_ids] = CountAfter(t, n)
  BY <1>1, <1>2 DEF DemoInv, CountInv
<1>4. /\ Incremented = 3 <=> n + 1 = RoundsOf(t)
      /\ n + 1 < RoundsOf(t) => Incremented = CountAfter(t, n + 1)
  BY <1>1, <1>2, <1>3, CountOn
<1>5. RoundsOf(t) \in Nat /\ n + 1 <= RoundsOf(t)
  BY <1>3, MicrosDemoAssumption DEF RoundsOf
<1>6. Incremented \in Int
  BY <1>2, MicrosDemoAssumption DEF Incremented
<1>7. counter'[thread_ids] = Incremented /\ rounds'[t] = n + 1
      /\ \A u \in Tid \ {t} : rounds'[u] = rounds[u]
  BY <1>1, <1>2
<1>8. counter' \in [Tid -> Int] /\ rounds' \in [Tid -> Nat]
  BY <1>1, <1>2, <1>3, <1>6
<1>9. CASE Round
  <2>1. pc' = "body" /\ done' = done /\ Incremented # 3 /\ ret' = ret
    BY <1>1, <1>9 DEF Round, vars
  <2>2. n + 1 < RoundsOf(t)
    BY <1>3, <1>4, <1>5, <2>1
  <2>3. CountInv'
    BY <1>1, <1>4, <1>7, <2>1, <2>2 DEF CountInv
  <2>4. FrameInv'
    BY <1>1, <1>7, <2>1 DEF DemoInv, FrameInv, Garbage
  <2>5. RoundsOfAll'
    <3>1. jobs_done[t] = 0
      BY <1>1 DEF IInv, ThreadInv, InThread
    <3> QED BY <1>1, <1>2, <1>5, <1>7, <2>1, <3>1 DEF DemoInv, RoundsOfAll
  <2> QED BY <1>2, <1>8, <2>1, <2>3, <2>4, <2>5 DEF DemoInv
<1>10. CASE LastRound
  <2>1. /\ pc' = "exit" /\ done' = [done EXCEPT ![thread_ids] = TRUE]
        /\ Incremented = 3 /\ ret' = ret
    BY <1>10 DEF LastRound, ThreadReturn
  <2>2. n + 1 = RoundsOf(t)
    BY <1>4, <2>1
  <2>3. CountInv'
    BY <1>1, <1>7, <2>1, <2>2 DEF CountInv
  <2>4. FrameInv'
    BY <1>1, <1>7, <2>1 DEF DemoInv, FrameInv, Garbage
  <2>5. RoundsOfAll'
    <3>1. jobs_done[t] = 0
      BY <1>1 DEF IInv, ThreadInv, InThread
    <3> QED BY <1>1, <1>2, <1>5, <1>7, <2>1, <3>1 DEF DemoInv, RoundsOfAll
  <2> QED BY <1>2, <1>8, <2>1, <2>3, <2>4, <2>5 DEF DemoInv
<1> QED BY <1>9, <1>10

(* The kernel's steps count no rounds, and dispatch only threads that have *)
(* counted none.                                                           *)
LEMMA KernelStep ==
  ASSUME IInv, IInv', DemoInv, Kernel, UNCHANGED demo
  PROVE  DemoInv'
<1>0. /\ Tid \subseteq Nat /\ None \notin Tid /\ 0 \in Tid /\ UNCHANGED <<counter, done, rounds>>
      /\ FrameInv /\ CountInv /\ RoundsOfAll
      /\ counter \in [Tid -> Int] /\ done \in [Tid -> BOOLEAN] /\ rounds \in [Tid -> Nat]
      /\ sp \in [Tid -> Frame]
  BY MicrosAssumption DEF Tid, None, demo, DemoInv, IInv, TypeOK
<1>1. SUFFICES FrameInv' /\ CountInv' /\ RoundsOfAll'
  BY <1>0 DEF DemoInv
<1>2. CASE ThreadCreate
  <2>1. /\ pc = "kmain" /\ pc' = "kmain" /\ created \in Tid
        /\ sp' = [sp EXCEPT ![created] = FirstFrame(created)]
    BY <1>0, <1>2, CreatePlace DEF ThreadCreate, cpu
  <2>2. \A t \in Tid : jobs_done'[t] = 0
    BY <2>1 DEF IInv, BootInv
  <2>3. FrameInv'
    BY <1>0, <2>1, FirstFrameFields DEF FrameInv, CountInv
  <2> QED BY <1>0, <2>1, <2>2, <2>3 DEF CountInv, RoundsOfAll
<1>3. CASE DispatchFirstRun
  <2>1. /\ pc = "kmain" /\ pc' = "entry" /\ current_thread' = 0
        /\ jobs_done' = jobs_done
        /\ sp' = [t \in Tid |-> IF t = 0 THEN Garbage ELSE FirstFrame(t)]
    BY <1>3, FirstRunFacts DEF DispatchFirstRun
  <2>2. FrameInv'
    BY <1>0, <2>1, FirstFrameFields DEF FrameInv, CountInv, Garbage
  <2>3. CountInv'
    BY <1>0, <2>1 DEF CountInv, RoundsOf, CountAfter
  <2> QED BY <1>0, <2>1, <2>2, <2>3 DEF RoundsOfAll
<1>4. CASE ThreadStart
  <2>1. pc = "entry" /\ pc' = "body" /\ UNCHANGED <<jobs_done, sp, current_thread>>
    BY <1>4 DEF ThreadStart, tcbs
  <2> QED BY <1>0, <2>1 DEF FrameInv, CountInv, RoundsOfAll
<1>5. CASE ExitThread
  <2>1. /\ pc = "exit" /\ pc' \in {"finished", "dispatcher"} /\ ret' = "hlt"
        /\ UNCHANGED sp /\ jobs_done' = ExitJobs
    BY <1>5 DEF ExitThread, ExitJobs
  <2>2. rounds[curr_tid] = RoundsOf(curr_tid)
    BY <1>0, <2>1, ExitCurrent DEF CountInv
  <2>3. RoundsOfAll'
    BY <1>0, <2>1, <2>2, ExitAccounts DEF RoundsOfAll
  <2>4. FrameInv' /\ CountInv'
    BY <1>0, <2>1 DEF FrameInv, CountInv
  <2> QED BY <2>3, <2>4
<1>6. CASE Dispatcher
  <2>1. /\ pc = "dispatcher" /\ UNCHANGED jobs_done
        /\ ret = "hlt" /\ current_thread \in Tid /\ ~Queued(ready_queue, current_thread)
    BY <1>0, <1>6 DEF Dispatcher, FrameInv, IInv, DispatcherInv
  <2>2. PICK best \in Tid \cup {None} :
          /\ ScheduleRm(ready_queue, state, jobs_done, best)
          /\ SwitchTo(best, Saved)
    BY <1>6 DEF Dispatcher, Saved
  <2>3. \A t \in Tid : Saved[t].resume = IF t = current_thread THEN "hlt" ELSE sp[t].resume
    BY <1>0, <2>1 DEF Saved, CalledFrame
  <2>4. RoundsOfAll'
    BY <1>0, <2>1 DEF RoundsOfAll
  <2>5. CASE ~Lands(best, Saved)
    <3>1. pc' = "wild" /\ sp' = Saved
      BY <2>2, <2>5 DEF SwitchTo
    <3>2. FrameInv' /\ CountInv'
      BY <1>0, <2>1, <2>3, <3>1 DEF FrameInv, CountInv
    <3> QED BY <2>4, <3>2
  <2>6. CASE Lands(best, Saved)
    <3>1. best \in Tid /\ Saved[best] # Garbage /\ Queued(ready_queue, best)
          /\ current_thread' = best
      BY <1>0, <2>2, <2>6 DEF Lands, ScheduleRm, IsBest, Candidate
    <3>2. Resumable(best, Saved[best]) /\ best # current_thread
      BY <2>1, <3>1, SavedFacts
    <3>3. Saved[best].resume = "entry" /\ rounds[best] = 0 /\ best # 0
      BY <1>0, <2>1, <2>3, <3>1, <3>2 DEF Resumable, FrameInv
    <3>4. pc' = "entry" /\ sp' = Overwritten(Saved[best].stack, Saved)
      BY <2>2, <2>6, <3>3 DEF SwitchTo
    <3>5. \A t \in Tid : sp'[t].resume \in {"garbage", Saved[t].resume}
      BY <3>4 DEF Overwritten, Garbage
    <3>6. FrameInv'
      BY <1>0, <2>1, <2>3, <3>4, <3>5 DEF FrameInv
    <3>7. 3 < Wrap \div 2 /\ Wrap > 0
      BY MicrosDemoAssumption
    <3>8. CountInv'
      BY <1>0, <2>1, <3>1, <3>3, <3>4, <3>7 DEF CountInv, CountAfter, RoundsOf
    <3> QED BY <2>4, <3>6, <3>8
  <2> QED BY <2>5, <2>6
<1> QED BY <1>2, <1>3, <1>4, <1>5, <1>6 DEF Kernel

(* The first thread does the three rounds of thread_func's comment; every  *)
(* other one, against it, as many as an int has numbers, and done[] is set *)
(* for one thread only, for any number of threads and width of int.        *)
THEOREM RoundsDone ==
  ASSUME MAX_THREADS > 1
  PROVE  DemoSpec => []RoundsOfAll
<1>1. DemoInit => IInv /\ DemoInv
  <2> SUFFICES ASSUME DemoInit PROVE DemoInv
    BY InitIInv DEF DemoInit
  <2>1. /\ counter = [t \in Tid |-> 0] /\ done = [t \in Tid |-> FALSE]
        /\ rounds = [t \in Tid |-> 0] /\ pc = "kmain"
        /\ \A t \in Tid : sp[t] = Garbage /\ jobs_done[t] = 0
        /\ thread_ids \in Tid
    BY MicrosAssumption DEF DemoInit, Init, thread_ids, Tid
  <2>2. FrameInv /\ CountInv
    BY <2>1 DEF FrameInv, CountInv, Garbage
  <2>3. RoundsOfAll
    BY <2>1, MicrosDemoAssumption DEF RoundsOfAll, RoundsOf
  <2> QED BY <2>1, <2>2, <2>3 DEF DemoInv
<1>2. IInv /\ DemoInv /\ [DemoNext]_<<vars, demo>> => IInv' /\ DemoInv'
  <2> SUFFICES ASSUME IInv, DemoInv, [DemoNext]_<<vars, demo>> PROVE IInv' /\ DemoInv'
    OBVIOUS
  <2>1. IInv'
    BY NextStep DEF DemoNext, Round, LastRound, Next
  <2>2. CASE Round \/ LastRound
    BY <2>1, <2>2, RoundStep
  <2>3. CASE Kernel /\ UNCHANGED demo
    BY <2>1, <2>3, KernelStep
  <2>4. CASE UNCHANGED vars /\ UNCHANGED demo
    BY <2>1, <2>4 DEF vars, demo, DemoInv, FrameInv, CountInv, RoundsOfAll, Incremented
  <2> QED BY <2>1, <2>2, <2>3, <2>4 DEF DemoNext, Stopped
<1>3. DemoInv => RoundsOfAll
  BY DEF DemoInv
<1> QED BY <1>1, <1>2, <1>3, PTL DEF DemoSpec
=============================================================================
