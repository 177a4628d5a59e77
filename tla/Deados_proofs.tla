--------------------------- MODULE Deados_proofs ---------------------------
(***************************************************************************)
(* Proofs about module Deados, for any number of threads, any workloads    *)
(* with positive periods and ticks at any set of places.                   *)
(***************************************************************************)
EXTENDS Deados, Lemmas

(* What is known of the constants. *)
LEMMA Constants ==
  /\ MAX_THREADS \in Nat \ {0}
  /\ Tid = 1 .. MAX_THREADS /\ Tid \subseteq Nat \ {0}
  /\ Ctx = Tid \cup {Burner, Kmain}
  /\ Kmain = 0 /\ NULL = -1 /\ Stale = -2 /\ Wild = -2
  /\ Burner = MAX_THREADS + 2 /\ Burner \in Nat /\ Burner \notin Tid
  /\ Kmain \notin Tid /\ NULL \notin Tid /\ Stale \notin Tid
  /\ Burner \notin {Kmain, NULL, Stale}
  /\ LINE \in Nat \ {0} /\ ROUNDS \in Nat /\ Wrap \in Nat /\ Wrap > 0
BY DeadosAssumption DEF Tid, Burner, Kmain, NULL, Stale, Wild, Ctx

(* What is known of a workload. *)
LEMMA Loads ==
  ASSUME NEW w \in Workloads
  PROVE  /\ w.period \in [Tid -> Nat \ {0}] /\ w.budget \in [Tid -> Nat]
         /\ w.horizon \in Nat
         /\ "create" \notin w.ticks
BY DeadosAssumption DEF ThreadAt, KmainAt, BurnerAt

-----------------------------------------------------------------------------
(* The invariant in two parts: what the contexts on the CPU change, and    *)
(* what the handler does. *)

CpuTypes ==
  /\ work \in Workloads
  /\ on \in Ctx \cup {Wild}
  /\ at \in [Ctx -> ThreadAt \cup KmainAt \cup BurnerAt]
  /\ \A c \in Ctx : at[c] \in IF c = Kmain THEN KmainAt
                              ELSE IF c = Burner THEN BurnerAt ELSE ThreadAt
  /\ edi \in Ctx \cup {Stale}
  /\ zf \in [Tid -> BOOLEAN]
  /\ id \in [Tid -> 0 .. MAX_THREADS]
  /\ left \in [Tid -> 0 .. LINE]
  /\ counter \in [Tid -> 0 .. Wrap - 1]
  /\ done \in [Tid -> BOOLEAN]
  /\ state \in [Tid -> {0, 1}]
  /\ sp \in [Tid \cup {Burner} -> Ctx \cup {Stale}]

QueueTypes ==
  /\ deadline \in [Tid -> Nat]
  /\ run_time \in [Tid -> Nat]
  /\ current \in Tid \cup {Burner, NULL}
  /\ ready \in Seq(Tid)
  /\ waiting \in Seq(Tid)
  /\ nodes \in Nat
  /\ current_time \in 0 .. work.horizon
  /\ step \in {"run", "check", "pop", "switch"}
  /\ i \in Nat \ {0}
  /\ pos \in 0 .. Len(ready)
  /\ pos > 0 => step \in {"check", "pop"}

CpuInv == CpuTypes /\ BootInv /\ KmainInv /\ OwnContext

QueueInv == QueueTypes /\ Conserved /\ Sorted /\ DeadlineInv /\ CurrentInv

(* The two parts are the invariant, before a step and after it. *)
LEMMA Parts ==
  /\ IInv <=> CpuInv /\ QueueInv
  /\ IInv' <=> CpuInv' /\ QueueInv'
BY DEF IInv, TypeOK, CpuInv, CpuTypes, QueueInv, QueueTypes

-----------------------------------------------------------------------------
(* Initial states *)

(* The state kmain starts in has the inductive invariant. *)
LEMMA InitInv == Init => IInv
<1> SUFFICES ASSUME Init PROVE IInv
  OBVIOUS
<1> USE Constants
<1>1. CpuTypes
  BY DEF Init, CpuTypes, ThreadAt, KmainAt, BurnerAt
<1>2. QueueTypes
  BY Loads DEF Init, QueueTypes
<1>3. BootInv /\ KmainInv /\ OwnContext
  BY <1>1 DEF Init, CpuTypes, BootInv, KmainInv, OwnContext
<1>4. Conserved /\ Sorted /\ CurrentInv
  BY DEF Init, Conserved, Sorted, CurrentInv, InReady, InWaiting
<1>5. DeadlineInv
  BY Loads DEF Init, DeadlineInv
<1> QED BY <1>1, <1>2, <1>3, <1>4, <1>5, Parts DEF CpuInv, QueueInv

-----------------------------------------------------------------------------
(* The contexts on the CPU *)

(* Steps that leave the queues and the handler alone, and do not end the   *)
(* creation of threads, keep their part of the invariant. *)
LEMMA QueuesKept ==
  ASSUME QueueInv, UNCHANGED <<work, queues, handler>>,
         at'[Kmain] = "create" <=> at[Kmain] = "create"
  PROVE  QueueInv'
<1>1. QueueTypes' /\ Sorted' /\ DeadlineInv' /\ CurrentInv'
  BY DEF QueueInv, QueueTypes, Sorted, DeadlineInv, CurrentInv, queues, handler
<1>2. Conserved'
  BY DEF QueueInv, Conserved, InReady, InWaiting, queues
<1> QED BY <1>1, <1>2 DEF QueueInv

(* Where a thread runs, it is current, and kmain has left the CPU. *)
LEMMA InThread ==
  ASSUME IInv, NEW t \in Tid, on = t, step = "run"
  PROVE  /\ current = t /\ at[Kmain] # "create"
         /\ t \in Ctx /\ t # Kmain /\ t # Burner
BY Constants DEF IInv, BootInv, OwnContext

(* A step of thread() or exit_thread changes this thread's variables only, *)
(* all within their ranges. *)
LEMMA RunKeeps ==
  ASSUME IInv, NEW t \in Tid, Run(t)
  PROVE  /\ on = t /\ step = "run"
         /\ UNCHANGED <<work, on, edi, sp, queues, handler>>
         /\ \E place \in ThreadAt \ {"start"} : at' = [at EXCEPT ![t] = place]
         /\ (at[t] = "start" /\ id' = [id EXCEPT ![t] = t]) \/ (at[t] # "start" /\ id' = id)
         /\ CpuTypes'
<1>1. on = t /\ step = "run"
  BY DEF Run, Start, PrintNumber, Count, Branch, Finish, Exit, In
<1>2. UNCHANGED <<work, on, edi, sp, queues, handler>>
  BY DEF Run, Start, PrintNumber, Count, Branch, Finish, Exit, thread
<1>3. \E place \in ThreadAt \ {"start"} : at' = [at EXCEPT ![t] = place]
  <2>1. {"print", "hlt", "branch", "finish", "last", "gone"} \subseteq ThreadAt \ {"start"}
    BY DEF ThreadAt
  <2>2. \E place \in {"print", "hlt", "branch", "finish", "last", "gone"} :
          at' = [at EXCEPT ![t] = place]
    BY DEF Run, Start, PrintNumber, Count, Branch, Finish, Exit, Goes
  <2> QED BY <2>1, <2>2, Zenon
<1>4. current = t
  BY <1>1, InThread
<1>5. at[t] # "start" => id[t] = t
  BY DEF IInv, OwnContext
<1>6. (at[t] = "start" /\ id' = [id EXCEPT ![t] = t]) \/ (at[t] # "start" /\ id' = id)
  <2>1. CASE Start(t)
    BY <1>4, <2>1 DEF Start, In
  <2>2. CASE PrintNumber(t) \/ Count(t) \/ Branch(t) \/ Finish(t) \/ Exit(t)
    BY <2>2 DEF PrintNumber, Count, Branch, Finish, Exit, In, thread
  <2> QED BY <2>1, <2>2 DEF Run
<1>7. CpuTypes
  BY Parts DEF CpuInv
<1>8. /\ id' \in [Tid -> 0 .. MAX_THREADS]
      /\ at' \in [Ctx -> ThreadAt \cup KmainAt \cup BurnerAt]
      /\ \A c \in Ctx : at'[c] \in IF c = Kmain THEN KmainAt
                                   ELSE IF c = Burner THEN BurnerAt ELSE ThreadAt
  <2>1. id' \in [Tid -> 0 .. MAX_THREADS]
    <3>1. id \in [Tid -> 0 .. MAX_THREADS] /\ t \in 0 .. MAX_THREADS
      BY <1>7, Constants DEF CpuTypes
    <3> QED BY <1>6, <3>1
  <2>2. PICK place \in ThreadAt \ {"start"} : at' = [at EXCEPT ![t] = place]
    BY <1>3
  <2>3. t # Kmain /\ t # Burner /\ t \in Ctx
    BY Constants
  <2>4. /\ at' \in [Ctx -> ThreadAt \cup KmainAt \cup BurnerAt]
        /\ at'[t] = place
        /\ \A c \in Ctx \ {t} : at'[c] = at[c]
    BY <1>7, <2>2, <2>3 DEF CpuTypes
  <2> QED BY <1>7, <2>1, <2>2, <2>3, <2>4 DEF CpuTypes
<1>9. left' \in [Tid -> 0 .. LINE] /\ counter' \in [Tid -> 0 .. Wrap - 1]
  <2> DEFINE G == left' \in [Tid -> 0 .. LINE] /\ counter' \in [Tid -> 0 .. Wrap - 1]
  <2>0. /\ left \in [Tid -> 0 .. LINE] /\ counter \in [Tid -> 0 .. Wrap - 1]
        /\ LINE \in Nat /\ Wrap \in Nat /\ Wrap > 0
    BY <1>7, Constants DEF CpuTypes
  <2>1. ASSUME PrintNumber(t) PROVE G
    <3>1. left' = [left EXCEPT ![t] = left[t] - 1] /\ left[t] > 0 /\ counter' = counter
      BY <2>1 DEF PrintNumber
    <3>2. left[t] - 1 \in 0 .. LINE
      BY <2>0, <3>1
    <3> QED BY <2>0, <3>1, <3>2
  <2>2. ASSUME Count(t) PROVE G
    <3>1. id[t] = t
      BY <1>5, <2>2 DEF Count, In
    <3>2. /\ left' = [left EXCEPT ![t] = LINE]
          /\ counter' = [counter EXCEPT ![t] = (counter[t] + 1) % Wrap]
      BY <2>2, <3>1 DEF Count
    <3>3. (counter[t] + 1) % Wrap \in 0 .. Wrap - 1 /\ LINE \in 0 .. LINE
      BY <2>0
    <3> QED BY <2>0, <3>2, <3>3
  <2>3. UNCHANGED <<left, counter>> => G
    BY <1>7 DEF CpuTypes
  <2>4. Start(t) \/ Branch(t) \/ Finish(t) \/ Exit(t) => UNCHANGED <<left, counter>>
    BY DEF Start, Branch, Finish, Exit, thread
  <2> HIDE DEF G
  <2>5. G
    BY <2>1, <2>2, <2>3, <2>4 DEF Run
  <2> QED BY <2>5 DEF G
<1>10. zf' \in [Tid -> BOOLEAN]
  <2>1. zf' = zf \/ \E b \in BOOLEAN : \E u : zf' = [zf EXCEPT ![u] = b]
    <3>1. CASE Count(t)
      <4> DEFINE b == counter'[id[t]] = ROUNDS
      <4>1. zf' = [zf EXCEPT ![t] = b] /\ b \in BOOLEAN
        BY <3>1, Zenon DEF Count
      <4> QED BY <4>1, Zenon
    <3>2. CASE zf' = zf
      BY <3>2
    <3> QED BY <3>1, <3>2 DEF Run, Start, PrintNumber, Branch, Finish, Exit, thread
  <2>2. zf \in [Tid -> BOOLEAN]
    BY <1>7 DEF CpuTypes
  <2> QED BY <2>1, <2>2, Zenon
<1>11. done' \in [Tid -> BOOLEAN]
  <2>1. done' = done \/ \E u : done' = [done EXCEPT ![u] = TRUE]
    BY DEF Run, Start, PrintNumber, Count, Branch, Finish, Exit, thread
  <2>2. done \in [Tid -> BOOLEAN]
    BY <1>7 DEF CpuTypes
  <2> QED BY <2>1, <2>2, Zenon
<1>12. state' \in [Tid -> {0, 1}]
  <2>1. state' = state \/ \E u : state' = [state EXCEPT ![u] = 0]
    BY DEF Run, Start, PrintNumber, Count, Branch, Finish, Exit, thread
  <2> QED BY <1>7, <2>1 DEF CpuTypes
<1>13. CpuTypes'
  BY <1>2, <1>7, <1>8, <1>9, <1>10, <1>11, <1>12 DEF CpuTypes
<1> QED BY <1>1, <1>2, <1>3, <1>6, <1>13

(* Threads keep the invariant. *)
LEMMA RunStep ==
  ASSUME IInv, NEW t \in Tid, Run(t)
  PROVE  IInv'
<1>1. /\ on = t /\ step = "run"
      /\ UNCHANGED <<work, on, edi, sp, queues, handler>>
      /\ CpuTypes'
  BY RunKeeps
<1>2. PICK place \in ThreadAt \ {"start"} : at' = [at EXCEPT ![t] = place]
  BY RunKeeps
<1>3. at[Kmain] # "create" /\ t # Kmain /\ t \in Ctx /\ CpuTypes /\ QueueInv
  BY <1>1, InThread, Parts DEF CpuInv
<1>4. at'[Kmain] = at[Kmain] /\ \A u \in Tid : at'[u] = "start" => at[u] = "start" /\ u # t
  BY <1>2, <1>3, Constants DEF CpuTypes
<1>5. QueueInv'
  BY <1>1, <1>3, <1>4, QueuesKept
<1>6. \A u \in Tid : at'[u] # "start" => id'[u] = u
  <2>1. CASE at[t] = "start" /\ id' = [id EXCEPT ![t] = t]
    BY <1>2, <1>3, <2>1 DEF CpuTypes, IInv, OwnContext
  <2>2. CASE at[t] # "start" /\ id' = id
    BY <1>2, <1>3, <2>2 DEF CpuTypes, IInv, OwnContext
  <2> QED BY <2>1, <2>2, RunKeeps
<1>7. BootInv' /\ KmainInv' /\ OwnContext'
  BY <1>1, <1>3, <1>4, <1>6
     DEF IInv, BootInv, KmainInv, OwnContext, queues, handler
<1> QED BY <1>1, <1>5, <1>7, Parts DEF CpuInv

(* kmain's steps and the switch to the first thread keep the invariant. *)
LEMMA BootStep ==
  ASSUME IInv, Boot
  PROVE  IInv'
<1>0. CpuInv /\ QueueInv /\ CpuTypes /\ QueueTypes
  BY Parts DEF CpuInv, QueueInv
<1> USE Constants
<1>1. CASE ThreadCreate
  <2> DEFINE n == Len(waiting) + 1
             t == CHOOSE u \in Tid : state[u] = 0 /\ \A v \in Tid : v < u => state[v] # 0
  <2>1. /\ step = "run" /\ on = Kmain /\ at[Kmain] = "create" /\ n \in Tid
        /\ state' = [state EXCEPT ![t] = 1] /\ sp' = [sp EXCEPT ![t] = t]
        /\ waiting' = Append(waiting, n)
        /\ UNCHANGED <<work, cpu, zf, id, left, counter, done,
                       deadline, run_time, current, ready, nodes, handler>>
    BY <1>0, <1>1 DEF ThreadCreate, KmainIn, QueueTypes
  <2>2. /\ current = NULL /\ ready = << >> /\ current_time = 0
        /\ \A j \in 1 .. Len(waiting) : waiting[j] = j
        /\ \A u \in Tid : IF u < n THEN state[u] = 1 /\ sp[u] = u ELSE state[u] = 0
        /\ \A u \in Tid : at[u] = "start" /\ deadline[u] = 0
    BY <1>0, <2>1 DEF CpuInv, BootInv, QueueTypes
  <2>3. t = n
    <3>1. state[n] = 0 /\ \A v \in Tid : v < n => state[v] # 0
      BY <2>1, <2>2
    <3>2. \A u \in Tid : state[u] = 0 /\ (\A v \in Tid : v < u => state[v] # 0) => u = n
      BY <2>1, <2>2, <3>1
    <3> QED BY <2>1, <3>1, <3>2
  <2>4. /\ waiting' \in Seq(Tid) /\ Len(waiting') = n
        /\ \A j \in 1 .. n : waiting'[j] = j
    BY <1>0, <2>1, <2>2 DEF QueueTypes
  <2> HIDE DEF t
  <2>5. /\ state' = [state EXCEPT ![n] = 1] /\ sp' = [sp EXCEPT ![n] = n]
        /\ \A u \in Tid : IF u <= n THEN state'[u] = 1 /\ sp'[u] = u ELSE state'[u] = 0
    BY <1>0, <2>1, <2>2, <2>3 DEF CpuTypes
  <2>6. CpuTypes' /\ QueueTypes'
    <3>1. state' \in [Tid -> {0, 1}] /\ sp' \in [Tid \cup {Burner} -> Ctx \cup {Stale}]
      BY <1>0, <2>1, <2>5 DEF CpuTypes
    <3>2. CpuTypes'
      BY <1>0, <2>1, <3>1 DEF CpuTypes, cpu
    <3>3. QueueTypes'
      BY <1>0, <2>1, <2>4 DEF QueueTypes, handler
    <3> QED BY <3>2, <3>3
  <2>7. BootInv'
    BY <2>1, <2>2, <2>4, <2>5 DEF BootInv, cpu, handler
  <2>8. KmainInv' /\ OwnContext'
    BY <1>0, <2>1, <2>2 DEF CpuInv, KmainInv, OwnContext, cpu, handler
  <2>9. Conserved' /\ Sorted'
    BY <2>1, <2>2, <2>4 DEF Conserved, Sorted, InReady, InWaiting, cpu, handler
  <2>10. DeadlineInv' /\ CurrentInv'
    BY <1>0, <2>1, <2>2, <2>4 DEF QueueInv, DeadlineInv, CurrentInv, handler
  <2> QED BY <2>6, <2>8, <2>9, <2>10, <2>7, Parts DEF CpuInv, QueueInv
<1>2. CASE BurnerCreate
  <2>1. /\ step = "run" /\ on = Kmain /\ at[Kmain] = "create"
        /\ Len(waiting) = MAX_THREADS
        /\ sp' = [sp EXCEPT ![Burner] = Burner] /\ current' = Burner
        /\ at' = [at EXCEPT ![Kmain] = "load"]
        /\ UNCHANGED <<work, on, edi, thread, deadline, run_time, ready,
                       waiting, nodes, handler>>
    BY <1>2 DEF BurnerCreate, KmainIn, KmainGoes
  <2>2. /\ ready = << >> /\ current_time = 0
        /\ \A j \in 1 .. Len(waiting) : waiting[j] = j
        /\ \A u \in Tid : sp[u] = u
        /\ \A u \in Tid : at[u] = "start" /\ deadline[u] = 0
    BY <1>0, <2>1 DEF CpuInv, BootInv
  <2>3. "load" \in KmainAt /\ Kmain \in Ctx
    BY DEF KmainAt
  <2>4. at'[Kmain] = "load" /\ (\A c \in Ctx \ {Kmain} : at'[c] = at[c]) /\ CpuTypes'
    BY <1>0, <2>1, <2>3 DEF CpuTypes, thread
  <2>5. QueueTypes'
    BY <1>0, <2>1 DEF QueueTypes, handler
  <2>6. BootInv' /\ KmainInv'
    BY <1>0, <2>1, <2>4 DEF BootInv, KmainInv, CpuTypes
  <2>7. OwnContext'
    BY <1>0, <2>1, <2>2, <2>4 DEF OwnContext, CpuTypes
  <2>8. Conserved' /\ Sorted'
    BY <2>1, <2>2 DEF Conserved, Sorted, InReady, InWaiting, handler
  <2>9. DeadlineInv' /\ CurrentInv'
    BY <1>0, <2>1, <2>2 DEF QueueInv, DeadlineInv, CurrentInv, handler
  <2> QED BY <2>4, <2>5, <2>6, <2>7, <2>8, <2>9, Parts DEF CpuInv, QueueInv
<1>3. CASE LoadFirst
  <2>1. /\ step = "run" /\ on = Kmain /\ at[Kmain] = "load" /\ edi' = sp[current]
        /\ at' = [at EXCEPT ![Kmain] = "switch"]
        /\ UNCHANGED <<work, on, thread, sp, queues, handler>>
    BY <1>3 DEF LoadFirst, KmainIn, KmainGoes
  <2>2. current = Burner /\ sp[Burner] \in {Burner, Stale}
    BY <1>0, <2>1 DEF CpuInv, KmainInv
  <2>3. "switch" \in KmainAt /\ Kmain \in Ctx
    BY DEF KmainAt
  <2>4. at'[Kmain] = "switch" /\ (\A c \in Ctx \ {Kmain} : at'[c] = at[c]) /\ CpuTypes'
    BY <1>0, <2>1, <2>2, <2>3 DEF CpuTypes, thread
  <2>5. BootInv' /\ KmainInv' /\ OwnContext'
    BY <1>0, <2>1, <2>2, <2>4
       DEF CpuInv, BootInv, KmainInv, OwnContext, thread, queues, handler
  <2>6. QueueInv'
    BY <1>0, <2>1, <2>4, QueuesKept
  <2> QED BY <2>4, <2>5, <2>6, Parts DEF CpuInv
<1>4. CASE SwitchFirst
  <2>1. /\ step = "run" /\ on = Kmain /\ at[Kmain] = "switch" /\ on' = edi
        /\ sp' = [sp EXCEPT ![current] = Stale]
        /\ UNCHANGED <<work, at, edi, thread, queues, handler>>
    BY <1>4 DEF SwitchFirst, KmainIn
  <2>2. current = Burner /\ edi \in {Burner, Stale}
    BY <1>0, <2>1 DEF CpuInv, KmainInv
  <2>3. CpuTypes'
    BY <1>0, <2>1, <2>2 DEF CpuTypes, thread
  <2>4. BootInv' /\ KmainInv' /\ OwnContext'
    BY <1>0, <2>1, <2>2
       DEF CpuInv, CpuTypes, BootInv, KmainInv, OwnContext, thread, queues, handler
  <2>5. QueueInv'
    BY <1>0, <2>1, QueuesKept
  <2> QED BY <2>3, <2>4, <2>5, Parts DEF CpuInv
<1> QED BY <1>1, <1>2, <1>3, <1>4 DEF Boot

(* A tick finds a thread, the burner or kmain in its place current, and    *)
(* saves its frame where current leads. *)
LEMMA TickStep ==
  ASSUME IInv, Tick
  PROVE  IInv'
<1>0. CpuInv /\ QueueInv /\ CpuTypes /\ QueueTypes
  BY Parts DEF CpuInv, QueueInv
<1> USE Constants
<1> DEFINE place == IF at[on] = "hlt" THEN "print"
                    ELSE IF at[on] = "last" THEN "exit" ELSE at[on]
<1>1. /\ step = "run" /\ on \in Ctx /\ at[on] \in work.ticks
      /\ current_time < work.horizon
      /\ sp' = [sp EXCEPT ![current] = on]
      /\ at' = [at EXCEPT ![on] = place]
      /\ zf' = [t \in Tid |-> IF t = on THEN FALSE ELSE zf[t]]
      /\ step' = "check" /\ i' = 1
      /\ UNCHANGED <<work, on, edi, id, left, counter, done, state, queues,
                     current_time, pos>>
  BY DEF Tick, FirstWaiting
<1>2. at[on] # "create"
  BY <1>0, <1>1, Loads DEF CpuTypes
<1>3. at[Kmain] # "create"
  BY <1>0, <1>1, <1>2 DEF CpuInv, BootInv
<1>4. current = on \/ (on = Kmain /\ current = Burner)
  BY <1>0, <1>1, <1>3 DEF CpuInv, KmainInv, OwnContext
<1>5. /\ at' \in [Ctx -> ThreadAt \cup KmainAt \cup BurnerAt]
      /\ \A c \in Ctx : at'[c] \in IF c = Kmain THEN KmainAt
                                   ELSE IF c = Burner THEN BurnerAt ELSE ThreadAt
      /\ at'[Kmain] = at[Kmain]
      /\ \A t \in Tid : at'[t] = "start" => at[t] = "start"
  <2>1. /\ place \in IF on = Kmain THEN KmainAt
                     ELSE IF on = Burner THEN BurnerAt ELSE ThreadAt
        /\ place # at[on] => on \in Tid
        /\ place = "start" => at[on] = "start"
    BY <1>0, <1>1 DEF CpuTypes, ThreadAt, KmainAt, BurnerAt
  <2> QED BY <1>0, <1>1, <2>1 DEF CpuTypes
<1>6. zf' \in [Tid -> BOOLEAN]
  <2>1. zf \in [Tid -> BOOLEAN]
    BY <1>0 DEF CpuTypes
  <2> QED BY <1>1, <2>1, Zenon
<1>7. CpuTypes'
  BY <1>0, <1>1, <1>4, <1>5, <1>6 DEF CpuTypes
<1>8. BootInv' /\ KmainInv'
  BY <1>0, <1>1, <1>3, <1>5 DEF CpuInv, BootInv, KmainInv
<1>9. OwnContext'
  BY <1>0, <1>1, <1>3, <1>4, <1>5 DEF CpuInv, CpuTypes, OwnContext, queues
<1>10. QueueTypes' /\ Sorted' /\ DeadlineInv' /\ CurrentInv'
  BY <1>0, <1>1, <1>4
     DEF QueueInv, QueueTypes, Sorted, DeadlineInv, CurrentInv, queues
<1>11. Conserved'
  BY <1>0, <1>1, <1>5 DEF QueueInv, Conserved, InReady, InWaiting, queues
<1> QED BY <1>7, <1>8, <1>9, <1>10, <1>11, Parts DEF CpuInv, QueueInv

-----------------------------------------------------------------------------
(* Lists *)

(* A list with t put before it. *)
LEMMA Prepended ==
  ASSUME NEW t \in Tid, NEW list \in Seq(Tid), NEW new, new = <<t>> \o list
  PROVE  /\ new \in Seq(Tid) /\ Len(new) = Len(list) + 1
         /\ new[1] = t
         /\ \A j \in 1 .. Len(new) : j # 1 => j - 1 \in 1 .. Len(list) /\ new[j] = list[j - 1]
         /\ \A j \in 1 .. Len(list) : j + 1 \in 1 .. Len(new) /\ new[j + 1] = list[j]
OBVIOUS

(* A list with t put behind it. *)
LEMMA Appended ==
  ASSUME NEW t \in Tid, NEW list \in Seq(Tid), NEW new, new = Append(list, t)
  PROVE  /\ new \in Seq(Tid) /\ Len(new) = Len(list) + 1
         /\ new[Len(new)] = t /\ Len(new) \in 1 .. Len(new)
         /\ \A j \in 1 .. Len(new) : j # Len(new) => j \in 1 .. Len(list) /\ new[j] = list[j]
         /\ \A j \in 1 .. Len(list) : j \in 1 .. Len(new) /\ new[j] = list[j]
OBVIOUS

(* A list without its first thread. *)
LEMMA Tailed ==
  ASSUME NEW list \in Seq(Tid), list # << >>, NEW new, new = Tail(list)
  PROVE  /\ new \in Seq(Tid) /\ Len(new) = Len(list) - 1 /\ Len(list) >= 1
         /\ list[1] = Head(list) /\ Head(list) \in Tid
         /\ \A j \in 1 .. Len(new) : j + 1 \in 1 .. Len(list) /\ new[j] = list[j + 1]
         /\ \A j \in 1 .. Len(list) : j # 1 => j - 1 \in 1 .. Len(new) /\ new[j - 1] = list[j]
OBVIOUS

(* A list with other threads in two places. *)
LEMMA Exchanged ==
  ASSUME NEW list \in Seq(Tid), NEW v \in Tid, NEW w \in Tid,
         NEW p \in 1 .. Len(list), NEW q \in 1 .. Len(list), p # q,
         NEW new, new = [list EXCEPT ![p] = v, ![q] = w]
  PROVE  /\ new \in Seq(Tid) /\ Len(new) = Len(list)
         /\ new[p] = v /\ new[q] = w
         /\ \A j \in 1 .. Len(list) : j # p /\ j # q => new[j] = list[j]
OBVIOUS

(* AddNode puts the thread before the list, where it alone may be out of   *)
(* order. *)
LEMMA Added ==
  ASSUME NEW t \in Tid, NEW list \in Seq(Tid), AddNode(t, list),
         work.period[t] \in Nat, deadline \in [Tid -> Nat],
         \A j \in 1 .. Len(list) : list[j] # t,
         \A j, k \in 1 .. Len(list) : list[j] = list[k] => j = k,
         \A j, k \in 1 .. Len(list) : j < k => deadline[list[j]] <= deadline[list[k]]
  PROVE  /\ ready' \in Seq(Tid) /\ pos' = 1 /\ pos' \in 0 .. Len(ready')
         /\ deadline' \in [Tid -> Nat]
         /\ deadline'[t] = deadline[t] + work.period[t]
         /\ \A u \in Tid : u # t => deadline'[u] = deadline[u]
         /\ \A u \in Tid : InReady(u)' <=> u = t \/ \E j \in 1 .. Len(list) : list[j] = u
         /\ \A j, k \in 1 .. Len(ready') : ready'[j] = ready'[k] => j = k
         /\ Sorted'
<1>1. /\ ready' \in Seq(Tid) /\ Len(ready') = Len(list) + 1
      /\ ready'[1] = t
      /\ \A j \in 1 .. Len(ready') :
           j # 1 => j - 1 \in 1 .. Len(list) /\ ready'[j] = list[j - 1]
      /\ \A j \in 1 .. Len(list) : j + 1 \in 1 .. Len(ready') /\ ready'[j + 1] = list[j]
  <2>1. ready' = <<t>> \o list
    BY DEF AddNode
  <2> QED BY <2>1, Prepended
<1>2. pos' = 1 /\ pos' \in 0 .. Len(ready')
  BY <1>1 DEF AddNode
<1>3. /\ deadline' \in [Tid -> Nat]
      /\ deadline'[t] = deadline[t] + work.period[t]
      /\ \A u \in Tid : u # t => deadline'[u] = deadline[u]
  BY DEF AddNode
<1>4. \A u \in Tid : InReady(u)' <=> u = t \/ \E j \in 1 .. Len(list) : list[j] = u
  <2> TAKE u \in Tid
  <2>1. ASSUME NEW j \in 1 .. Len(ready'), ready'[j] = u
        PROVE  u = t \/ \E k \in 1 .. Len(list) : list[k] = u
    <3>1. CASE j = 1
      BY <1>1, <2>1, <3>1
    <3>2. CASE j # 1
      <4>1. j - 1 \in 1 .. Len(list) /\ ready'[j] = list[j - 1]
        BY <1>1, <3>2, Zenon
      <4> QED BY <2>1, <4>1, Zenon
    <3> QED BY <3>1, <3>2
  <2>2. u = t => InReady(u)'
    <3>1. 1 \in 1 .. Len(ready')
      BY <1>1
    <3> QED BY <1>1, <3>1 DEF InReady
  <2>3. ASSUME NEW j \in 1 .. Len(list), list[j] = u PROVE InReady(u)'
    BY <1>1, <2>3 DEF InReady
  <2> QED BY <2>1, <2>2, <2>3 DEF InReady
<1>5. \A j, k \in 1 .. Len(ready') : ready'[j] = ready'[k] => j = k
  <2> TAKE j, k \in 1 .. Len(ready')
  <2>1. CASE j # 1 /\ k # 1
    <3>1. /\ j - 1 \in 1 .. Len(list) /\ ready'[j] = list[j - 1]
          /\ k - 1 \in 1 .. Len(list) /\ ready'[k] = list[k - 1]
      BY <1>1, <2>1
    <3>2. ready'[j] = ready'[k] => j - 1 = k - 1
      BY <3>1
    <3> QED BY <3>2
  <2>2. ASSUME NEW l \in 1 .. Len(ready'), l # 1 PROVE ready'[l] # ready'[1]
    <3>1. l - 1 \in 1 .. Len(list) /\ ready'[l] = list[l - 1]
      BY <1>1, <2>2, Zenon
    <3>2. list[l - 1] # t /\ ready'[1] = t
      BY <1>1, <3>1, Zenon
    <3> QED BY <3>1, <3>2, Zenon
  <2> QED BY <2>1, <2>2
<1>6. Sorted'
  <2> SUFFICES ASSUME NEW j \in 1 .. Len(ready'), NEW k \in 1 .. Len(ready'),
                      j < k, j # 1
               PROVE  deadline'[ready'[j]] <= deadline'[ready'[k]]
    BY <1>2, Zenon DEF Sorted
  <2>1. /\ j - 1 \in 1 .. Len(list) /\ ready'[j] = list[j - 1]
        /\ k - 1 \in 1 .. Len(list) /\ ready'[k] = list[k - 1]
        /\ j - 1 < k - 1
    <3>1. k # 1 /\ j - 1 < k - 1
      BY <1>1
    <3>2. /\ j - 1 \in 1 .. Len(list) /\ ready'[j] = list[j - 1]
          /\ k - 1 \in 1 .. Len(list) /\ ready'[k] = list[k - 1]
      BY <1>1, <3>1, Zenon
    <3> QED BY <3>1, <3>2
  <2>2. deadline[list[j - 1]] <= deadline[list[k - 1]]
    BY <2>1
  <2>3. /\ list[j - 1] \in Tid /\ list[j - 1] # t
        /\ list[k - 1] \in Tid /\ list[k - 1] # t
    BY <2>1
  <2> QED BY <1>3, <2>1, <2>2, <2>3
<1> QED BY <1>1, <1>2, <1>3, <1>4, <1>5, <1>6

-----------------------------------------------------------------------------
(* The steps of the handler *)

(* Until the handler switches, nothing it does reaches the CPU's contexts. *)
LEMMA HandlerKeeps ==
  ASSUME IInv, step # "run", step' # "run",
         UNCHANGED <<work, cpu, thread, sp>>
  PROVE  CpuInv' /\ at[Kmain] # "create" /\ at'[Kmain] # "create"
<1>1. CpuInv
  BY Parts
<1>2. at[Kmain] # "create" /\ at'[Kmain] # "create"
  BY <1>1 DEF CpuInv, BootInv, cpu
<1>3. CpuTypes'
  BY <1>1 DEF CpuInv, CpuTypes, cpu, thread
<1>4. BootInv' /\ KmainInv' /\ OwnContext'
  BY <1>1, <1>2 DEF CpuInv, BootInv, KmainInv, OwnContext, cpu, thread
<1> QED BY <1>2, <1>3, <1>4 DEF CpuInv

(* A turn of swap's loop moves the node it follows one place on. *)
LEMMA BubbleStep ==
  ASSUME IInv, Bubble
  PROVE  IInv'
<1>0. QueueInv /\ QueueTypes
  BY Parts DEF QueueInv
<1>1. /\ pos > 0 /\ pos \in Nat /\ pos <= Len(ready) /\ Len(ready) \in Nat
      /\ step \in {"check", "pop"}
      /\ UNCHANGED <<work, cpu, thread, sp, deadline, run_time, current, waiting,
                     nodes, current_time, step, i>>
  BY <1>0 DEF Bubble, QueueTypes
<1>2. CpuInv' /\ at[Kmain] # "create" /\ at'[Kmain] # "create"
  BY <1>1, HandlerKeeps
<1>3. DeadlineInv' /\ CurrentInv'
  BY <1>0, <1>1 DEF QueueInv, DeadlineInv, CurrentInv
<1>4. CASE pos = Len(ready) \/ (pos < Len(ready) /\ ready' = ready)
  <2>1. ready' = ready /\ pos' \in 0 .. Len(ready) /\ pos' = (IF pos = Len(ready) THEN 0 ELSE pos + 1)
    BY <1>1, <1>4 DEF Bubble
  <2>2. QueueTypes' /\ Conserved'
    BY <1>0, <1>1, <1>2, <2>1 DEF QueueInv, QueueTypes, Conserved, InReady, InWaiting
  <2>3. Sorted'
    <3>1. CASE pos = Len(ready)
      BY <1>0, <1>1, <2>1, <3>1 DEF QueueInv, Sorted
    <3>2. CASE pos < Len(ready)
      <4>1. deadline[ready[pos]] <= deadline[ready[pos + 1]]
        <5>1. /\ ready[pos] \in Tid /\ ready[pos + 1] \in Tid
              /\ pos \in 1 .. Len(ready) /\ pos + 1 \in 1 .. Len(ready)
          BY <1>0, <1>1, <3>2 DEF QueueTypes
        <5>2. deadline[ready[pos]] \in Nat /\ deadline[ready[pos + 1]] \in Nat
          BY <1>0, <5>1 DEF QueueTypes
        <5>3. CASE deadline[ready[pos]] > deadline[ready[pos + 1]]
          <6>1. ready' = [ready EXCEPT ![pos] = ready[pos + 1], ![pos + 1] = ready[pos]]
            BY <1>1, <3>2, <5>3 DEF Bubble, Bubbled
          <6>2. ready[pos + 1] = ready[pos]
            BY <1>0, <2>1, <5>1, <6>1 DEF QueueTypes
          <6> QED BY <5>2, <6>2
        <5> QED BY <5>2, <5>3
      <4>2. \A j \in 1 .. Len(ready) : deadline[ready[j]] \in Nat
        BY <1>0 DEF QueueTypes
      <4>3. \A j, k \in 1 .. Len(ready) :
              j < k /\ j # pos => deadline[ready[j]] <= deadline[ready[k]]
        BY <1>0 DEF QueueInv, Sorted
      <4>4. ASSUME NEW j \in 1 .. Len(ready), NEW k \in 1 .. Len(ready), j < k, j # pos + 1
            PROVE  deadline[ready[j]] <= deadline[ready[k]]
        <5>1. CASE j # pos
          BY <4>3, <4>4, <5>1
        <5>2. CASE j = pos /\ k = pos + 1
          BY <4>1, <5>2
        <5>3. CASE j = pos /\ k # pos + 1
          <6>1. pos + 1 \in 1 .. Len(ready) /\ pos + 1 < k /\ pos + 1 # pos
            BY <1>1, <3>2, <4>4, <5>3
          <6>2. deadline[ready[pos + 1]] <= deadline[ready[k]]
            BY <4>3, <6>1
          <6> QED BY <4>1, <4>2, <5>3, <6>1, <6>2
        <5> QED BY <5>1, <5>2, <5>3
      <4>5. pos' = pos + 1
        BY <2>1, <3>2, <1>1
      <4> QED BY <1>1, <2>1, <4>4, <4>5 DEF Sorted
    <3> QED BY <1>1, <3>1, <3>2
  <2> QED BY <1>2, <1>3, <2>2, <2>3, Parts DEF QueueInv
<1>5. CASE pos < Len(ready) /\ ready' # ready
  <2> DEFINE a == ready[pos]
             b == ready[pos + 1]
  <2>1. /\ deadline[a] > deadline[b] /\ pos' = pos + 1
        /\ ready' = [ready EXCEPT ![pos] = b, ![pos + 1] = a]
    BY <1>1, <1>5 DEF Bubble, Bubbled
  <2>2. /\ pos \in 1 .. Len(ready) /\ pos + 1 \in 1 .. Len(ready) /\ a \in Tid /\ b \in Tid
        /\ pos' \in 0 .. Len(ready) /\ pos' > 0
    BY <1>0, <1>1, <1>5, <2>1 DEF QueueTypes
  <2>3. /\ ready' \in Seq(Tid) /\ Len(ready') = Len(ready)
        /\ ready'[pos] = b /\ ready'[pos + 1] = a
        /\ \A j \in 1 .. Len(ready) : j # pos /\ j # pos + 1 => ready'[j] = ready[j]
    <3>1. ready \in Seq(Tid)
      BY <1>0 DEF QueueTypes
    <3> HIDE DEF a, b
    <3>2. pos # pos + 1
      BY <1>1
    <3> QED BY <2>1, <2>2, <3>1, <3>2, Exchanged
  <2> HIDE DEF a, b
  <2>4. QueueTypes'
    BY <1>0, <1>1, <2>2, <2>3 DEF QueueTypes
  <2>5. Conserved'
    <3>1. \A j, k \in 1 .. Len(ready) : ready[j] = ready[k] => j = k
      BY <1>0 DEF QueueInv, Conserved
    <3>2. \A j, k \in 1 .. Len(ready') : ready'[j] = ready'[k] => j = k
      BY <1>1, <2>2, <2>3, <3>1 DEF a, b
    <3>3. \A t \in Tid : InReady(t)' <=> InReady(t)
      <4> TAKE t \in Tid
      <4>1. ASSUME NEW j \in 1 .. Len(ready'), ready'[j] = t PROVE InReady(t)
        <5>1. CASE j = pos
          BY <2>2, <2>3, <4>1, <5>1 DEF InReady, b
        <5>2. CASE j = pos + 1
          BY <2>2, <2>3, <4>1, <5>2 DEF InReady, a
        <5>3. CASE j # pos /\ j # pos + 1
          BY <2>3, <4>1, <5>3 DEF InReady
        <5> QED BY <5>1, <5>2, <5>3
      <4>2. ASSUME NEW j \in 1 .. Len(ready), ready[j] = t PROVE InReady(t)'
        <5>1. CASE j = pos
          BY <2>2, <2>3, <4>2, <5>1 DEF InReady, a
        <5>2. CASE j = pos + 1
          BY <2>2, <2>3, <4>2, <5>2 DEF InReady, b
        <5>3. CASE j # pos /\ j # pos + 1
          BY <2>3, <4>2, <5>3 DEF InReady
        <5> QED BY <5>1, <5>2, <5>3
      <4> QED BY <4>1, <4>2 DEF InReady
    <3>4. \A t \in Tid : InWaiting(t)' <=> InWaiting(t)
      BY <1>1 DEF InWaiting
    <3>5. current' = current /\ waiting' = waiting
      BY <1>1
    <3> QED BY <1>0, <1>2, <3>2, <3>3, <3>4, <3>5 DEF QueueInv, Conserved
  <2>6. Sorted'
    <3>1. \A j \in 1 .. Len(ready) : deadline[ready[j]] \in Nat
      BY <1>0 DEF QueueTypes
    <3>2. \A j, k \in 1 .. Len(ready) :
            j < k /\ j # pos => deadline[ready[j]] <= deadline[ready[k]]
      BY <1>0 DEF QueueInv, Sorted
    <3>3. ASSUME NEW j \in 1 .. Len(ready), NEW k \in 1 .. Len(ready), j < k, j # pos + 1
          PROVE  deadline[ready'[j]] <= deadline[ready'[k]]
      <4>1. CASE j = pos /\ k = pos + 1
        BY <2>1, <2>2, <2>3, <3>1, <4>1 DEF a, b
      <4>2. CASE j = pos /\ k # pos + 1
        <5>1. ready'[j] = b /\ ready'[k] = ready[k] /\ pos + 1 < k /\ pos + 1 # pos
          BY <1>1, <2>3, <3>3, <4>2
        <5> QED BY <2>2, <3>2, <5>1 DEF b
      <4>3. CASE j # pos
        <5>1. ready'[j] = ready[j]
          BY <2>3, <3>3, <4>3
        <5>2. CASE k = pos
          <6>1. j < pos + 1 /\ ready'[k] = b
            BY <1>1, <2>3, <3>3, <5>2
          <6> QED BY <2>2, <3>2, <4>3, <5>1, <6>1 DEF b
        <5>3. CASE k = pos + 1
          <6>1. j < pos /\ ready'[k] = a
            BY <1>1, <2>3, <3>3, <4>3, <5>3
          <6> QED BY <2>2, <3>2, <4>3, <5>1, <6>1 DEF a
        <5>4. CASE k # pos /\ k # pos + 1
          BY <2>3, <3>2, <3>3, <4>3, <5>1, <5>4
        <5> QED BY <5>2, <5>3, <5>4
      <4> QED BY <4>1, <4>2, <4>3
    <3> QED BY <1>1, <2>1, <2>3, <3>3 DEF Sorted
  <2> QED BY <1>2, <1>3, <2>4, <2>5, <2>6, Parts DEF QueueInv
<1> QED BY <1>1, <1>4, <1>5

(* Each thread waits, is ready or is current while the handler runs. *)
LEMMA InHandler ==
  ASSUME IInv, step \in {"check", "pop", "switch"}
  PROVE  /\ work \in Workloads /\ work.period \in [Tid -> Nat \ {0}]
         /\ current_time \in Nat /\ current_time < work.horizon
         /\ at[Kmain] # "create"
         /\ \A t \in Tid : t = current \/ InReady(t) \/ InWaiting(t)
<1>1. work \in Workloads /\ at[Kmain] # "create"
  BY DEF IInv, TypeOK, BootInv
<1>2. work.period \in [Tid -> Nat \ {0}] /\ work.horizon \in Nat
  BY <1>1, Loads
<1> QED BY <1>1, <1>2 DEF IInv, TypeOK, Conserved, CurrentInv

(* check_waiting_threads moves a thread that is due from waiting to ready. *)
LEMMA ReleaseMoves ==
  ASSUME IInv, Release, NEW t, t = waiting[i]
  PROVE  /\ t \in Tid /\ InWaiting(t) /\ ~InReady(t) /\ t # current
         /\ ready' \in Seq(Tid) /\ pos' = 1 /\ pos' \in 0 .. Len(ready')
         /\ deadline' \in [Tid -> Nat]
         /\ deadline'[t] = deadline[t] + work.period[t]
         /\ \A u \in Tid : u # t => deadline'[u] = deadline[u]
         /\ \A u \in Tid : InReady(u)' <=> u = t \/ InReady(u)
         /\ \A j, k \in 1 .. Len(ready') : ready'[j] = ready'[k] => j = k
         /\ Sorted'
         /\ waiting' \in Seq(Tid) /\ Len(waiting') = Len(waiting) - 1
         /\ \A j \in 1 .. Len(waiting') :
               waiting'[j] = IF j < i THEN waiting[j] ELSE waiting[j + 1]
         /\ \A u \in Tid : InWaiting(u)' <=> u # t /\ InWaiting(u)
<1>0. QueueInv /\ QueueTypes
  BY Parts DEF QueueInv
<1>1. /\ step = "check" /\ pos = 0 /\ i \in 1 .. Len(waiting)
      /\ Len(waiting) \in Nat
      /\ t \in Tid /\ InWaiting(t)
      /\ deadline[t] <= current_time
      /\ AddNode(t, ready)
      /\ run_time' = [run_time EXCEPT ![t] = 0]
      /\ waiting' = Shifted
      /\ UNCHANGED <<work, cpu, thread, sp, current, current_time, step, i>>
  BY <1>0 DEF Release, Handling, QueueTypes, InWaiting
<1>2. /\ CpuInv' /\ at'[Kmain] # "create"
      /\ work.period \in [Tid -> Nat \ {0}] /\ current_time \in Nat
      /\ \A u \in Tid : u = current \/ InReady(u) \/ InWaiting(u)
  BY <1>1, HandlerKeeps, InHandler
<1>3. ~InReady(t) /\ t # current
  BY <1>0, <1>1 DEF QueueInv, Conserved
<1>4. /\ \A j \in 1 .. Len(ready) : ready[j] # t
      /\ \A j, k \in 1 .. Len(ready) : ready[j] = ready[k] => j = k
      /\ \A j, k \in 1 .. Len(ready) : j < k => deadline[ready[j]] <= deadline[ready[k]]
  BY <1>0, <1>1, <1>3 DEF QueueInv, Conserved, Sorted, InReady
<1>5. /\ ready' \in Seq(Tid) /\ pos' = 1 /\ pos' \in 0 .. Len(ready')
      /\ deadline' \in [Tid -> Nat]
      /\ deadline'[t] = deadline[t] + work.period[t]
      /\ \A u \in Tid : u # t => deadline'[u] = deadline[u]
      /\ \A u \in Tid : InReady(u)' <=> u = t \/ InReady(u)
      /\ \A j, k \in 1 .. Len(ready') : ready'[j] = ready'[k] => j = k
      /\ Sorted'
  <2>1. ready \in Seq(Tid) /\ deadline \in [Tid -> Nat] /\ work.period[t] \in Nat
    BY <1>0, <1>1, <1>2 DEF QueueTypes
  <2>2. \A u \in Tid : InReady(u) <=> \E j \in 1 .. Len(ready) : ready[j] = u
    BY DEF InReady
  <2>3. /\ ready' \in Seq(Tid) /\ pos' = 1 /\ pos' \in 0 .. Len(ready')
        /\ deadline' \in [Tid -> Nat]
        /\ deadline'[t] = deadline[t] + work.period[t]
        /\ \A u \in Tid : u # t => deadline'[u] = deadline[u]
        /\ \A u \in Tid : InReady(u)' <=> u = t \/ \E j \in 1 .. Len(ready) : ready[j] = u
        /\ \A j, k \in 1 .. Len(ready') : ready'[j] = ready'[k] => j = k
        /\ Sorted'
    BY <1>1, <1>4, <2>1, Added
  <2> QED BY <2>2, <2>3
<1>6. /\ waiting' \in Seq(Tid) /\ Len(waiting') = Len(waiting) - 1
      /\ \A j \in 1 .. Len(waiting') :
           waiting'[j] = IF j < i THEN waiting[j] ELSE waiting[j + 1]
  <2>1. waiting \in Seq(Tid) /\ Len(waiting) \in Nat /\ i \in 1 .. Len(waiting)
    BY <1>0, <1>1 DEF QueueTypes
  <2>2. \A j \in 1 .. Len(waiting) - 1 :
          (IF j < i THEN waiting[j] ELSE waiting[j + 1]) \in Tid
    BY <2>1
  <2>3. /\ Shifted \in Seq(Tid) /\ Len(Shifted) = Len(waiting) - 1
        /\ \A j \in 1 .. Len(waiting) - 1 :
             Shifted[j] = IF j < i THEN waiting[j] ELSE waiting[j + 1]
    BY <2>1, <2>2 DEF Shifted
  <2> QED BY <1>1, <2>3
<1>7. \A j, k \in 1 .. Len(waiting) : waiting[j] = waiting[k] => j = k
  BY <1>0 DEF QueueInv, Conserved
<1>8. \A u \in Tid : InWaiting(u)' <=> u # t /\ InWaiting(u)
  <2> TAKE u \in Tid
  <2>1. ASSUME NEW j \in 1 .. Len(waiting'), waiting'[j] = u
        PROVE  u # t /\ InWaiting(u)
    <3>1. \E k \in 1 .. Len(waiting) : k # i /\ waiting'[j] = waiting[k]
      <4>1. CASE j < i
        BY <1>1, <1>6, <4>1
      <4>2. CASE ~ (j < i)
        <5>1. j + 1 \in 1 .. Len(waiting) /\ j + 1 # i
          BY <1>1, <1>6, <4>2
        <5> QED BY <1>6, <4>2, <5>1
      <4> QED BY <4>1, <4>2
    <3> QED BY <1>1, <1>7, <2>1, <3>1 DEF InWaiting
  <2>2. ASSUME NEW j \in 1 .. Len(waiting), waiting[j] = u, u # t
        PROVE  InWaiting(u)'
    <3>1. j # i
      BY <2>2
    <3>2. CASE j < i
      <4>1. j \in 1 .. Len(waiting') /\ waiting'[j] = u
        BY <1>1, <1>6, <2>2, <3>2
      <4> QED BY <4>1 DEF InWaiting
    <3>3. CASE j > i
      <4>1. j - 1 \in 1 .. Len(waiting') /\ ~ (j - 1 < i) /\ (j - 1) + 1 = j
        BY <1>1, <1>6, <3>3
      <4>2. waiting'[j - 1] = waiting[(j - 1) + 1]
        BY <1>6, <4>1
      <4>3. waiting'[j - 1] = u
        BY <2>2, <4>1, <4>2
      <4> QED BY <4>1, <4>3 DEF InWaiting
    <3> QED BY <1>1, <3>1, <3>2, <3>3
  <2> QED BY <2>1, <2>2 DEF InWaiting
<1> QED BY <1>1, <1>3, <1>5, <1>6, <1>8

(* The release of a job keeps the invariant. *)
LEMMA ReleaseStep ==
  ASSUME IInv, Release
  PROVE  IInv'
<1>0. QueueInv /\ QueueTypes
  BY Parts DEF QueueInv
<1> DEFINE t == waiting[i]
<1>1. /\ step = "check" /\ pos = 0 /\ i \in 1 .. Len(waiting)
      /\ Len(waiting) \in Nat
      /\ t \in Tid /\ InWaiting(t)
      /\ deadline[t] <= current_time
      /\ AddNode(t, ready)
      /\ run_time' = [run_time EXCEPT ![t] = 0]
      /\ waiting' = Shifted
      /\ UNCHANGED <<work, cpu, thread, sp, current, current_time, step, i>>
  BY <1>0 DEF Release, Handling, QueueTypes, InWaiting
<1>2. /\ CpuInv' /\ at'[Kmain] # "create"
      /\ work.period \in [Tid -> Nat \ {0}] /\ current_time \in Nat
      /\ \A u \in Tid : u = current \/ InReady(u) \/ InWaiting(u)
  BY <1>1, HandlerKeeps, InHandler
<1>3. t \in Tid /\ InWaiting(t) /\ ~InReady(t) /\ t # current
  BY ReleaseMoves
<1>5. /\ ready' \in Seq(Tid) /\ pos' = 1 /\ pos' \in 0 .. Len(ready')
      /\ deadline' \in [Tid -> Nat]
      /\ deadline'[t] = deadline[t] + work.period[t]
      /\ \A u \in Tid : u # t => deadline'[u] = deadline[u]
      /\ \A u \in Tid : InReady(u)' <=> u = t \/ InReady(u)
      /\ \A j, k \in 1 .. Len(ready') : ready'[j] = ready'[k] => j = k
      /\ Sorted'
  BY ReleaseMoves
<1>6. /\ waiting' \in Seq(Tid) /\ Len(waiting') = Len(waiting) - 1
      /\ \A j \in 1 .. Len(waiting') :
           waiting'[j] = IF j < i THEN waiting[j] ELSE waiting[j + 1]
  BY ReleaseMoves
<1> HIDE DEF t
<1>7. \A j, k \in 1 .. Len(waiting) : waiting[j] = waiting[k] => j = k
  BY <1>0 DEF QueueInv, Conserved
<1>8. \A u \in Tid : InWaiting(u)' <=> u # t /\ InWaiting(u)
  BY ReleaseMoves DEF t
<1>9. QueueTypes'
  <2>1. run_time' \in [Tid -> Nat]
    BY <1>0, <1>1 DEF QueueTypes
  <2>2. nodes' \in Nat
    BY <1>0, <1>1 DEF QueueTypes, AddNode
  <2> QED BY <1>0, <1>1, <1>5, <1>6, <2>1, <2>2 DEF QueueTypes
<1>10. Conserved'
  <2>1. \A j, k \in 1 .. Len(waiting') : waiting'[j] = waiting'[k] => j = k
    <3> TAKE j, k \in 1 .. Len(waiting')
    <3> DEFINE a == IF j < i THEN j ELSE j + 1
               b == IF k < i THEN k ELSE k + 1
    <3>1. /\ a \in 1 .. Len(waiting) /\ waiting'[j] = waiting[a]
          /\ b \in 1 .. Len(waiting) /\ waiting'[k] = waiting[b]
          /\ a = b => j = k
      BY <1>1, <1>6, SMTT(30)
    <3> QED BY <1>7, <3>1
  <2>2. \A u \in Tid : InReady(u)' => ~InWaiting(u)'
    BY <1>0, <1>5, <1>8 DEF QueueInv, Conserved
  <2>3. current' = current /\ (current \in Tid => ~InReady(current) /\ ~InWaiting(current))
    BY <1>0, <1>1 DEF QueueInv, Conserved
  <2>4. current' \in Tid => ~InReady(current)' /\ ~InWaiting(current)'
    BY <1>3, <1>5, <1>8, <2>3
  <2>5. \A u \in Tid : u = current' \/ InReady(u)' \/ InWaiting(u)'
    BY <1>1, <1>2, <1>5, <1>8, <2>3
  <2> QED BY <1>5, <2>1, <2>2, <2>3, <2>4, <2>5 DEF Conserved, InReady, InWaiting
<1>11. DeadlineInv'
  <2>1. \A u \in Tid : deadline'[u] <= current_time' + work'.period[u]
    <3>1. deadline'[t] <= current_time + work.period[t]
      <4>1. deadline[t] \in Nat /\ work.period[t] \in Nat
        BY <1>0, <1>1, <1>2 DEF QueueTypes
      <4> QED BY <1>1, <1>2, <1>5, <4>1 DEF t
    <3>2. \A u \in Tid : deadline[u] <= current_time + work.period[u]
      BY <1>0 DEF QueueInv, DeadlineInv
    <3> QED BY <1>1, <1>5, <3>1, <3>2
  <2>2. current' \in Tid => deadline'[current'] >= current_time'
    BY <1>0, <1>1, <1>3, <1>5 DEF QueueInv, DeadlineInv
  <2>3. ASSUME NEW j \in 1 .. Len(waiting')
        PROVE  /\ deadline'[waiting'[j]] >= current_time - 1
               /\ j < i => deadline'[waiting'[j]] > current_time
    <3>1. waiting'[j] \in Tid /\ waiting'[j] # t
      <4>1. waiting'[j] \in Tid
        BY <1>6
      <4>2. \A u \in Tid : \A k \in 1 .. Len(waiting') : waiting'[k] = u => u # t
        BY <1>8 DEF InWaiting
      <4> QED BY <4>1, <4>2
    <3>2. deadline'[waiting'[j]] = deadline[waiting'[j]]
      BY <1>5, <3>1
    <3>3. \A k \in 1 .. Len(waiting) :
            /\ deadline[waiting[k]] >= current_time - 1
            /\ k < i => deadline[waiting[k]] > current_time
      BY <1>0, <1>1 DEF QueueInv, DeadlineInv
    <3>4. CASE j < i
      BY <1>1, <1>6, <3>2, <3>3, <3>4
    <3>5. CASE ~ (j < i)
      <4>1. j + 1 \in 1 .. Len(waiting) /\ waiting'[j] = waiting[j + 1]
        BY <1>1, <1>6, <3>5
      <4> QED BY <3>2, <3>3, <3>5, <4>1
    <3> QED BY <3>4, <3>5
  <2> QED BY <1>1, <2>1, <2>2, <2>3 DEF DeadlineInv
<1>12. CurrentInv'
  BY <1>0, <1>1, <1>3, Constants DEF QueueInv, CurrentInv, QueueTypes
<1> QED BY <1>2, <1>5, <1>9, <1>10, <1>11, <1>12, Parts DEF QueueInv

(* Steps of the handler that leave the lists, the deadlines and the thread *)
(* that is current as they are. *)
LEMMA ListsKept ==
  ASSUME IInv, step = "check",
         UNCHANGED <<work, cpu, thread, sp, deadline, current, ready, waiting,
                     nodes, current_time, pos>>,
         step' \in {"check", "pop", "switch"},
         step' \in {"pop", "switch"} => pos = 0
  PROVE  /\ CpuInv' /\ Conserved' /\ Sorted'
         /\ run_time' \in [Tid -> Nat] /\ i' \in Nat \ {0} => QueueTypes'
<1>1. QueueInv /\ QueueTypes /\ at[Kmain] # "create"
  BY Parts, InHandler DEF QueueInv
<1>2. CpuInv' /\ at'[Kmain] # "create"
  BY HandlerKeeps
<1>3. Conserved' /\ Sorted'
  BY <1>1, <1>2 DEF QueueInv, Conserved, Sorted, InReady, InWaiting
<1>4. run_time' \in [Tid -> Nat] /\ i' \in Nat \ {0} => QueueTypes'
  BY <1>1 DEF QueueTypes
<1> QED BY <1>2, <1>3, <1>4

(* A thread that is not due is passed over. *)
LEMMA NotDueStep ==
  ASSUME IInv, NotDue
  PROVE  IInv'
<1>0. QueueInv /\ QueueTypes
  BY Parts DEF QueueInv
<1>1. /\ step = "check" /\ step' = "check" /\ i <= Len(waiting)
      /\ deadline[waiting[i]] > current_time /\ i' = i + 1
      /\ UNCHANGED <<work, cpu, thread, sp, queues, current_time, step, pos>>
  BY DEF NotDue, Handling
<1>2. CpuInv' /\ Conserved' /\ Sorted' /\ QueueTypes'
  <2>1. run_time' \in [Tid -> Nat] /\ i' \in Nat \ {0}
    BY <1>0, <1>1 DEF QueueTypes, queues
  <2> QED BY <1>1, <2>1, ListsKept DEF queues
<1>3. DeadlineInv'
  BY <1>0, <1>1 DEF QueueInv, QueueTypes, DeadlineInv, queues
<1>4. CurrentInv'
  BY <1>0, <1>1 DEF QueueInv, CurrentInv, queues
<1> QED BY <1>2, <1>3, <1>4, Parts DEF QueueInv

(* When schedule decides, no thread that waits is due, and the thread that *)
(* is current is charged for the tick. *)
LEMMA Decides ==
  ASSUME IInv, Deciding, Charge
  PROVE  /\ step = "check" /\ pos = 0 /\ current \in Tid \cup {Burner}
         /\ \A j \in 1 .. Len(waiting) : deadline[waiting[j]] > current_time
         /\ run_time' \in [Tid -> Nat]
         /\ current \in Tid => run_time'[current] = Ran /\ Ran \in Nat
<1>0. QueueInv /\ QueueTypes
  BY Parts DEF QueueInv
<1>1. step = "check" /\ pos = 0 /\ i > Len(waiting)
  BY DEF Deciding, Handling
<1>2. current \in Tid \cup {Burner}
  BY <1>0, <1>1 DEF QueueInv, CurrentInv
<1>3. \A j \in 1 .. Len(waiting) : deadline[waiting[j]] > current_time
  BY <1>0, <1>1 DEF QueueInv, QueueTypes, DeadlineInv
<1>4. /\ run_time' \in [Tid -> Nat]
      /\ current \in Tid => run_time'[current] = Ran /\ Ran \in Nat
  BY <1>0 DEF Charge, Ran, QueueTypes
<1> QED BY <1>1, <1>2, <1>3, <1>4

(* The burner or a job that keeps within its budget and deadline goes on. *)
LEMMA GoOnStep ==
  ASSUME IInv, GoOn
  PROVE  IInv'
<1>0. QueueInv /\ QueueTypes
  BY Parts DEF QueueInv
<1>1. /\ Deciding /\ Charge /\ step' = "switch"
      /\ current # Burner => ~UsedUp /\ MayGoOn
      /\ UNCHANGED <<work, cpu, thread, sp, deadline, current, ready, waiting,
                     nodes, current_time, i, pos>>
  BY DEF GoOn
<1>2. /\ step = "check" /\ pos = 0 /\ current \in Tid \cup {Burner}
      /\ \A j \in 1 .. Len(waiting) : deadline[waiting[j]] > current_time
      /\ run_time' \in [Tid -> Nat]
      /\ current \in Tid => run_time'[current] = Ran /\ Ran \in Nat
  BY <1>1, Decides
<1>3. CpuInv' /\ Conserved' /\ Sorted' /\ QueueTypes'
  <2>1. i' \in Nat \ {0}
    BY <1>0, <1>1 DEF QueueTypes
  <2> QED BY <1>1, <1>2, <2>1, ListsKept
<1>4. current \in Tid => current # Burner
  BY Constants
<1>5. DeadlineInv'
  <2>1. DeadlineInv /\ deadline \in [Tid -> Nat] /\ current_time \in Int
        /\ waiting \in Seq(Tid)
    BY <1>0 DEF QueueInv, QueueTypes
  <2>2. \A t \in Tid : deadline'[t] <= current_time' + work'.period[t]
    BY <1>1, <2>1 DEF DeadlineInv
  <2>3. current' \in Tid => deadline'[current'] > current_time'
    <3>1. current \in Tid => deadline[current] \in Nat
      BY <2>1
    <3> QED BY <1>1, <1>4, <2>1, <3>1 DEF MayGoOn
  <2>4. \A j \in 1 .. Len(waiting') :
          /\ deadline'[waiting'[j]] > current_time'
          /\ deadline'[waiting'[j]] >= current_time'
          /\ deadline'[waiting'[j]] >= current_time' - 1
    <3>1. \A j \in 1 .. Len(waiting) : deadline[waiting[j]] \in Nat
      BY <2>1
    <3>2. \A j \in 1 .. Len(waiting) : deadline[waiting[j]] > current_time
      BY <1>2
    <3>3. \A m \in Nat : m > current_time => m >= current_time /\ m >= current_time - 1
      BY <2>1
    <3> QED BY <1>1, <3>1, <3>2, <3>3
  <2> QED BY <1>1, <2>2, <2>3, <2>4 DEF DeadlineInv
<1>6. CurrentInv'
  <2>1. current \in Tid => Ran < work.budget[current]
    <3>1. work.budget \in [Tid -> Nat]
      BY Loads DEF IInv, TypeOK
    <3> QED BY <1>1, <1>2, <1>4, <3>1 DEF UsedUp
  <2> QED BY <1>0, <1>1, <1>2, <2>1 DEF QueueInv, CurrentInv
<1> QED BY <1>3, <1>5, <1>6, Parts DEF QueueInv

(* To displace a thread the handler goes on to pop. *)
LEMMA DisplaceStep ==
  ASSUME IInv, Displace
  PROVE  IInv'
<1>0. QueueInv /\ QueueTypes
  BY Parts DEF QueueInv
<1>1. /\ Deciding /\ Charge /\ step' = "pop"
      /\ UNCHANGED <<work, cpu, thread, sp, deadline, current, ready, waiting,
                     nodes, current_time, i, pos>>
  BY DEF Displace
<1>2. /\ step = "check" /\ pos = 0 /\ current \in Tid \cup {Burner}
      /\ \A j \in 1 .. Len(waiting) : deadline[waiting[j]] > current_time
      /\ run_time' \in [Tid -> Nat]
  BY <1>1, Decides
<1>3. CpuInv' /\ Conserved' /\ Sorted' /\ QueueTypes'
  <2>1. i' \in Nat \ {0}
    BY <1>0, <1>1 DEF QueueTypes
  <2> QED BY <1>1, <1>2, <2>1, ListsKept
<1>4. DeadlineInv' /\ CurrentInv'
  BY <1>0, <1>1, <1>2 DEF QueueInv, QueueTypes, DeadlineInv, CurrentInv
<1> QED BY <1>3, <1>4, Parts DEF QueueInv

(* Steps that make a thread wait that was current, and another current.    *)
LEMMA WaitsNow ==
  ASSUME IInv, current \in Tid, waiting' = Append(waiting, current)
  PROVE  /\ waiting' \in Seq(Tid)
         /\ \A t \in Tid : InWaiting(t)' <=> InWaiting(t) \/ t = current
         /\ \A j, k \in 1 .. Len(waiting') : waiting'[j] = waiting'[k] => j = k
         /\ \A j \in 1 .. Len(waiting') :
              \/ waiting'[j] = current
              \/ j \in 1 .. Len(waiting) /\ waiting'[j] = waiting[j]
<1>0. waiting \in Seq(Tid) /\ ~InWaiting(current)
      /\ \A j, k \in 1 .. Len(waiting) : waiting[j] = waiting[k] => j = k
  BY DEF IInv, TypeOK, Conserved
<1>1. /\ waiting' \in Seq(Tid)
      /\ waiting'[Len(waiting')] = current /\ Len(waiting') \in 1 .. Len(waiting')
      /\ \A j \in 1 .. Len(waiting') :
           j # Len(waiting') => j \in 1 .. Len(waiting) /\ waiting'[j] = waiting[j]
      /\ \A j \in 1 .. Len(waiting) : j \in 1 .. Len(waiting') /\ waiting'[j] = waiting[j]
  BY <1>0, Appended
<1>2. \A t \in Tid : InWaiting(t)' <=> InWaiting(t) \/ t = current
  BY <1>1, Zenon DEF InWaiting
<1>3. \A j, k \in 1 .. Len(waiting') : waiting'[j] = waiting'[k] => j = k
  <2> TAKE j, k \in 1 .. Len(waiting')
  <2>1. ASSUME NEW l \in 1 .. Len(waiting'), l # Len(waiting')
        PROVE  waiting'[l] # current
    BY <1>0, <1>1, <2>1, Zenon DEF InWaiting
  <2>2. CASE j # Len(waiting') /\ k # Len(waiting')
    BY <1>0, <1>1, <2>2, Zenon
  <2>3. CASE j = Len(waiting') \/ k = Len(waiting')
    BY <1>1, <2>1, <2>3, Zenon
  <2> QED BY <2>2, <2>3
<1>4. \A j \in 1 .. Len(waiting') :
        \/ waiting'[j] = current
        \/ j \in 1 .. Len(waiting) /\ waiting'[j] = waiting[j]
  BY <1>1, Zenon
<1> QED BY <1>1, <1>2, <1>3, <1>4

(* With no other thread ready the burner takes over. *)
LEMMA ToBurnerStep ==
  ASSUME IInv, ToBurner
  PROVE  IInv'
<1>0. QueueInv /\ QueueTypes
  BY Parts DEF QueueInv
<1>1. /\ Deciding /\ Charge /\ step' = "switch" /\ current \in Tid /\ ready = << >>
      /\ waiting' = Append(waiting, current) /\ current' = Burner
      /\ UNCHANGED <<work, cpu, thread, sp, deadline, ready, nodes, current_time,
                     i, pos>>
  BY DEF ToBurner
<1>2. /\ step = "check" /\ pos = 0
      /\ \A j \in 1 .. Len(waiting) : deadline[waiting[j]] > current_time
      /\ run_time' \in [Tid -> Nat]
  BY <1>1, Decides
<1>3. /\ CpuInv' /\ current_time \in Nat
      /\ \A t \in Tid : t = current \/ InReady(t) \/ InWaiting(t)
  BY <1>1, <1>2, HandlerKeeps, InHandler
<1>4. /\ waiting' \in Seq(Tid)
      /\ \A t \in Tid : InWaiting(t)' <=> InWaiting(t) \/ t = current
      /\ \A j, k \in 1 .. Len(waiting') : waiting'[j] = waiting'[k] => j = k
      /\ \A j \in 1 .. Len(waiting') :
           \/ waiting'[j] = current
           \/ j \in 1 .. Len(waiting) /\ waiting'[j] = waiting[j]
  BY <1>1, WaitsNow
<1>5. QueueTypes'
  BY <1>0, <1>1, <1>2, <1>4 DEF QueueTypes
<1>6. Conserved' /\ Sorted'
  <2>1. \A t \in Tid : ~InReady(t) /\ ~InReady(t)'
    BY <1>1 DEF InReady
  <2>2. \A t \in Tid : InWaiting(t)'
    BY <1>3, <1>4, <2>1
  <2> QED BY <1>1, <1>4, <2>1, <2>2, Constants DEF Conserved, Sorted
<1>7. DeadlineInv'
  <2>1. /\ \A t \in Tid : deadline[t] <= current_time + work.period[t]
        /\ deadline[current] >= current_time
    BY <1>0, <1>1, <1>2 DEF QueueInv, DeadlineInv
  <2>2. \A j \in 1 .. Len(waiting) :
          deadline[waiting[j]] \in Nat /\ deadline[waiting[j]] > current_time
    BY <1>0, <1>2 DEF QueueTypes
  <2>3. deadline[current] \in Nat
    BY <1>0, <1>1 DEF QueueTypes
  <2>4. ASSUME NEW j \in 1 .. Len(waiting')
        PROVE  deadline[waiting'[j]] >= current_time /\ deadline[waiting'[j]] >= current_time - 1
    <3>1. CASE waiting'[j] = current
      BY <1>3, <2>1, <2>3, <3>1
    <3>2. CASE j \in 1 .. Len(waiting) /\ waiting'[j] = waiting[j]
      BY <1>3, <2>2, <3>2
    <3> QED BY <1>4, <3>1, <3>2
  <2>5. current' \notin Tid
    BY <1>1, Constants
  <2> QED BY <1>1, <2>1, <2>4, <2>5 DEF DeadlineInv
<1>8. CurrentInv'
  BY <1>0, <1>1, <1>2, Constants DEF QueueInv, CurrentInv
<1> QED BY <1>3, <1>5, <1>6, <1>7, <1>8, Parts DEF QueueInv

(* pop gives the first thread its next job, in a new node before the rest. *)
LEMMA PopAgainMoves ==
  ASSUME IInv, PopAgain, NEW t, t = Head(ready)
  PROVE  /\ t \in Tid /\ InReady(t) /\ ~InWaiting(t) /\ t # current
         /\ ready' \in Seq(Tid) /\ pos' = 1 /\ pos' \in 0 .. Len(ready')
         /\ deadline' \in [Tid -> Nat]
         /\ deadline'[t] = deadline[t] + work.period[t]
         /\ \A u \in Tid : u # t => deadline'[u] = deadline[u]
         /\ \A u \in Tid : InReady(u)' <=> InReady(u)
         /\ \A j, k \in 1 .. Len(ready') : ready'[j] = ready'[k] => j = k
         /\ Sorted'
<1>0. QueueInv /\ QueueTypes
  BY Parts DEF QueueInv
<1> DEFINE rest == Tail(ready)
<1>1. /\ step = "pop" /\ pos = 0 /\ ready # << >>
      /\ deadline[t] <= current_time
      /\ AddNode(t, rest)
      /\ UNCHANGED <<work, cpu, thread, sp, run_time, current, waiting,
                     current_time, step, i>>
  BY DEF PopAgain, Handling
<1>2. /\ CpuInv' /\ at'[Kmain] # "create"
      /\ work.period \in [Tid -> Nat \ {0}] /\ current_time \in Nat
      /\ \A u \in Tid : u = current \/ InReady(u) \/ InWaiting(u)
  BY <1>1, HandlerKeeps, InHandler
<1>3. /\ rest \in Seq(Tid) /\ Len(rest) = Len(ready) - 1
      /\ 1 \in 1 .. Len(ready) /\ ready[1] = t /\ t \in Tid
      /\ \A j \in 1 .. Len(rest) : j + 1 \in 1 .. Len(ready) /\ rest[j] = ready[j + 1]
      /\ \A j \in 1 .. Len(ready) : j # 1 => j - 1 \in 1 .. Len(rest) /\ rest[j - 1] = ready[j]
  <2>1. ready \in Seq(Tid)
    BY <1>0 DEF QueueTypes
  <2>2. /\ rest \in Seq(Tid) /\ Len(rest) = Len(ready) - 1 /\ Len(ready) >= 1
        /\ ready[1] = t /\ t \in Tid
        /\ \A j \in 1 .. Len(rest) : j + 1 \in 1 .. Len(ready) /\ rest[j] = ready[j + 1]
        /\ \A j \in 1 .. Len(ready) : j # 1 => j - 1 \in 1 .. Len(rest) /\ rest[j - 1] = ready[j]
    BY <1>1, <2>1, Tailed
  <2> QED BY <2>1, <2>2
<1> HIDE DEF rest
<1>4. InReady(t) /\ ~InWaiting(t) /\ t # current
  BY <1>0, <1>3 DEF QueueInv, Conserved, InReady
<1>5. \A j, k \in 1 .. Len(ready) : ready[j] = ready[k] => j = k
  BY <1>0 DEF QueueInv, Conserved
<1>6. /\ \A j \in 1 .. Len(rest) : rest[j] # t
      /\ \A j, k \in 1 .. Len(rest) : rest[j] = rest[k] => j = k
      /\ \A j, k \in 1 .. Len(rest) : j < k => deadline[rest[j]] <= deadline[rest[k]]
  <2>1. ASSUME NEW j \in 1 .. Len(rest) PROVE rest[j] # t
    <3>1. j + 1 \in 1 .. Len(ready) /\ rest[j] = ready[j + 1] /\ j + 1 # 1
      BY <1>3
    <3> QED BY <1>3, <1>5, <3>1
  <2>2. ASSUME NEW j \in 1 .. Len(rest), NEW k \in 1 .. Len(rest)
        PROVE  /\ rest[j] = rest[k] => j = k
               /\ j < k => deadline[rest[j]] <= deadline[rest[k]]
    <3>1. /\ j + 1 \in 1 .. Len(ready) /\ rest[j] = ready[j + 1] /\ j + 1 # 0
          /\ k + 1 \in 1 .. Len(ready) /\ rest[k] = ready[k + 1]
          /\ j < k => j + 1 < k + 1
      BY <1>3
    <3>2. rest[j] = rest[k] => j + 1 = k + 1
      BY <1>5, <3>1
    <3>3. \A p, q \in 1 .. Len(ready) :
            p < q /\ p # 0 => deadline[ready[p]] <= deadline[ready[q]]
      BY <1>0, <1>1 DEF QueueInv, Sorted
    <3>4. j < k => deadline[rest[j]] <= deadline[rest[k]]
      BY <3>1, <3>3
    <3> QED BY <3>2, <3>4
  <2> QED BY <2>1, <2>2
<1>7. \A u \in Tid : InReady(u) <=> u = t \/ \E j \in 1 .. Len(rest) : rest[j] = u
  <2> TAKE u \in Tid
  <2>1. ASSUME NEW j \in 1 .. Len(ready), ready[j] = u, u # t
        PROVE  \E k \in 1 .. Len(rest) : rest[k] = u
    <3>1. j # 1
      BY <1>3, <2>1
    <3> QED BY <1>3, <2>1, <3>1, Zenon
  <2>2. ASSUME NEW j \in 1 .. Len(rest), rest[j] = u PROVE InReady(u)
    BY <1>3, <2>2, Zenon DEF InReady
  <2> QED BY <1>4, <2>1, <2>2 DEF InReady
<1>8. /\ ready' \in Seq(Tid) /\ pos' = 1 /\ pos' \in 0 .. Len(ready')
      /\ deadline' \in [Tid -> Nat]
      /\ deadline'[t] = deadline[t] + work.period[t]
      /\ \A u \in Tid : u # t => deadline'[u] = deadline[u]
      /\ \A u \in Tid : InReady(u)' <=> InReady(u)
      /\ \A j, k \in 1 .. Len(ready') : ready'[j] = ready'[k] => j = k
      /\ Sorted'
  <2>1. deadline \in [Tid -> Nat] /\ work.period[t] \in Nat
    BY <1>0, <1>2, <1>3 DEF QueueTypes
  <2>2. /\ ready' \in Seq(Tid) /\ pos' = 1 /\ pos' \in 0 .. Len(ready')
        /\ deadline' \in [Tid -> Nat]
        /\ deadline'[t] = deadline[t] + work.period[t]
        /\ \A u \in Tid : u # t => deadline'[u] = deadline[u]
        /\ \A u \in Tid : InReady(u)' <=> u = t \/ \E j \in 1 .. Len(rest) : rest[j] = u
        /\ \A j, k \in 1 .. Len(ready') : ready'[j] = ready'[k] => j = k
        /\ Sorted'
    BY <1>1, <1>3, <1>6, <2>1, Added
  <2> QED BY <1>7, <2>2
<1> QED BY <1>3, <1>4, <1>8

(* The next job of the first thread keeps the invariant. *)
LEMMA PopAgainStep ==
  ASSUME IInv, PopAgain
  PROVE  IInv'
<1>0. QueueInv /\ QueueTypes
  BY Parts DEF QueueInv
<1> DEFINE t == Head(ready)
<1>1. /\ step = "pop" /\ pos = 0 /\ ready # << >>
      /\ deadline[t] <= current_time
      /\ AddNode(t, Tail(ready))
      /\ UNCHANGED <<work, cpu, thread, sp, run_time, current, waiting,
                     current_time, step, i>>
  BY DEF PopAgain, Handling
<1>2. /\ CpuInv' /\ at'[Kmain] # "create"
      /\ work.period \in [Tid -> Nat \ {0}] /\ current_time \in Nat
      /\ \A u \in Tid : u = current \/ InReady(u) \/ InWaiting(u)
  BY <1>1, HandlerKeeps, InHandler
<1>3. t \in Tid /\ InReady(t) /\ ~InWaiting(t) /\ t # current
  BY PopAgainMoves
<1>8. /\ ready' \in Seq(Tid) /\ pos' = 1 /\ pos' \in 0 .. Len(ready')
      /\ deadline' \in [Tid -> Nat]
      /\ deadline'[t] = deadline[t] + work.period[t]
      /\ \A u \in Tid : u # t => deadline'[u] = deadline[u]
      /\ \A u \in Tid : InReady(u)' <=> InReady(u)
      /\ \A j, k \in 1 .. Len(ready') : ready'[j] = ready'[k] => j = k
      /\ Sorted'
  BY PopAgainMoves
<1> HIDE DEF t
<1>9. QueueTypes'
  <2>1. nodes' \in Nat
    BY <1>0, <1>1 DEF QueueTypes, AddNode
  <2> QED BY <1>0, <1>1, <1>8, <2>1 DEF QueueTypes
<1>10. Conserved'
  <2>1. /\ \A j, k \in 1 .. Len(waiting) : waiting[j] = waiting[k] => j = k
        /\ \A u \in Tid : InReady(u) => ~InWaiting(u)
        /\ current \in Tid => ~InReady(current) /\ ~InWaiting(current)
    BY <1>0 DEF QueueInv, Conserved
  <2>2. waiting' = waiting /\ current' = current
    BY <1>1
  <2>3. \A u \in Tid : InWaiting(u)' <=> InWaiting(u)
    BY <2>2 DEF InWaiting
  <2> QED BY <1>2, <1>8, <2>1, <2>2, <2>3 DEF Conserved
<1>11. DeadlineInv'
  <2>1. \A u \in Tid : deadline'[u] <= current_time + work.period[u]
    <3>1. deadline[t] \in Nat /\ work.period[t] \in Nat
      BY <1>0, <1>2, <1>3 DEF QueueTypes
    <3>2. deadline'[t] <= current_time + work.period[t]
      BY <1>1, <1>2, <1>8, <3>1
    <3> QED BY <1>0, <1>8, <3>2 DEF QueueInv, DeadlineInv
  <2>2. current \in Tid => deadline'[current] >= current_time
    BY <1>0, <1>1, <1>3, <1>8 DEF QueueInv, DeadlineInv
  <2>3. ASSUME NEW j \in 1 .. Len(waiting)
        PROVE  /\ deadline'[waiting[j]] >= current_time - 1
               /\ deadline'[waiting[j]] > current_time
    <3>1. waiting[j] \in Tid /\ waiting[j] # t
      <4>1. waiting \in Seq(Tid)
        BY <1>0 DEF QueueTypes
      <4>2. ~InWaiting(t) /\ InWaiting(waiting[j])
        BY <1>3 DEF InWaiting
      <4> QED BY <4>1, <4>2
    <3>2. deadline[waiting[j]] >= current_time - 1 /\ deadline[waiting[j]] > current_time
      BY <1>0, <1>1 DEF QueueInv, DeadlineInv
    <3> QED BY <1>8, <3>1, <3>2
  <2> QED BY <1>1, <2>1, <2>2, <2>3 DEF DeadlineInv
<1>12. CurrentInv'
  BY <1>0, <1>1 DEF QueueInv, CurrentInv
<1> QED BY <1>2, <1>8, <1>9, <1>10, <1>11, <1>12, Parts DEF QueueInv

(* The thread displaced is put with those that wait, the burner nowhere.   *)
LEMMA PopDisplaces ==
  ASSUME IInv, Pop
  PROVE  /\ current \in Tid \cup {Burner}
         /\ waiting' \in Seq(Tid)
         /\ \A u \in Tid : InWaiting(u)' <=> InWaiting(u) \/ u = current
         /\ \A j, k \in 1 .. Len(waiting') : waiting'[j] = waiting'[k] => j = k
         /\ \A j \in 1 .. Len(waiting') :
              \/ current \in Tid /\ waiting'[j] = current
              \/ j \in 1 .. Len(waiting) /\ waiting'[j] = waiting[j]
<1>0. QueueInv /\ QueueTypes
  BY Parts DEF QueueInv
<1>1. step = "pop" /\ waiting' = Previous
  BY DEF Pop, Handling
<1>2. current \in Tid \cup {Burner}
  BY <1>0, <1>1 DEF QueueInv, CurrentInv
<1>3. /\ waiting' \in Seq(Tid)
      /\ \A u \in Tid : InWaiting(u)' <=> InWaiting(u) \/ u = current
      /\ \A j, k \in 1 .. Len(waiting') : waiting'[j] = waiting'[k] => j = k
      /\ \A j \in 1 .. Len(waiting') :
           \/ current \in Tid /\ waiting'[j] = current
           \/ j \in 1 .. Len(waiting) /\ waiting'[j] = waiting[j]
  <2>1. CASE current \in Tid
    <3>1. waiting' = Append(waiting, current)
      BY <1>1, <2>1 DEF Previous
    <3> QED BY <2>1, <3>1, WaitsNow
  <2>2. CASE current \notin Tid
    <3>1. waiting' = waiting
      BY <1>1, <2>2 DEF Previous
    <3> QED BY <1>0, <2>2, <3>1 DEF QueueInv, QueueTypes, Conserved, InWaiting
  <2> QED BY <2>1, <2>2
<1> QED BY <1>2, <1>3

(* The first of the list, which no deadline in the list precedes, becomes  *)
(* current, and the rest stays. *)
LEMMA PopTakes ==
  ASSUME IInv, Pop, ready # << >>, NEW t, t = Head(ready)
  PROVE  /\ t \in Tid /\ InReady(t) /\ ~InWaiting(t) /\ t # current
         /\ current' = t /\ deadline[t] > current_time
         /\ \A u \in Tid : InReady(u) => deadline[t] <= deadline[u]
         /\ \A u \in Tid : InReady(u)' <=> InReady(u) /\ u # t
         /\ ready' \in Seq(Tid)
         /\ \A j \in 1 .. Len(ready') :
              j + 1 \in 1 .. Len(ready) /\ ready'[j] = ready[j + 1]
<1>0. QueueInv /\ QueueTypes /\ pos = 0
  BY Parts DEF QueueInv, Pop, Handling
<1> DEFINE rest == Tail(ready)
<1>1. current' = t /\ ready' = rest /\ deadline[t] > current_time
  BY DEF Pop
<1>2. /\ rest \in Seq(Tid) /\ Len(rest) = Len(ready) - 1 /\ Len(ready) >= 1
      /\ ready[1] = t /\ t \in Tid
      /\ \A j \in 1 .. Len(rest) : j + 1 \in 1 .. Len(ready) /\ rest[j] = ready[j + 1]
      /\ \A j \in 1 .. Len(ready) : j # 1 => j - 1 \in 1 .. Len(rest) /\ rest[j - 1] = ready[j]
  <2>1. ready \in Seq(Tid)
    BY <1>0 DEF QueueTypes
  <2> QED BY <2>1, Tailed
<1>3. 1 \in 1 .. Len(ready)
  <2>1. Len(ready) \in Nat
    BY <1>0 DEF QueueTypes
  <2> QED BY <1>2, <2>1
<1> HIDE DEF rest
<1>4. /\ \A j, k \in 1 .. Len(ready) : ready[j] = ready[k] => j = k
      /\ InReady(t) /\ ~InWaiting(t) /\ t # current
  BY <1>0, <1>2, <1>3 DEF QueueInv, Conserved, InReady
<1>5. \A u \in Tid : InReady(u)' <=> InReady(u) /\ u # t
  <2> TAKE u \in Tid
  <2>1. ASSUME NEW j \in 1 .. Len(ready'), ready'[j] = u PROVE InReady(u) /\ u # t
    <3>1. j + 1 \in 1 .. Len(ready) /\ ready[j + 1] = u /\ j + 1 # 1
      BY <1>1, <1>2, <2>1
    <3> QED BY <1>2, <1>3, <1>4, <3>1 DEF InReady
  <2>2. ASSUME NEW j \in 1 .. Len(ready), ready[j] = u, u # t PROVE InReady(u)'
    <3>1. j # 1
      BY <1>2, <2>2
    <3> QED BY <1>1, <1>2, <2>2, <3>1, Zenon DEF InReady
  <2> QED BY <2>1, <2>2 DEF InReady
<1>6. \A u \in Tid : InReady(u) => deadline[t] <= deadline[u]
  <2> SUFFICES ASSUME NEW j \in 1 .. Len(ready)
               PROVE  deadline[t] <= deadline[ready[j]]
    BY DEF InReady
  <2>1. CASE j = 1
    <3>1. deadline[t] \in Nat
      BY <1>0, <1>2 DEF QueueTypes
    <3> QED BY <1>2, <2>1, <3>1
  <2>2. CASE j # 1
    <3>1. \A p, q \in 1 .. Len(ready) :
            p < q /\ p # 0 => deadline[ready[p]] <= deadline[ready[q]]
      BY <1>0 DEF QueueInv, Sorted
    <3>2. 1 < j
      BY <2>2
    <3> QED BY <1>2, <1>3, <3>1, <3>2
  <2> QED BY <2>1, <2>2
<1> QED BY <1>1, <1>2, <1>4, <1>5, <1>6

(* pop keeps the invariant, also where it leaves nothing current.          *)
LEMMA PopStep ==
  ASSUME IInv, Pop
  PROVE  IInv'
<1>0. QueueInv /\ QueueTypes
  BY Parts DEF QueueInv
<1>1. /\ step = "pop" /\ pos = 0 /\ step' = "switch"
      /\ waiting' = Previous
      /\ UNCHANGED <<work, cpu, thread, sp, deadline, nodes, current_time, i, pos>>
  BY DEF Pop, Handling
<1>2. /\ CpuInv' /\ at'[Kmain] # "create" /\ current_time \in Nat
      /\ \A u \in Tid : u = current \/ InReady(u) \/ InWaiting(u)
  BY <1>1, HandlerKeeps, InHandler
<1>3. current \in Tid \cup {Burner}
  BY <1>0, <1>1 DEF QueueInv, CurrentInv
<1>4. /\ waiting' \in Seq(Tid)
      /\ \A u \in Tid : InWaiting(u)' <=> InWaiting(u) \/ u = current
      /\ \A j, k \in 1 .. Len(waiting') : waiting'[j] = waiting'[k] => j = k
      /\ \A j \in 1 .. Len(waiting') :
           \/ current \in Tid /\ waiting'[j] = current
           \/ j \in 1 .. Len(waiting) /\ waiting'[j] = waiting[j]
  BY PopDisplaces
<1>5. /\ \A u \in Tid : deadline[u] \in Nat /\ deadline[u] <= current_time + work.period[u]
      /\ current \in Tid => deadline[current] >= current_time
      /\ \A j \in 1 .. Len(waiting) : deadline[waiting[j]] > current_time
  BY <1>0, <1>1 DEF QueueInv, QueueTypes, DeadlineInv
<1>6. \A j \in 1 .. Len(waiting') :
        deadline[waiting'[j]] >= current_time - 1 /\ deadline[waiting'[j]] >= current_time
  <2> TAKE j \in 1 .. Len(waiting')
  <2>1. CASE current \in Tid /\ waiting'[j] = current
    <3>1. deadline[current] \in Nat
      BY <1>5, <2>1
    <3> QED BY <1>2, <1>5, <2>1, <3>1
  <2>2. CASE j \in 1 .. Len(waiting) /\ waiting'[j] = waiting[j]
    <3>1. waiting[j] \in Tid
      BY <1>0, <2>2 DEF QueueTypes
    <3> QED BY <1>2, <1>5, <2>2, <3>1
  <2> QED BY <1>4, <2>1, <2>2
<1>7. CASE ready = << >>
  <2>1. current' = NULL /\ ready' = << >> /\ run_time' = run_time
    BY <1>7 DEF Pop
  <2>2. QueueTypes'
    BY <1>0, <1>1, <1>4, <1>7, <2>1, Constants DEF QueueTypes
  <2>3. Conserved' /\ Sorted'
    <3>1. \A u \in Tid : ~InReady(u) /\ ~InReady(u)'
      BY <1>7, <2>1 DEF InReady
    <3>2. \A u \in Tid : InWaiting(u)'
      BY <1>2, <1>4, <3>1
    <3> QED BY <1>4, <2>1, <3>1, <3>2, Constants DEF Conserved, Sorted
  <2>4. DeadlineInv'
    BY <1>1, <1>5, <1>6, <2>1, Constants DEF DeadlineInv
  <2>5. CurrentInv'
    BY <1>0, <1>1, <2>1, Constants DEF QueueInv, CurrentInv
  <2> QED BY <1>2, <2>2, <2>3, <2>4, <2>5, Parts DEF QueueInv
<1>8. CASE ready # << >>
  <2> DEFINE t == Head(ready)
  <2>1. /\ current' = t /\ run_time' = [run_time EXCEPT ![t] = 0]
    BY <1>8 DEF Pop
  <2>2. /\ t \in Tid /\ InReady(t) /\ ~InWaiting(t) /\ t # current
        /\ deadline[t] > current_time
        /\ \A u \in Tid : InReady(u)' <=> InReady(u) /\ u # t
        /\ ready' \in Seq(Tid)
        /\ \A j \in 1 .. Len(ready') :
             j + 1 \in 1 .. Len(ready) /\ ready'[j] = ready[j + 1]
    BY <1>8, PopTakes
  <2> HIDE DEF t
  <2>4. \A j, k \in 1 .. Len(ready) : ready[j] = ready[k] => j = k
    BY <1>0 DEF QueueInv, Conserved
  <2>6. QueueTypes'
    BY <1>0, <1>1, <1>4, <2>1, <2>2 DEF QueueTypes
  <2>7. Conserved'
    <3>1. \A j, k \in 1 .. Len(ready') : ready'[j] = ready'[k] => j = k
      <4> TAKE j, k \in 1 .. Len(ready')
      <4>1. /\ j + 1 \in 1 .. Len(ready) /\ ready'[j] = ready[j + 1]
            /\ k + 1 \in 1 .. Len(ready) /\ ready'[k] = ready[k + 1]
        BY <2>1, <2>2
      <4>2. ready'[j] = ready'[k] => j + 1 = k + 1
        BY <2>4, <4>1
      <4> QED BY <4>2
    <3>2. \A u \in Tid : /\ InReady(u)' => ~InWaiting(u)'
                         /\ u = t => ~InReady(u)' /\ ~InWaiting(u)'
                         /\ u = t \/ InReady(u)' \/ InWaiting(u)'
      BY <1>0, <1>2, <1>4, <2>2 DEF QueueInv, Conserved
    <3>3. ~InReady(current)' /\ ~InWaiting(current)'
      BY <2>1, <2>2, <3>2
    <3> QED BY <1>4, <2>1, <3>1, <3>2, <3>3 DEF Conserved
  <2>8. Sorted'
    <3> SUFFICES ASSUME NEW j \in 1 .. Len(ready'), NEW k \in 1 .. Len(ready'), j < k
                 PROVE  deadline'[ready'[j]] <= deadline'[ready'[k]]
      BY DEF Sorted
    <3>1. /\ j + 1 \in 1 .. Len(ready) /\ ready'[j] = ready[j + 1] /\ j + 1 # 0
          /\ k + 1 \in 1 .. Len(ready) /\ ready'[k] = ready[k + 1]
          /\ j + 1 < k + 1
      BY <2>1, <2>2
    <3>2. \A p, q \in 1 .. Len(ready) :
            p < q /\ p # 0 => deadline[ready[p]] <= deadline[ready[q]]
      BY <1>0, <1>1 DEF QueueInv, Sorted
    <3> QED BY <1>1, <3>1, <3>2
  <2>9. DeadlineInv'
    BY <1>1, <1>5, <1>6, <2>1, <2>2 DEF DeadlineInv
  <2>10. CurrentInv'
    <3>1. run_time'[t] = 0
      BY <1>0, <2>1, <2>2 DEF QueueTypes
    <3> QED BY <1>0, <1>1, <2>1, <3>1 DEF QueueInv, CurrentInv
  <2> QED BY <1>2, <2>6, <2>7, <2>8, <2>9, <2>10, Parts DEF QueueInv
<1> QED BY <1>7, <1>8

(* The clock goes on and the CPU follows the stack pointer of whatever is  *)
(* current: its own context, or, for the burner, kmain's. *)
LEMMA SwitchStep ==
  ASSUME IInv, Switch
  PROVE  IInv'
<1>0. CpuInv /\ QueueInv /\ CpuTypes /\ QueueTypes
  BY Parts DEF CpuInv, QueueInv
<1>1. /\ step = "switch" /\ pos = 0 /\ step' = "run"
      /\ current_time' = current_time + 1
      /\ on' = IF current = NULL THEN Wild ELSE sp[current]
      /\ sp' = [c \in Tid \cup {Burner} |-> IF c = current THEN Stale ELSE sp[c]]
      /\ UNCHANGED <<work, at, edi, thread, queues, i, pos>>
  BY DEF Switch, Handling
<1>2. /\ work \in Workloads /\ work.horizon \in Nat
      /\ current_time \in Nat /\ current_time < work.horizon
      /\ at[Kmain] # "create"
  BY <1>0, <1>1, InHandler, Loads
<1>3. \A c \in Tid \cup {Burner} : sp[c] = c \/ (c = Burner /\ sp[c] = Kmain)
  BY <1>0, <1>1, <1>2 DEF CpuInv, OwnContext
<1>4. \/ current = NULL /\ on' = Wild
      \/ current \in Tid \cup {Burner} /\ on' = current
      \/ current = Burner /\ on' = Kmain
  BY <1>0, <1>1, <1>3, Constants DEF QueueTypes
<1>5. CpuTypes'
  BY <1>0, <1>1, <1>4, Constants DEF CpuTypes, thread
<1>6. BootInv'
  BY <1>1, <1>2, <1>4, Constants DEF BootInv, queues
<1>7. KmainInv' /\ OwnContext'
  BY <1>0, <1>1, <1>2, <1>3, <1>4, Constants
     DEF CpuInv, KmainInv, OwnContext, thread, queues
<1>8. QueueTypes' /\ Sorted'
  <2>1. current_time' \in 0 .. work'.horizon
    BY <1>1, <1>2
  <2> QED BY <1>0, <1>1, <2>1 DEF QueueInv, QueueTypes, Sorted, queues
<1>9. Conserved'
  BY <1>0, <1>1, <1>2 DEF QueueInv, Conserved, InReady, InWaiting, queues
<1>10. DeadlineInv'
  <2>1. /\ \A t \in Tid : deadline[t] \in Nat /\ deadline[t] <= current_time + work.period[t]
        /\ current \in Tid => deadline[current] > current_time
        /\ \A j \in 1 .. Len(waiting) : waiting[j] \in Tid /\ deadline[waiting[j]] >= current_time
    BY <1>0, <1>1 DEF QueueInv, QueueTypes, DeadlineInv
  <2>2. \A t \in Tid : work.period[t] \in Nat
    BY <1>2, Loads
  <2>3. \A t \in Tid : deadline[t] <= (current_time + 1) + work.period[t]
    BY <1>2, <2>1, <2>2
  <2>4. current \in Tid => deadline[current] >= current_time + 1
    BY <1>2, <2>1
  <2>5. \A j \in 1 .. Len(waiting) : deadline[waiting[j]] >= (current_time + 1) - 1
    BY <1>2, <2>1
  <2> QED BY <1>1, <2>3, <2>4, <2>5 DEF DeadlineInv, queues
<1>11. CurrentInv'
  BY <1>0, <1>1 DEF QueueInv, CurrentInv, queues
<1> QED BY <1>5, <1>6, <1>7, <1>8, <1>9, <1>10, <1>11, Parts DEF CpuInv, QueueInv

-----------------------------------------------------------------------------
(* Theorems *)

(* In every state each thread is in one place, the list is in the order of *)
(* deadlines, contexts and stack pointers go together, and deadlines and   *)
(* budgets are what each part of the handler relies on: the invariant the  *)
(* theorems below follow from. *)
THEOREM Invariance == Spec => []IInv
<1>1. IInv /\ [Next]_vars => IInv'
  <2> SUFFICES ASSUME IInv, [Next]_vars PROVE IInv'
    OBVIOUS
  <2>1. CASE Boot
    BY <2>1, BootStep
  <2>2. CASE \E t \in Tid : Run(t)
    BY <2>2, RunStep
  <2>3. CASE Tick
    BY <2>3, TickStep
  <2>4. CASE Schedule
    BY <2>4, ReleaseStep, NotDueStep, GoOnStep, ToBurnerStep, DisplaceStep,
       PopAgainStep, PopStep, BubbleStep, SwitchStep DEF Schedule
  <2>5. CASE UNCHANGED vars
    <3>1. UNCHANGED <<work, queues, handler, on, at, edi, thread, sp>>
      BY <2>5 DEF vars, queues, handler, thread
    <3>2. QueueInv' /\ CpuInv
      BY <3>1, QueuesKept, Parts
    <3>3. CpuInv'
      BY <3>1, <3>2
         DEF CpuInv, CpuTypes, BootInv, KmainInv, OwnContext, queues, handler, thread
    <3> QED BY <3>2, <3>3, Parts
  <2> QED BY <2>1, <2>2, <2>3, <2>4, <2>5 DEF Next, Stopped
<1> QED BY <1>1, InitInv, PTL DEF Spec

(* The variables keep their types: no index leaves its array, the lists    *)
(* hold threads only, and the place swap works at lies within the list.    *)
THEOREM TypeCorrect == Spec => []TypeOK
<1>1. IInv => TypeOK
  BY DEF IInv
<1> QED BY <1>1, Invariance, PTL

(* Each thread is current, ready or waiting, and in one of these only.     *)
THEOREM EachInOnePlace == Spec => []Conserved
<1>1. IInv => Conserved
  BY DEF IInv
<1> QED BY <1>1, Invariance, PTL

(* A thread whose budget is used up or whose deadline has come is taken    *)
(* off the CPU at that tick. *)
THEOREM JobsWithin == Spec => []WithinJob
<1>1. IInv => WithinJob
  BY DEF IInv, DeadlineInv, CurrentInv, WithinJob
<1> QED BY <1>1, Invariance, PTL

(* Jobs that are due are released at the next tick. *)
THEOREM OnTime == Spec => []ReleasedOnTime
<1>1. IInv => ReleasedOnTime
  BY DEF IInv, DeadlineInv, ReleasedOnTime
<1> QED BY <1>1, Invariance, PTL

(* A thread runs on its own stack and under its own number. *)
THEOREM OwnStacks == Spec => []OwnContext
<1>1. IInv => OwnContext
  BY DEF IInv
<1> QED BY <1>1, Invariance, PTL

(* The list add_node, swap and pop keep is sorted by deadline, but for the *)
(* node that swap moves. *)
THEOREM InOrder == Spec => []Sorted
<1>1. IInv => Sorted
  BY DEF IInv
<1> QED BY <1>1, Invariance, PTL

-----------------------------------------------------------------------------
(* The nodes of heap_memory *)

PeriodsBegun == [t \in Tid |-> deadline[t] \div work.period[t]]

(* What the sums of NodesInv are taken over. *)
LEMMA PeriodsType ==
  IInv => /\ IsFiniteSet(Tid)
          /\ PeriodsBegun \in [Tid -> Int]
          /\ NodesInv <=> nodes = SumFunctionOnSet(PeriodsBegun, Tid)
<1> SUFFICES ASSUME IInv PROVE /\ IsFiniteSet(Tid)
                               /\ PeriodsBegun \in [Tid -> Int]
                               /\ NodesInv <=> nodes = SumFunctionOnSet(PeriodsBegun, Tid)
  OBVIOUS
<1>1. IsFiniteSet(Tid)
  BY Constants, FS_Interval
<1>2. work.period \in [Tid -> Nat \ {0}] /\ deadline \in [Tid -> Nat]
  BY Loads DEF IInv, TypeOK
<1>3. \A t \in Tid : deadline[t] \div work.period[t] \in Int
  BY <1>2
<1>4. PeriodsBegun \in [Tid -> Int] /\ DOMAIN PeriodsBegun = Tid
  BY <1>3 DEF PeriodsBegun
<1>5. NodesInv <=> nodes = SumFunctionOnSet(PeriodsBegun, Tid)
  BY <1>4 DEF NodesInv, PeriodsBegun, SumFunction
<1> QED BY <1>1, <1>4, <1>5

(* A node is taken and the deadline of its thread moved on together. *)
LEMMA AddNodeTakes ==
  ASSUME IInv, IInv', NodesInv, UNCHANGED work,
         NEW t \in Tid, NEW list, AddNode(t, list)
  PROVE  NodesInv'
<1> DEFINE v == PeriodsBegun
           w == PeriodsBegun'
<1>1. /\ IsFiniteSet(Tid) /\ v \in [Tid -> Int]
      /\ nodes = SumFunctionOnSet(v, Tid)
  BY PeriodsType
<1>2. /\ w \in [Tid -> Int]
      /\ NodesInv' <=> nodes' = SumFunctionOnSet(w, Tid)
  <2>1. (IInv => /\ IsFiniteSet(Tid)
                 /\ PeriodsBegun \in [Tid -> Int]
                 /\ NodesInv <=> nodes = SumFunctionOnSet(PeriodsBegun, Tid))'
    BY PeriodsType, PTL
  <2> QED BY <2>1
<1>3. work.period \in [Tid -> Nat \ {0}] /\ deadline \in [Tid -> Nat]
  BY Loads DEF IInv, TypeOK
<1>4. \A u \in Tid : u # t => v[u] = w[u]
  BY <1>3 DEF PeriodsBegun, AddNode
<1>5. w[t] - v[t] = 1
  <2> DEFINE d == deadline[t]
             p == work.period[t]
  <2>1. d \in Nat /\ p \in Nat \ {0}
    BY <1>3
  <2>2. w[t] = (d + p) \div p /\ v[t] = d \div p
    BY <1>3 DEF PeriodsBegun, AddNode
  <2> HIDE DEF d, p, v, w
  <2>3. (d + p) \div p = d \div p + 1
    BY <2>1, DivisionOneMore, Zenon
  <2>4. d \div p \in Nat
    BY <2>1, DivisionNat, Zenon
  <2>5. \A a, b \in Int : a = b + 1 => a - b = 1
    OBVIOUS
  <2>6. d \div p \in Int /\ d \div p + 1 \in Int
    BY <2>4
  <2> QED BY <2>2, <2>3, <2>5, <2>6, Zenon
<1> HIDE DEF v, w
<1>6. SumFunctionOnSet(w, Tid) = SumFunctionOnSet(v, Tid) + 1
  BY <1>1, <1>2, <1>4, <1>5, SumChanged
<1> QED BY <1>1, <1>2, <1>6 DEF AddNode

(* The nodes taken from heap_memory are at every moment one for each       *)
(* period of each thread's deadline, and never more than the periods that  *)
(* have begun by now.                                                      *)
THEOREM NodesTaken == Spec => []NodesPerPeriod
<1>1. Init /\ IInv => NodesInv
  <2> SUFFICES ASSUME Init, IInv PROVE NodesInv
    OBVIOUS
  <2>1. work.period \in [Tid -> Nat \ {0}]
    BY Loads DEF Init
  <2>2. \A t \in Tid : PeriodsBegun[t] = 0
    BY <2>1 DEF Init, PeriodsBegun
  <2>3. SumFunctionOnSet(PeriodsBegun, Tid) = 0
    BY <2>2, PeriodsType, SumOfZeros
  <2> QED BY <2>3, PeriodsType DEF Init
<1>2. IInv /\ IInv' /\ NodesInv /\ [Next]_vars => NodesInv'
  <2> SUFFICES ASSUME IInv, IInv', NodesInv, [Next]_vars PROVE NodesInv'
    OBVIOUS
  <2>1. CASE Release
    <3>1. waiting[i] \in Tid
      BY <2>1 DEF Release, IInv, TypeOK
    <3> QED BY <2>1, <3>1, AddNodeTakes DEF Release
  <2>2. CASE PopAgain
    <3>1. Head(ready) \in Tid
      BY <2>2 DEF PopAgain, IInv, TypeOK
    <3> QED BY <2>2, <3>1, AddNodeTakes DEF PopAgain
  <2>3. CASE ~Release /\ ~PopAgain
    <3>1. UNCHANGED <<work, deadline, nodes>>
      BY <2>3 DEF Next, vars, Boot, ThreadCreate, BurnerCreate, LoadFirst,
         SwitchFirst, Run, Start, PrintNumber, Count, Branch, Finish, Exit,
         Tick, Schedule, NotDue, GoOn, ToBurner, Displace, Pop, Bubble, Switch,
         Stopped, queues
    <3> QED BY <3>1 DEF NodesInv
  <2> QED BY <2>1, <2>2, <2>3
<1>3. IInv /\ NodesInv => NodesPerPeriod
  <2> SUFFICES ASSUME IInv, NodesInv PROVE NodesPerPeriod
    OBVIOUS
  <2> DEFINE v == PeriodsBegun
             w == [t \in Tid |-> current_time \div work.period[t] + 1]
  <2>1. /\ IsFiniteSet(Tid) /\ v \in [Tid -> Int]
        /\ nodes = SumFunctionOnSet(v, Tid)
    BY PeriodsType
  <2>2. /\ work.period \in [Tid -> Nat \ {0}] /\ deadline \in [Tid -> Nat]
        /\ current_time \in Nat
        /\ \A t \in Tid : deadline[t] <= current_time + work.period[t]
    <3>1. work \in Workloads /\ current_time \in 0 .. work.horizon
      BY DEF IInv, TypeOK
    <3>2. work.period \in [Tid -> Nat \ {0}] /\ work.horizon \in Nat
      BY <3>1, Loads
    <3>3. /\ deadline \in [Tid -> Nat]
          /\ \A t \in Tid : deadline[t] <= current_time + work.period[t]
      BY DEF IInv, TypeOK, DeadlineInv
    <3>4. current_time \in Nat
      BY <3>1, <3>2
    <3> QED BY <3>2, <3>3, <3>4
  <2>3. ASSUME NEW t \in Tid PROVE w[t] \in Int /\ v[t] <= w[t]
    <3> DEFINE d == deadline[t]
               c == current_time
               p == work.period[t]
    <3>1. d \in Nat /\ c \in Nat /\ p \in Nat \ {0} /\ d <= c + p /\ c + p \in Nat
      BY <2>2
    <3>2. w[t] = c \div p + 1 /\ v[t] = d \div p
      BY DEF PeriodsBegun
    <3> HIDE DEF d, c, p, v, w
    <3>3. d \div p <= (c + p) \div p /\ (c + p) \div p = c \div p + 1
      BY <3>1, DivisionMonotone, DivisionOneMore, Zenon
    <3>4. c \div p \in Nat
      BY <3>1, DivisionNat, Zenon
    <3>5. c \div p + 1 \in Int
      BY <3>4
    <3> QED BY <3>2, <3>3, <3>5, Zenon
  <2>4. w \in [Tid -> Int] /\ DOMAIN w = Tid /\ \A t \in Tid : v[t] <= w[t]
    BY <2>3
  <2>5. NodesPerPeriod <=> nodes <= SumFunctionOnSet(w, Tid)
    BY <2>4 DEF NodesPerPeriod, SumFunction
  <2> HIDE DEF v, w
  <2>6. SumFunctionOnSet(v, Tid) <= SumFunctionOnSet(w, Tid)
    BY <2>1, <2>4, SumMonotone
  <2> QED BY <2>1, <2>5, <2>6
<1> QED BY <1>1, <1>2, <1>3, Invariance, PTL DEF Spec

-----------------------------------------------------------------------------
(* The refinement *)

ReadySet == {t \in Tid : InReady(t)}
WaitingSet == {t \in Tid : InWaiting(t)}
Running == IF current \in Tid THEN current ELSE NULL

(* kmain starts where EarliestDeadline starts. *)
LEMMA InitRefines == Init => Deadlines!Init
<1> SUFFICES ASSUME Init PROVE Deadlines!Init
  OBVIOUS
<1>1. work.period \in [Tid -> Nat \ {0}]
  BY Loads DEF Init
<1>2. ReadySet = {} /\ WaitingSet = {} /\ Running = NULL
  BY Constants DEF Init, ReadySet, WaitingSet, Running, InReady, InWaiting
<1> QED BY <1>1, <1>2 DEF Init, Deadlines!Init, ReadySet, WaitingSet, Running

(* A step that leaves what EarliestDeadline speaks of is a stutter. *)
LEMMA Stutters ==
  ASSUME work'.period = work.period, current_time' = current_time,
         Running' = Running, ReadySet' = ReadySet, WaitingSet' = WaitingSet,
         deadline' = deadline
  PROVE  UNCHANGED Deadlines!vars
BY DEF Deadlines!vars, Running, ReadySet, WaitingSet

(* thread_create makes a thread wait for time 0. *)
LEMMA EnterRefines ==
  ASSUME IInv, ThreadCreate
  PROVE  \E t \in Tid : Deadlines!Enter(t)
<1> DEFINE n == Len(waiting) + 1
<1>1. /\ step = "run" /\ on = Kmain /\ at[Kmain] = "create" /\ n \in Tid
      /\ waiting \in Seq(Tid) /\ waiting' = Append(waiting, n)
      /\ current = NULL /\ ready = << >>
      /\ \A j \in 1 .. Len(waiting) : waiting[j] = j
      /\ UNCHANGED <<work, deadline, current, ready, current_time>>
  BY Constants DEF ThreadCreate, KmainIn, handler, IInv, TypeOK, BootInv
<1>2. /\ waiting' \in Seq(Tid)
      /\ waiting'[Len(waiting')] = n /\ Len(waiting') \in 1 .. Len(waiting')
      /\ \A j \in 1 .. Len(waiting') :
           j # Len(waiting') => j \in 1 .. Len(waiting) /\ waiting'[j] = waiting[j]
      /\ \A j \in 1 .. Len(waiting) : j \in 1 .. Len(waiting') /\ waiting'[j] = waiting[j]
  BY <1>1, Appended
<1>3. \A t \in Tid : InWaiting(t)' <=> InWaiting(t) \/ t = n
  BY <1>2, Zenon DEF InWaiting
<1>4. ~InWaiting(n) /\ \A t \in Tid : ~InReady(t) /\ ~InReady(t)'
  BY <1>1 DEF InWaiting, InReady
<1>5. /\ n \notin WaitingSet \cup ReadySet \cup {Running}
      /\ WaitingSet' = WaitingSet \cup {n} /\ ReadySet' = ReadySet /\ Running' = Running
  BY <1>1, <1>3, <1>4, Constants DEF WaitingSet, ReadySet, Running
<1>6. Deadlines!Enter(n)
  BY <1>1, <1>5 DEF Deadlines!Enter, WaitingSet, ReadySet, Running
<1> QED BY <1>1, <1>6

(* check_waiting_threads releases jobs that are due. *)
LEMMA ReleaseRefines ==
  ASSUME IInv, Release
  PROVE  \E t \in Tid : Deadlines!Release(t)
<1> DEFINE t == waiting[i]
<1>1. /\ t \in Tid /\ InWaiting(t) /\ ~InReady(t) /\ t # current
      /\ \A u \in Tid : InReady(u)' <=> u = t \/ InReady(u)
      /\ \A u \in Tid : InWaiting(u)' <=> u # t /\ InWaiting(u)
  BY ReleaseMoves
<1>2. /\ deadline[t] <= current_time
      /\ deadline' = [deadline EXCEPT ![t] = @ + work.period[t]]
      /\ UNCHANGED <<work, current, current_time>>
  BY DEF Release, AddNode
<1> HIDE DEF t
<1>3. /\ t \in WaitingSet /\ WaitingSet' = WaitingSet \ {t}
      /\ ReadySet' = ReadySet \cup {t} /\ Running' = Running
  BY <1>1, <1>2 DEF WaitingSet, ReadySet, Running
<1>4. Deadlines!Release(t)
  BY <1>2, <1>3
     DEF Deadlines!Release, Deadlines!Due, Deadlines!Postponed, WaitingSet, ReadySet, Running
<1> QED BY <1>1, <1>4

(* pop makes a thread forgo a job whose deadline has passed. *)
LEMMA ForgoRefines ==
  ASSUME IInv, PopAgain
  PROVE  \E t \in Tid : Deadlines!Forgo(t)
<1> DEFINE t == Head(ready)
<1>1. /\ t \in Tid /\ InReady(t)
      /\ \A u \in Tid : InReady(u)' <=> InReady(u)
  BY PopAgainMoves
<1>2. /\ deadline[t] <= current_time
      /\ deadline' = [deadline EXCEPT ![t] = @ + work.period[t]]
      /\ UNCHANGED <<work, current, current_time, waiting>>
  BY DEF PopAgain, AddNode
<1> HIDE DEF t
<1>3. t \in ReadySet /\ ReadySet' = ReadySet /\ Running' = Running /\ WaitingSet' = WaitingSet
  BY <1>1, <1>2 DEF WaitingSet, ReadySet, Running, InWaiting
<1>4. Deadlines!Forgo(t)
  BY <1>2, <1>3
     DEF Deadlines!Forgo, Deadlines!Due, Deadlines!Postponed, WaitingSet, ReadySet, Running
<1> QED BY <1>1, <1>4

(* pop dispatches the first of the list, or nothing. *)
LEMMA PopRefines ==
  ASSUME IInv, Pop
  PROVE  Deadlines!Idle \/ \E t \in Tid : Deadlines!Dispatch(t)
<1>1. /\ step = "pop"
      /\ UNCHANGED <<work, deadline, current_time>>
  BY DEF Pop, Handling
<1>2. /\ current \in Tid \cup {Burner}
      /\ \A u \in Tid : InWaiting(u)' <=> InWaiting(u) \/ u = current
  BY PopDisplaces
<1>3. WaitingSet' = WaitingSet \cup ({Running} \cap Tid)
  BY <1>2, Constants DEF WaitingSet, Running
<1>4. CASE ready = << >>
  <2>1. current' = NULL /\ ready' = << >>
    BY <1>4 DEF Pop
  <2>2. ReadySet = {} /\ ReadySet' = {} /\ Running' = NULL
    BY <1>4, <2>1, Constants DEF ReadySet, Running, InReady
  <2>3. Deadlines!Idle
    BY <1>1, <1>3, <2>2
       DEF Deadlines!Idle, Deadlines!Displaced, ReadySet, WaitingSet, Running
  <2> QED BY <2>3
<1>5. CASE ready # << >>
  <2> DEFINE t == Head(ready)
  <2>1. /\ t \in Tid /\ InReady(t) /\ current' = t /\ deadline[t] > current_time
        /\ \A u \in Tid : InReady(u) => deadline[t] <= deadline[u]
        /\ \A u \in Tid : InReady(u)' <=> InReady(u) /\ u # t
    BY <1>5, PopTakes
  <2> HIDE DEF t
  <2>2. /\ t \in ReadySet /\ ReadySet' = ReadySet \ {t} /\ Running' = t
        /\ \A u \in ReadySet : deadline[t] <= deadline[u]
    BY <2>1 DEF ReadySet, Running
  <2>3. \A u \in WaitingSet : ~ (deadline[u] <= current_time)
    <3>0. waiting \in Seq(Tid) /\ DeadlineInv
      BY DEF IInv, TypeOK
    <3>1. \A j \in 1 .. Len(waiting) :
            waiting[j] \in Tid /\ deadline[waiting[j]] > current_time
      BY <1>1, <3>0 DEF DeadlineInv
    <3>2. \A u \in Tid : deadline[u] \in Nat /\ current_time \in Int
      BY DEF IInv, TypeOK
    <3> QED BY <3>1, <3>2 DEF WaitingSet, InWaiting
  <2>4. ~ (deadline[t] <= current_time)
    <3>1. deadline[t] \in Nat /\ current_time \in Int
      BY <2>1 DEF IInv, TypeOK
    <3> QED BY <2>1, <3>1
  <2>5. Deadlines!Dispatch(t)
    BY <1>1, <1>3, <2>2, <2>3, <2>4
       DEF Deadlines!Dispatch, Deadlines!Due, Deadlines!Displaced,
           ReadySet, WaitingSet, Running
  <2> QED BY <2>1, <2>5
<1> QED BY <1>4, <1>5

(* The burner takes over only where nothing is ready. *)
LEMMA ToBurnerRefines ==
  ASSUME IInv, ToBurner
  PROVE  Deadlines!Idle
<1>1. /\ current \in Tid /\ ready = << >> /\ ready' = << >> /\ current' = Burner
      /\ waiting' = Append(waiting, current)
      /\ UNCHANGED <<work, deadline, current_time>>
  BY DEF ToBurner
<1>2. \A t \in Tid : InWaiting(t)' <=> InWaiting(t) \/ t = current
  BY <1>1, WaitsNow
<1>3. /\ WaitingSet' = WaitingSet \cup ({Running} \cap Tid)
      /\ ReadySet = {} /\ ReadySet' = {} /\ Running' = NULL
  BY <1>1, <1>2, Constants DEF WaitingSet, ReadySet, Running, InReady
<1> QED BY <1>1, <1>3
        DEF Deadlines!Idle, Deadlines!Displaced, ReadySet, WaitingSet, Running

(* Time passes once nobody's next job is overdue. *)
LEMMA PassRefines ==
  ASSUME IInv, Switch
  PROVE  Deadlines!Pass
<1>1. /\ step = "switch" /\ current_time' = current_time + 1
      /\ UNCHANGED <<work, deadline, current, ready, waiting>>
  BY DEF Switch, Handling, queues
<1>2. \A u \in WaitingSet : deadline[u] >= current_time
  BY <1>1 DEF IInv, DeadlineInv, WaitingSet, InWaiting
<1>3. WaitingSet' = WaitingSet /\ ReadySet' = ReadySet /\ Running' = Running
  BY <1>1 DEF WaitingSet, ReadySet, Running, InWaiting, InReady
<1> QED BY <1>1, <1>2, <1>3 DEF Deadlines!Pass, ReadySet, WaitingSet, Running

(* Swapping two nodes leaves the same threads ready. *)
LEMMA BubbleRefines ==
  ASSUME IInv, Bubble
  PROVE  UNCHANGED Deadlines!vars
<1>1. UNCHANGED <<work, deadline, current, waiting, current_time>>
  BY DEF Bubble
<1>2. /\ \A t \in Tid : InWaiting(t)' <=> InWaiting(t)
      /\ at[Kmain] # "create" /\ at'[Kmain] # "create"
  <2>1. step # "run" /\ step' # "run" /\ UNCHANGED <<work, cpu, thread, sp>>
    BY DEF Bubble, IInv, TypeOK
  <2> QED BY <1>1, <2>1, HandlerKeeps DEF InWaiting
<1>3. IInv'
  BY BubbleStep
<1>4. \A t \in Tid : InReady(t) <=> t # current /\ ~InWaiting(t)
  BY <1>2 DEF IInv, Conserved
<1>5. \A t \in Tid : InReady(t)' <=> t # current' /\ ~InWaiting(t)'
  BY <1>2, <1>3 DEF IInv, Conserved
<1>6. ReadySet' = ReadySet /\ WaitingSet' = WaitingSet /\ Running' = Running
  BY <1>1, <1>2, <1>4, <1>5 DEF ReadySet, WaitingSet, Running
<1> QED BY <1>1, <1>6, Stutters

(* Deados implements EarliestDeadline: jobs are released when they are due *)
(* and dispatched by earliest deadline, whatever the budgets.              *)
THEOREM Implements == Spec => EarliestFirst
<1>1. IInv /\ [Next]_vars => [Deadlines!Next]_(Deadlines!vars)
  <2> SUFFICES ASSUME IInv, [Next]_vars
               PROVE  Deadlines!Next \/ UNCHANGED Deadlines!vars
    BY DEF Deadlines!vars
  <2>1. CASE UNCHANGED <<work, deadline, ready, waiting, current_time>> /\ Running' = Running
    <3>1. ReadySet' = ReadySet /\ WaitingSet' = WaitingSet
      BY <2>1 DEF ReadySet, WaitingSet, InReady, InWaiting
    <3> QED BY <2>1, <3>1, Stutters
  <2>2. CASE Boot
    <3>1. CASE ThreadCreate
      BY <3>1, EnterRefines DEF Deadlines!Next
    <3>2. CASE BurnerCreate
      <4>1. current = NULL
        BY <3>2 DEF BurnerCreate, KmainIn, IInv, BootInv
      <4> QED BY <2>1, <3>2, <4>1, Constants DEF BurnerCreate, handler, Running
    <3>3. CASE LoadFirst \/ SwitchFirst
      BY <2>1, <3>3 DEF LoadFirst, SwitchFirst, queues, handler, Running
    <3> QED BY <2>2, <3>1, <3>2, <3>3 DEF Boot
  <2>3. ASSUME NEW t \in Tid, Run(t) PROVE Deadlines!Next \/ UNCHANGED Deadlines!vars
    <3>1. UNCHANGED <<work, queues, handler>>
      BY <2>3, RunKeeps
    <3> QED BY <2>1, <3>1 DEF queues, handler, Running
  <2>4. CASE Tick \/ NotDue \/ GoOn \/ Displace \/ UNCHANGED vars
    BY <2>1, <2>4 DEF Tick, NotDue, GoOn, Displace, queues, vars, Running
  <2>5. CASE Release \/ ToBurner \/ PopAgain \/ Pop \/ Bubble \/ Switch
    <3>1. CASE Bubble
      BY <3>1, BubbleRefines
    <3>2. CASE Release \/ ToBurner \/ PopAgain \/ Pop \/ Switch
      BY <3>2, ReleaseRefines, ToBurnerRefines, ForgoRefines, PopRefines, PassRefines
         DEF Deadlines!Next
    <3> QED BY <2>5, <3>1, <3>2
  <2> QED BY <2>2, <2>3, <2>4, <2>5 DEF Next, Schedule, Stopped
<1> QED BY <1>1, InitRefines, Invariance, PTL DEF Spec, EarliestFirst, Deadlines!Spec
=============================================================================
