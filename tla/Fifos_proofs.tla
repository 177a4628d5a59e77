---------------------------- MODULE Fifos_proofs ----------------------------
(***************************************************************************)
(* Proofs about module Fifos, for any number of threads and rounds, either *)
(* program, and ticks at any set of places; from "The line" on, of what    *)
(* more holds as long as no tick comes at one of the critical              *)
(* instructions, which is always so in the program that yields.            *)
(***************************************************************************)
EXTENDS Fifos, SequenceTheorems, Lemmas

(* What is known of the constants. *)
LEMMA Constants ==
  /\ MAX_THREADS \in Nat \ {0}
  /\ 1 \in Tid /\ MAX_THREADS \in Tid /\ Tid \subseteq Nat
  /\ Ctx = Tid \cup {0} /\ Kmain = 0 /\ NULL = 0 /\ Stale = -1
  /\ Wild = -1 /\ Halted = -2 /\ 0 \notin Tid /\ -1 \notin Tid /\ -2 \notin Tid
  /\ Wrap \in Nat /\ Wrap > 0 /\ Modes \subseteq {1, 2}
  /\ IsFiniteSet(Tid) /\ Cardinality(Tid) = MAX_THREADS
<1>1. MAX_THREADS \in Nat \ {0} /\ Wrap \in Nat /\ Wrap > 0
  BY FifosAssumption
<1>2. IsFiniteSet(1 .. MAX_THREADS) /\ Cardinality(1 .. MAX_THREADS) = MAX_THREADS
  BY <1>1, FS_Interval
<1> QED BY <1>1, <1>2, FifosAssumption
        DEF Tid, Ctx, Kmain, NULL, Stale, Wild, Halted

-----------------------------------------------------------------------------
(* The ring *)

LinkTypes ==
  /\ next \in [Tid -> Tid \cup {NULL}]
  /\ prev \in [Tid -> Tid \cup {NULL}]
  /\ current \in Tid \cup {NULL}
  /\ threads \in Tid

(* A set of threads closed under RingNext holds the last thread, hence the *)
(* first, hence all. *)
LEMMA RingNextIsOneRing ==
  ASSUME NEW S \in SUBSET Tid, S # {}, \A t \in S : RingNext[t] \in S
  PROVE  S = Tid
<1> DEFINE N == MAX_THREADS
<1>1. N \in Nat \ {0} /\ Tid = 1 .. N
  BY Constants DEF Tid
<1>2. \A t \in S : t \in 1 .. N /\ (t # N => t + 1 \in S) /\ (t = N => 1 \in S)
  BY <1>1 DEF RingNext
<1>3. N \in S
  <2> DEFINE D == {N - t : t \in S}
  <2>1. D \in SUBSET Nat /\ D # {}
    <3>1. \A t \in S : N - t \in Nat
      BY <1>1, <1>2
    <3> QED BY <3>1
  <2>2. PICK m \in D : \A n \in D : m <= n
    BY <2>1, LeastElement
  <2>3. PICK t \in S : m = N - t
    BY <2>2
  <2>4. CASE t # N
    <3>1. N - (t + 1) \in D
      BY <1>2, <2>4
    <3>2. m <= N - (t + 1)
      BY <2>2, <3>1
    <3> QED BY <1>1, <1>2, <2>3, <3>2
  <2> QED BY <2>4, <2>3
<1>4. 1 \in S
  BY <1>2, <1>3
<1>5. Tid \ S = {}
  <2> SUFFICES ASSUME Tid \ S # {} PROVE FALSE
    OBVIOUS
  <2>1. Tid \ S \in SUBSET Nat
    BY <1>1
  <2>2. PICK m \in Tid \ S : \A n \in Tid \ S : m <= n
    BY <2>1, LeastElement
  <2>3. m \in 1 .. N /\ m # 1
    BY <1>1, <1>4, <2>2
  <2>4. m - 1 \in Tid /\ m - 1 \in Nat /\ m - 1 # N /\ ~(m <= m - 1)
    BY <1>1, <2>3
  <2>5. m - 1 \in S
    BY <2>2, <2>4
  <2>6. m \in S
    <3>1. (m - 1) + 1 \in S
      BY <1>2, <2>4, <2>5
    <3> QED BY <2>3, <3>1
  <2> QED BY <2>2, <2>6
<1> QED BY <1>5

(* What build_runqueue makes is a ring of all threads, of which kmain sets *)
(* the current one. *)
LEMMA BuiltRing ==
  ASSUME next' = RingNext, prev' = RingPrev, threads' = MAX_THREADS, current' = 1
  PROVE  Ring' = Tid /\ RingOK'
<1>1. /\ \A t \in Tid : next'[t] \in Tid /\ prev'[t] \in Tid
      /\ \A t \in Tid : next'[prev'[t]] = t /\ prev'[next'[t]] = t
  BY Constants DEF RingNext, RingPrev, Tid
<1>2. Ring' = Tid
  BY <1>1 DEF Ring
<1>3. ASSUME NEW S \in SUBSET Ring', S # {}, \A t \in S : next'[t] \in S
      PROVE  S = Ring'
  BY <1>2, <1>3, RingNextIsOneRing
<1> QED BY <1>1, <1>2, <1>3, Constants DEF RingOK

(* No part of the ring is closed under next. *)
LEMMA OneRing ==
  ASSUME RingOK, current # NULL,
         NEW S, S \subseteq Ring, S # {}, \A t \in S : next[t] \in S
  PROVE  S = Ring
BY DEF RingOK

(* A ring with one member left has length 1. *)
LEMMA SelfLoop ==
  ASSUME RingOK, current # NULL, next[current] = current
  PROVE  threads = 1
<1>1. {current} \subseteq Ring /\ {current} # {} /\ \A t \in {current} : next[t] \in {current}
  BY DEF RingOK
<1>2. {current} = Ring
  BY <1>1, OneRing, Zenon
<1> QED BY <1>2, FS_Singleton DEF RingOK

(* Unlink takes the current thread out of the ring, and nothing else, and  *)
(* goes on to a thread that is left. *)
LEMMA UnlinkRing ==
  ASSUME LinkTypes, RingOK, current # NULL, Unlink
  PROVE  /\ Ring' = Ring \ {current}
         /\ current' \in Ring' /\ current' # current
         /\ RingOK' /\ LinkTypes'
<1> DEFINE c == current
           p == prev[current]
           a == next[current]
<1>1. /\ c \in Ring /\ p \in Ring /\ a \in Ring
      /\ c \in Tid /\ p \in Tid /\ a \in Tid
      /\ next[p] = c /\ prev[a] = c
  BY DEF RingOK, Ring
<1>2. a # c /\ p # c
  BY SelfLoop, <1>1 DEF Unlink
<1>3. /\ next' = [next EXCEPT ![p] = a]
      /\ prev' = [prev EXCEPT ![a] = p]
      /\ current' = a
      /\ threads' = threads - 1
  <2> DEFINE linked == [next EXCEPT ![p] = a]
  <2>1. linked[a] # c
    BY <1>1, <1>2 DEF LinkTypes, Ring
  <2> QED BY <2>1 DEF Unlink
<1>4. \A t \in Tid : /\ next'[t] = IF t = p THEN a ELSE next[t]
                     /\ prev'[t] = IF t = a THEN p ELSE prev[t]
  BY <1>1, <1>3 DEF LinkTypes
<1>5. LinkTypes'
  <2>1. threads' \in Tid
    BY <1>3, Constants DEF LinkTypes, Unlink, Tid
  <2> QED BY <1>1, <1>3, <2>1 DEF LinkTypes
<1>6. ASSUME NEW t \in Tid PROVE t \in Ring' <=> t \in Ring /\ t # c
  <2>1. CASE t = c
    BY <1>1, <1>2, <1>4, <2>1 DEF Ring
  <2>2. CASE t = p
    BY <1>1, <1>2, <1>4, <2>2 DEF Ring
  <2>3. CASE t # c /\ t # p /\ t \in Ring
    <3>1. next[t] # a
      BY <1>1, <2>3 DEF Ring
    <3> QED BY <1>4, <2>3, <3>1 DEF Ring
  <2>4. CASE t # c /\ t # p /\ t \notin Ring
    BY <1>4, <1>1, <2>4 DEF Ring
  <2> QED BY <2>1, <2>2, <2>3, <2>4
<1>7. Ring' = Ring \ {c}
  BY <1>6 DEF Ring
<1>8. ASSUME NEW t \in Ring'
      PROVE  next'[t] \in Ring' /\ prev'[t] \in Ring' /\ next'[prev'[t]] = t
  <2>1. t \in Tid /\ t \in Ring /\ t # c
    BY <1>7 DEF Ring
  <2>2. next[t] \in Ring /\ prev[t] \in Ring /\ next[prev[t]] = t
        /\ prev[next[t]] = t /\ prev[t] \in Tid /\ next[t] \in Tid
    BY <2>1 DEF RingOK, Ring
  <2>3. next'[t] \in Ring'
    BY <1>1, <1>2, <1>4, <1>7, <2>1, <2>2
  <2>4. prev'[t] \in Ring'
    BY <1>1, <1>2, <1>4, <1>7, <2>1, <2>2
  <2>5. next'[prev'[t]] = t
    BY <1>1, <1>2, <1>4, <2>1, <2>2
  <2> QED BY <2>3, <2>4, <2>5
<1>9. ASSUME NEW S \in SUBSET Ring', S # {}, \A t \in S : next'[t] \in S
      PROVE  S = Ring'
  <2>1. S \subseteq Ring /\ c \notin S /\ S \subseteq Tid
    BY <1>7 DEF Ring
  <2>2. CASE p \in S
    <3>1. a \in S
      BY <1>1, <1>4, <2>2, <1>9
    <3>2. \A t \in S \cup {c} : next[t] \in S \cup {c}
      BY <1>1, <1>4, <2>1, <3>1, <1>9
    <3>3. S \cup {c} \subseteq Ring /\ S \cup {c} # {}
      BY <1>1, <2>1
    <3>4. S \cup {c} = Ring
      BY <3>2, <3>3, OneRing, Zenon
    <3> QED BY <1>7, <2>1, <3>4
  <2>3. CASE p \notin S
    <3>1. \A t \in S : next[t] \in S
      BY <1>4, <2>1, <2>3, <1>9
    <3>2. S = Ring
      BY <1>9, <2>1, <3>1 DEF RingOK
    <3> QED BY <1>1, <2>1, <3>2
  <2> QED BY <2>2, <2>3
<1>10. threads' = Cardinality(Ring')
  <2>1. IsFiniteSet(Ring)
    BY Constants, FS_Subset DEF Ring
  <2> QED BY <1>1, <1>3, <1>7, <2>1, FS_RemoveElement DEF RingOK
<1>11. current' \in Ring' /\ current' # current
  BY <1>1, <1>2, <1>3, <1>7
<1>12. RingOK'
  BY <1>8, <1>9, <1>10, <1>11 DEF RingOK
<1> QED BY <1>5, <1>7, <1>11, <1>12

(* Rotate goes on to the next thread of the same ring. *)
LEMMA RotateRing ==
  ASSUME LinkTypes, RingOK, current # NULL, Rotate
  PROVE  /\ Ring' = Ring
         /\ current' \in Ring'
         /\ RingOK' /\ LinkTypes'
<1>1. Ring' = Ring
  BY DEF Rotate, Ring
<1>2. current' \in Ring
  BY DEF Rotate, RingOK
<1>3. RingOK'
  BY <1>1, <1>2 DEF Rotate, RingOK
<1> QED BY <1>1, <1>2, <1>3 DEF LinkTypes, Rotate, Ring

(* schedule() keeps the ring one, and stays in it; only the thread it was  *)
(* called for can leave. *)
LEMMA ScheduleRing ==
  ASSUME LinkTypes, RingOK, current # NULL, Rotate \/ Unlink
  PROVE  /\ Ring' = Ring \/ (Unlink /\ Ring' = Ring \ {current})
         /\ current' \in Ring'
         /\ RingOK' /\ LinkTypes'
BY UnlinkRing, RotateRing

-----------------------------------------------------------------------------
(* Who runs, on whose stack *)

(* A table of stack pointers by which every thread of the ring can be      *)
(* resumed, the first one perhaps in the person of kmain. *)
Resumable(R, f) == \A t \in R : f[t] = t \/ (t = 1 /\ f[t] = Kmain)

(* Resuming by such a table leaves the CPU with the current thread, or     *)
(* with kmain for the first, and all others as they were. *)
LEMMA Resumed ==
  ASSUME NEW saved \in [Tid -> Ctx \cup {Stale}],
         current' \in Ring', Resumable(Ring', saved), Resume(saved)
  PROVE  /\ on' \in Ctx /\ sp' \in [Tid -> Ctx \cup {Stale}]
         /\ OwnContext'
         /\ on' = Kmain => /\ current' = 1
                           /\ sp'[1] = Stale
                           /\ \A t \in Ring' \ {1} : sp'[t] = t
<1>1. Ring' \subseteq Tid /\ current' \in Tid
  BY DEF Ring
<1>2. /\ on' = saved[current']
      /\ sp' = [saved EXCEPT ![current'] = Stale]
  BY DEF Resume
<1>3. \A t \in Tid : sp'[t] = IF t = current' THEN Stale ELSE saved[t]
  BY <1>2
<1>4. on' = current' \/ (current' = 1 /\ on' = Kmain)
  BY <1>2 DEF Resumable
<1>5. on' \in Ctx /\ sp' \in [Tid -> Ctx \cup {Stale}]
  BY <1>1, <1>2, <1>4 DEF Ctx
<1>6. OwnContext'
  BY <1>1, <1>3, <1>4, Constants DEF OwnContext, Resumable
<1>7. ASSUME on' = Kmain PROVE current' = 1 /\ sp'[1] = Stale /\ \A t \in Ring' \ {1} : sp'[t] = t
  <2>1. current' = 1
    BY <1>1, <1>4, <1>7, Constants
  <2>2. \A t \in Ring' \ {1} : sp'[t] = t
    BY <1>1, <1>3, <2>1 DEF Resumable
  <2> QED BY <1>1, <1>3, <2>1, <2>2
<1> QED BY <1>5, <1>6, <1>7

(* What dispatcher and the timer's handler do to the ring and to contexts. *)
LEMMA Switched ==
  ASSUME IInv, on \in Ctx, current # NULL, Switch(on)
  PROVE  /\ RingOK' /\ LinkTypes'
         /\ on' \in Ctx \cup {Halted} /\ sp' \in [Tid -> Ctx \cup {Stale}]
         /\ OwnContext'
         /\ on' = Kmain => /\ current' = 1
                           /\ sp'[1] = Stale
                           /\ \A t \in Ring' \ {1} : sp'[t] = t
<1> DEFINE saved == [sp EXCEPT ![current] = on]
<1>1. LinkTypes /\ RingOK /\ current \in Tid /\ sp \in [Tid -> Ctx \cup {Stale}]
  BY DEF IInv, TypeOK, LinkTypes
<1>2. saved \in [Tid -> Ctx \cup {Stale}]
  BY <1>1
<1>3. Resumable(Ring, saved)
  <2>1. \A t \in Ring : t \in Tid /\ saved[t] = IF t = current THEN on ELSE sp[t]
    BY <1>1 DEF Ring
  <2>2. CASE on \in Tid
    BY <2>1, <2>2 DEF IInv, OwnContext, Resumable
  <2>3. CASE on = Kmain
    BY <2>1, <2>3 DEF IInv, KmainInv, Resumable
  <2> QED BY <2>2, <2>3 DEF Ctx
<1>4. CASE (Rotate \/ Unlink) /\ Resume(saved)
  <2>1. Ring' \subseteq Ring /\ current' \in Ring' /\ RingOK' /\ LinkTypes'
    BY <1>1, <1>4, ScheduleRing
  <2>2. Resumable(Ring', saved)
    BY <1>3, <2>1 DEF Resumable
  <2> HIDE DEF saved
  <2> QED BY <1>2, <1>4, <2>1, <2>2, Resumed
<1>5. CASE HaltThere /\ sp' = saved
  <2>1. on' = Halted /\ UNCHANGED ring
    BY <1>5 DEF HaltThere
  <2>2. RingOK' /\ LinkTypes'
    BY <1>1, <2>1 DEF ring, RingOK, Ring, LinkTypes
  <2> QED BY <1>2, <1>5, <2>1, <2>2, Constants DEF OwnContext
<1> QED BY <1>4, <1>5 DEF Switch

-----------------------------------------------------------------------------
(* Initial states *)

(* The state kmain starts in has the inductive invariant. *)
LEMMA InitInv == Init => IInv
<1> SUFFICES ASSUME Init PROVE IInv
  OBVIOUS
<1> USE Constants DEF Init
<1>1. TypeOK
  <2>1. threads \in Tid /\ thread_ids \in 1 .. MAX_THREADS + 1 /\ counter \in [Tid -> 0 .. Wrap - 1]
    OBVIOUS
  <2>2. at \in [Ctx -> ThreadAt \cup KmainAt] /\ reg \in [Ctx -> Int]
        /\ \A c \in Ctx : at[c] \in IF c = Kmain THEN KmainAt ELSE ThreadAt
    BY DEF ThreadAt, KmainAt
  <2>3. id \in [Tid -> 0 .. MAX_THREADS]
    OBVIOUS
  <2> QED BY <2>1, <2>2, <2>3 DEF TypeOK
<1>2. \A t \in Tid : at[t] = "entry"
  OBVIOUS
<1>3. Numbered = {}
  BY <1>2 DEF Numbered
<1>4. BootInv
  BY <1>2 DEF BootInv, Tid
<1>5. KmainInv /\ RingOK /\ OwnContext /\ YieldInv
  BY DEF KmainInv, RingOK, OwnContext, YieldInv
<1>6. NumberOK
  BY <1>2, <1>3, FS_EmptySet DEF NumberOK
<1> QED BY <1>1, <1>2, <1>4, <1>5, <1>6 DEF IInv

-----------------------------------------------------------------------------
(* The steps, by what they leave alone *)

(* A step of thread() that neither switches nor exits. *)
Computing(t) ==
  \/ LoadId(t) \/ StoreId(t) \/ PrintLine(t) \/ LoadCounter(t)
  \/ StoreCounter(t) \/ ReloadCounter(t) \/ Compare(t) \/ Branch(t)
  \/ SetDone(t) \/ ExitWaits(t)

(* Every step is one of boot, of a thread, of the timer, or none. *)
LEMMA StepKinds ==
  ASSUME [Next]_vars
  PROVE  \/ Boot
         \/ \E t \in Tid : Computing(t) \/ Yield(t) \/ ExitDispatches(t) \/ ExitReturns(t)
         \/ Tick
         \/ UNCHANGED vars
BY DEF Next, Run, Computing, Stopped

(* Where a thread runs, kmain has set current and is not on the CPU. *)
LEMMA InThread ==
  ASSUME IInv, NEW t \in Tid, on = t
  PROVE  /\ current = t /\ current # NULL /\ t \in Ring
         /\ at[Kmain] \in {"load", "switch"}
         /\ t \in Ctx /\ t # Kmain
BY Constants DEF IInv, BootInv, OwnContext, RingOK, TypeOK, KmainAt

(* A computing step of a thread changes its own place and register only,   *)
(* and neither the ring nor a stack pointer. *)
LEMMA ComputingKeeps ==
  ASSUME IInv, NEW t \in Tid, Computing(t)
  PROVE  /\ on = t
         /\ UNCHANGED <<FIFOS, on, sp, next, prev, current, threads>>
         /\ at'[Kmain] = at[Kmain] /\ reg'[Kmain] = reg[Kmain]
         /\ \A u \in Tid \ {t} : at'[u] = at[u] /\ reg'[u] = reg[u]
<1>1. on = t
  BY DEF Computing, LoadId, StoreId, PrintLine, LoadCounter, StoreCounter,
         ReloadCounter, Compare, Branch, SetDone, ExitWaits, In
<1>2. t # Kmain
  BY Constants
<1>3. UNCHANGED <<FIFOS, on, sp, next, prev, current, threads>>
  BY DEF Computing, LoadId, StoreId, PrintLine, LoadCounter, StoreCounter,
         ReloadCounter, Compare, Branch, SetDone, ExitWaits, ring
<1>4. \E place : at' = [at EXCEPT ![t] = place]
  BY DEF Computing, LoadId, StoreId, PrintLine, LoadCounter, StoreCounter,
         ReloadCounter, Compare, Branch, SetDone, ExitWaits, Goes
<1>5. reg' = reg \/ \E value : reg' = [reg EXCEPT ![t] = value]
  BY DEF Computing, LoadId, StoreId, PrintLine, LoadCounter, StoreCounter,
         ReloadCounter, Compare, Branch, SetDone, ExitWaits, Computes
<1> QED BY <1>1, <1>2, <1>3, <1>4, <1>5, Constants DEF IInv, TypeOK

(* A timer tick keeps the program counters, but for that of a thread it    *)
(* finds in exit_thread's hlt. *)
LEMMA TickKeeps ==
  ASSUME IInv, Tick
  PROVE  /\ FIFOS = 2 /\ on \in Ctx /\ current # NULL /\ Switch(on)
         /\ at' = at \/ (on \in Tid /\ at[on] = "hlt" /\ at' = [at EXCEPT ![on] = "woken"])
         /\ at'[Kmain] = at[Kmain]
         /\ UNCHANGED <<FIFOS, reg, id, state, done, counter, thread_ids>>
<1>1. at[on] = "hlt" => on \in Tid /\ on # Kmain
  BY Constants DEF IInv, TypeOK, Tick, KmainAt, Ctx
<1> QED BY <1>1 DEF Tick, work, IInv, TypeOK

-----------------------------------------------------------------------------
(* Contexts and the ring, under every step *)

(* The ring stays one ring, and every thread of it can go on. *)
LEMMA ContextsStep ==
  ASSUME IInv, [Next]_vars
  PROVE  RingOK' /\ OwnContext' /\ KmainInv'
<1>1. CASE UNCHANGED <<on, sp, next, prev, current, threads>> /\ at'[Kmain] = at[Kmain]
           /\ reg'[Kmain] = reg[Kmain]
  BY <1>1 DEF IInv, RingOK, Ring, OwnContext, KmainInv
<1>2. CASE ThreadCreate \/ BuildRunqueue
  <2>1. current = NULL /\ current' = NULL /\ on' = Kmain /\ at'[Kmain] \in {"create", "first"}
    BY <1>2, Constants DEF ThreadCreate, BuildRunqueue, KmainIn, KmainGoes, IInv, BootInv, TypeOK
  <2> QED BY <2>1, Constants DEF RingOK, OwnContext, KmainInv
<1>3. CASE SetCurrent
  <2>1. /\ next' = RingNext /\ prev' = RingPrev /\ threads' = MAX_THREADS
        /\ current' = 1 /\ on' = Kmain /\ at'[Kmain] = "load"
        /\ \A t \in Tid : sp'[t] = t
    BY <1>3, Constants DEF SetCurrent, KmainIn, KmainGoes, IInv, BootInv, TypeOK
  <2>2. Ring' = Tid /\ RingOK'
    BY <2>1, BuiltRing
  <2> QED BY <2>1, <2>2, Constants DEF OwnContext, KmainInv
<1>4. CASE LoadFirst
  <2>1. /\ on = Kmain /\ current = 1 /\ sp[1] \in {1, Stale} /\ Ring' = Ring
        /\ UNCHANGED <<on, sp, next, prev, current, threads>>
        /\ reg'[Kmain] = sp[1]
    BY <1>4, Constants
       DEF LoadFirst, KmainIn, ring, Ring, IInv, BootInv, KmainInv, TypeOK
  <2> QED BY <2>1, Constants DEF IInv, RingOK, OwnContext, KmainInv
<1>5. CASE SwitchFirst
  <2>1. /\ current = 1 /\ on' \in {1, Stale} /\ Ring' = Ring
        /\ \A t \in Ring \ {1} : sp'[t] = t
        /\ UNCHANGED <<at, reg, next, prev, current, threads>>
    BY <1>5, Constants
       DEF SwitchFirst, KmainIn, ring, Ring, IInv, BootInv, KmainInv, TypeOK
  <2> QED BY <2>1, Constants DEF IInv, RingOK, OwnContext, KmainInv
<1>6. ASSUME on \in Ctx, current # NULL, Switch(on), at'[Kmain] = at[Kmain], reg' = reg
      PROVE  RingOK' /\ OwnContext' /\ KmainInv'
  BY <1>6, Switched DEF IInv, KmainInv
<1>7. ASSUME NEW t \in Tid, Yield(t) PROVE RingOK' /\ OwnContext' /\ KmainInv'
  <2>1. on = t /\ Switch(on) /\ reg' = reg
    BY <1>7 DEF Yield, In
  <2>2. at'[Kmain] = at[Kmain]
    BY <1>7, Constants DEF Yield, Goes, IInv, TypeOK
  <2> QED BY <1>6, <2>1, <2>2, InThread
<1>8. ASSUME NEW t \in Tid, ExitDispatches(t) PROVE RingOK' /\ OwnContext' /\ KmainInv'
  <2>1. /\ on = t /\ at[t] = "exit" /\ FIFOS = 1 /\ at' = at /\ reg' = reg
        /\ current = t /\ current # NULL /\ LinkTypes
    BY <1>8, InThread DEF ExitDispatches, In, IInv, TypeOK, LinkTypes
  <2>2. done[current]
    BY <2>1 DEF IInv, YieldInv
  <2>3. CASE Unlink /\ Resume(sp)
    <3>1. Ring' = Ring \ {t} /\ current' \in Ring' /\ RingOK'
      BY <2>1, <2>3, UnlinkRing DEF IInv
    <3>2. Resumable(Ring', sp)
      BY <2>1, <3>1 DEF IInv, OwnContext, Resumable
    <3> QED BY <2>1, <2>3, <3>1, <3>2, Resumed DEF IInv, TypeOK, KmainInv
  <2>4. CASE HaltThere
    BY <2>1, <2>4, Constants DEF HaltThere, ring, IInv, RingOK, Ring, OwnContext, KmainInv
  <2> QED BY <1>8, <2>2, <2>3, <2>4 DEF ExitDispatches, Rotate
<1>9. ASSUME NEW t \in Tid, ExitReturns(t) PROVE RingOK' /\ OwnContext' /\ KmainInv'
  BY <1>9, Constants DEF ExitReturns, ring, IInv, RingOK, Ring, OwnContext, KmainInv
<1>10. CASE Tick
  BY <1>6, <1>10, TickKeeps
<1> QED BY <1>1, <1>2, <1>3, <1>4, <1>5, <1>7, <1>8, <1>9, <1>10, StepKinds,
           ComputingKeeps DEF Boot, vars

(* Once current is set the boot is over. *)
LEMMA BootStep ==
  ASSUME IInv, [Next]_vars
  PROVE  BootInv'
<1>1. CASE ThreadCreate
  <2> DEFINE n == reg[Kmain]
             Idle(u) == state[u] = 0 /\ \A v \in Tid : v < u => state[v] # 0
  <2>1. /\ on = Kmain /\ at[Kmain] = "create" /\ n \in 1 .. MAX_THREADS /\ current = NULL
        /\ \A t \in Tid : IF t < n THEN state[t] = 1 /\ sp[t] = t ELSE state[t] = 0
    <3>1. on = Kmain /\ at[Kmain] = "create" /\ reg[Kmain] <= MAX_THREADS
      BY <1>1 DEF ThreadCreate, KmainIn
    <3>2. current = NULL /\ reg[Kmain] \in 1 .. MAX_THREADS + 1
      BY <3>1 DEF IInv, BootInv
    <3>3. \A t \in Tid : IF t < reg[Kmain] THEN state[t] = 1 /\ sp[t] = t ELSE state[t] = 0
      BY <3>1 DEF IInv, BootInv
    <3> QED BY <3>1, <3>2, <3>3, Constants
  <2>2. n \in Tid /\ \A u \in Tid : Idle(u) <=> u = n
    BY <2>1, Constants DEF Tid
  <2>3. (CHOOSE u \in Tid : Idle(u)) = n
    BY <2>2
  <2>4. state' = [state EXCEPT ![n] = 1] /\ sp' = [sp EXCEPT ![n] = n]
    BY <1>1, <2>3 DEF ThreadCreate
  <2>5. /\ reg'[Kmain] = n + 1 /\ at' = at /\ on' = on /\ current' = current
        /\ threads' = threads /\ thread_ids' = thread_ids
        /\ done' = [done EXCEPT ![n] = FALSE]
    BY <1>1, Constants DEF ThreadCreate, IInv, TypeOK
  <2>6. \A t \in Tid : IF t < n + 1 THEN state'[t] = 1 /\ sp'[t] = t ELSE state'[t] = 0
    BY <2>1, <2>4, Constants DEF IInv, TypeOK, Tid
  <2>7. \A t \in Tid : at'[t] = "entry" /\ ~done'[t]
    BY <2>1, <2>5 DEF IInv, BootInv, TypeOK
  <2> QED BY <2>1, <2>5, <2>6, <2>7, Constants DEF IInv, BootInv
<1>2. CASE BuildRunqueue
  <2>1. /\ on = Kmain /\ at[Kmain] = "create" /\ current = NULL
        /\ at' = [at EXCEPT ![Kmain] = "first"]
        /\ next' = RingNext /\ prev' = RingPrev
        /\ UNCHANGED <<on, sp, threads, current, done, thread_ids>>
        /\ \A t \in Tid : t < reg[Kmain]
    BY <1>2, Constants DEF BuildRunqueue, KmainIn, KmainGoes, IInv, BootInv, work, Tid
  <2>2. at'[Kmain] = "first" /\ \A t \in Tid : at'[t] = at[t]
    BY <2>1, Constants DEF IInv, TypeOK
  <2> QED BY <2>1, <2>2 DEF IInv, BootInv
<1>3. CASE current' # NULL /\ at'[Kmain] \notin {"create", "first"}
  BY <1>3 DEF BootInv
<1>4. CASE SetCurrent \/ LoadFirst \/ SwitchFirst
  <2>1. current' # NULL /\ at'[Kmain] \in {"load", "switch"}
    BY <1>4, Constants DEF SetCurrent, LoadFirst, SwitchFirst, KmainIn, KmainGoes, ring,
                           IInv, BootInv, TypeOK
  <2> QED BY <1>3, <2>1
<1>5. ASSUME NEW t \in Tid, on = t, at'[Kmain] = at[Kmain], current' # NULL PROVE BootInv'
  BY <1>3, <1>5, InThread
<1>6. ASSUME NEW t \in Tid, Yield(t) PROVE BootInv'
  <2>1. on = t /\ Switch(on)
    BY <1>6 DEF Yield, In
  <2>2. at'[Kmain] = at[Kmain]
    BY <1>6, Constants DEF Yield, Goes, IInv, TypeOK
  <2>3. current' # NULL
    BY <2>1, InThread, ScheduleRing, Constants
       DEF Switch, HaltThere, ring, LinkTypes, IInv, TypeOK, Ring
  <2> QED BY <1>5, <2>1, <2>2, <2>3
<1>7. ASSUME NEW t \in Tid, ExitDispatches(t) PROVE BootInv'
  <2>1. on = t /\ at' = at
    BY <1>7 DEF ExitDispatches, In
  <2>2. current' # NULL
    BY <1>7, <2>1, InThread, ScheduleRing, Constants
       DEF ExitDispatches, HaltThere, ring, LinkTypes, IInv, TypeOK, Ring
  <2> QED BY <1>5, <2>1, <2>2
<1>8. CASE Tick
  <2>1. current' # NULL
    BY <1>8, TickKeeps, ScheduleRing, Constants
       DEF Switch, HaltThere, ring, LinkTypes, IInv, TypeOK, Ring
  <2>2. at[Kmain] \notin {"create", "first"}
    BY <1>8, TickKeeps DEF IInv, BootInv
  <2> QED BY <1>3, <1>8, <2>1, <2>2, TickKeeps
<1>9. ASSUME NEW t \in Tid, Computing(t) \/ ExitReturns(t) PROVE BootInv'
  <2>1. on = t /\ at'[Kmain] = at[Kmain] /\ current' = current
    BY <1>9, ComputingKeeps DEF ExitReturns, In, ring
  <2> QED BY <1>5, <2>1, InThread
<1>10. CASE UNCHANGED vars
  BY <1>10 DEF vars, IInv, BootInv
<1> QED BY <1>1, <1>2, <1>4, <1>6, <1>7, <1>8, <1>9, <1>10, StepKinds DEF Boot

-----------------------------------------------------------------------------
(* Numbers *)

(* The types of the variables that hold no link and no context. *)
WorkTypes ==
  /\ at \in [Ctx -> ThreadAt \cup KmainAt]
  /\ \A c \in Ctx : at[c] \in IF c = Kmain THEN KmainAt ELSE ThreadAt
  /\ reg \in [Ctx -> Int]
  /\ zf \in [Tid -> BOOLEAN]
  /\ id \in [Tid -> 0 .. MAX_THREADS]
  /\ state \in [Tid -> {0, 1}]
  /\ done \in [Tid -> BOOLEAN]
  /\ counter \in [Tid -> 0 .. Wrap - 1]
  /\ thread_ids \in 1 .. MAX_THREADS + 1

StoreOK == \A t \in Tid : at[t] = "store" => reg[t] \in 0 .. Wrap - 1

(* The threads that have a number can be counted. *)
LEMMA NumberedFinite ==
  /\ IsFiniteSet(Numbered) /\ Cardinality(Numbered) \in Nat
  /\ Cardinality(Numbered) <= MAX_THREADS
<1>1. Numbered \in SUBSET Tid
  BY DEF Numbered
<1> QED BY <1>1, Constants, FS_Subset, FS_CardinalityType

(* A thread without a number finds one it can take. *)
LEMMA OneMoreNumber ==
  ASSUME NEW t \in Tid, t \notin Numbered
  PROVE  /\ Cardinality(Numbered \cup {t}) = Cardinality(Numbered) + 1
         /\ Cardinality(Numbered) + 1 <= MAX_THREADS
<1>1. Numbered \cup {t} \in SUBSET Tid
  BY DEF Numbered
<1>2. Cardinality(Numbered \cup {t}) = Cardinality(Numbered) + 1
  BY NumberedFinite, FS_AddElement
<1>3. Cardinality(Numbered \cup {t}) <= Cardinality(Tid)
  BY <1>1, Constants, FS_Subset
<1> QED BY <1>2, <1>3, Constants

(* Steps of boot and of the switches leave the numbers alone. *)
LEMMA NumbersKept ==
  ASSUME IInv, UNCHANGED <<id, thread_ids>>, \A t \in Tid : reg'[t] = reg[t],
         \A t \in Tid : \/ at'[t] = at[t]
                        \/ /\ at[t] \notin {"entry", "incr"}
                           /\ at'[t] \notin {"entry", "incr", "store"}
  PROVE  Numbered' = Numbered /\ NumberOK' /\ StoreOK'
<1>1. Numbered' = Numbered
  BY DEF Numbered
<1>2. \A t \in Tid : at'[t] = "incr" => at[t] = "incr"
  OBVIOUS
<1>3. \A t \in Tid : at'[t] = "store" => at[t] = "store"
  OBVIOUS
<1> QED BY <1>1, <1>2, <1>3 DEF IInv, NumberOK, StoreOK

(* Every step keeps the numbers in range, though thread_ids++ is two steps *)
(* with ticks between them. *)
LEMMA NumbersStep ==
  ASSUME IInv, [Next]_vars
  PROVE  NumberOK' /\ StoreOK'
<1> USE DEF In, Goes, Computes
<1>0. IInv /\ WorkTypes
  BY DEF IInv, TypeOK, WorkTypes
<1>1. CASE Boot
  <2>1. UNCHANGED <<id, thread_ids>> /\ \A t \in Tid : reg'[t] = reg[t] /\ at'[t] = at[t]
    BY <1>0, <1>1, Constants
       DEF Boot, ThreadCreate, BuildRunqueue, SetCurrent, LoadFirst, SwitchFirst,
           KmainGoes, work, WorkTypes
  <2> QED BY <2>1, NumbersKept
<1>2. ASSUME NEW t \in Tid, LoadId(t) PROVE NumberOK' /\ StoreOK'
  <2>1. /\ at[t] = "entry" /\ at' = [at EXCEPT ![t] = "incr"]
        /\ reg' = [reg EXCEPT ![t] = thread_ids] /\ UNCHANGED <<id, thread_ids>>
    BY <1>2 DEF LoadId, work
  <2>2. \A u \in Tid : /\ at'[u] = IF u = t THEN "incr" ELSE at[u]
                       /\ reg'[u] = IF u = t THEN thread_ids ELSE reg[u]
    BY <1>0, <2>1, Constants DEF WorkTypes
  <2>3. Numbered' = Numbered
    BY <2>1, <2>2 DEF Numbered
  <2>4. thread_ids \in 1 .. 1 + Cardinality(Numbered)
    BY <1>0, NumberedFinite DEF IInv, NumberOK, WorkTypes
  <2> QED BY <1>0, <2>1, <2>2, <2>3, <2>4 DEF IInv, NumberOK, StoreOK
<1>3. ASSUME NEW t \in Tid, StoreId(t) PROVE NumberOK' /\ StoreOK'
  <2>1. /\ at[t] = "incr" /\ at' = [at EXCEPT ![t] = "line"]
        /\ reg' = [reg EXCEPT ![t] = 0] /\ id' = [id EXCEPT ![t] = reg[t]]
        /\ thread_ids' = reg[t] + 1
    BY <1>3 DEF StoreId
  <2>2. \A u \in Tid : /\ at'[u] = IF u = t THEN "line" ELSE at[u]
                       /\ reg'[u] = IF u = t THEN 0 ELSE reg[u]
                       /\ id'[u] = IF u = t THEN reg[t] ELSE id[u]
    BY <1>0, <2>1, Constants DEF WorkTypes
  <2>3. Numbered' = Numbered \cup {t} /\ t \notin Numbered
    BY <2>1, <2>2 DEF Numbered
  <2>4. /\ reg[t] \in 1 .. 1 + Cardinality(Numbered)
        /\ Cardinality(Numbered') = Cardinality(Numbered) + 1
        /\ Cardinality(Numbered) + 1 <= MAX_THREADS /\ Cardinality(Numbered) \in Nat
    BY <1>0, <2>1, <2>3, OneMoreNumber, NumberedFinite DEF IInv, NumberOK
  <2>5. reg[t] \in Tid
    BY <2>4, Constants DEF Tid
  <2>6. thread_ids' <= 1 + Cardinality(Numbered')
    BY <2>1, <2>4
  <2>7. \A u \in Numbered' : id'[u] \in Tid
    <3>1. \A u \in Numbered : id[u] \in Tid
      BY DEF IInv, NumberOK
    <3> QED BY <2>2, <2>3, <2>5, <3>1 DEF Numbered
  <2>8. ASSUME NEW u \in Tid, at'[u] = "incr" PROVE reg'[u] \in 1 .. 1 + Cardinality(Numbered')
    <3>1. u # t /\ reg'[u] = reg[u] /\ at[u] = "incr"
      BY <2>2, <2>8
    <3>2. reg[u] \in 1 .. 1 + Cardinality(Numbered)
      BY <3>1 DEF IInv, NumberOK
    <3> QED BY <2>4, <3>1, <3>2
  <2>9. StoreOK'
    BY <2>2 DEF IInv, StoreOK
  <2> QED BY <2>6, <2>7, <2>8, <2>9 DEF NumberOK
<1>4. ASSUME NEW t \in Tid, LoadCounter(t) PROVE NumberOK' /\ StoreOK'
  <2>1. /\ at[t] = "count" /\ at' = [at EXCEPT ![t] = "store"]
        /\ reg' = [reg EXCEPT ![t] = (counter[id[t]] + 1) % Wrap]
        /\ UNCHANGED <<id, thread_ids>>
    BY <1>4 DEF LoadCounter, work
  <2>2. t \in Numbered
    BY <2>1 DEF Numbered
  <2>3. counter[id[t]] \in Nat
    BY <1>0, <2>2, Constants DEF IInv, NumberOK, WorkTypes
  <2>4. (counter[id[t]] + 1) % Wrap \in 0 .. Wrap - 1
    BY <2>3, Constants
  <2>5. \A u \in Tid : /\ at'[u] = IF u = t THEN "store" ELSE at[u]
                       /\ u # t => reg'[u] = reg[u]
                       /\ reg'[t] \in 0 .. Wrap - 1
    BY <1>0, <2>1, <2>4, Constants DEF WorkTypes
  <2>6. Numbered' = Numbered
    BY <2>1, <2>5 DEF Numbered
  <2> QED BY <2>1, <2>5, <2>6 DEF IInv, NumberOK, StoreOK
<1>5. ASSUME NEW t \in Tid,
             \/ PrintLine(t) \/ StoreCounter(t) \/ ReloadCounter(t) \/ Compare(t)
             \/ Branch(t) \/ SetDone(t) \/ ExitWaits(t)
      PROVE  NumberOK' /\ StoreOK'
  <2> DEFINE Places == {"yield", "count", "reload", "cmp", "branch", "finish", "line",
                        "exit", "hlt"}
             Moves(place) == /\ at[t] \notin {"entry", "incr"}
                             /\ at' = [at EXCEPT ![t] = place]
                             /\ UNCHANGED <<id, thread_ids>>
                             /\ \A u \in Tid \ {t} : reg'[u] = reg[u]
  <2>1. \E place \in Places : Moves(place)
    <3>1. CASE PrintLine(t)
      <4>1. Moves("yield") \/ Moves("count")
        BY <1>0, <3>1 DEF PrintLine, work
      <4> HIDE DEF Moves
      <4> QED BY <4>1
    <3>2. CASE StoreCounter(t)
      <4>1. Moves("reload")
        BY <1>0, <3>2 DEF StoreCounter
      <4> HIDE DEF Moves
      <4> QED BY <4>1
    <3>3. CASE ReloadCounter(t)
      <4>1. Moves("cmp")
        BY <1>0, <3>3 DEF ReloadCounter, work, WorkTypes
      <4> HIDE DEF Moves
      <4> QED BY <4>1
    <3>4. CASE Compare(t)
      <4>1. Moves("branch")
        BY <1>0, <3>4 DEF Compare, work, WorkTypes
      <4> HIDE DEF Moves
      <4> QED BY <4>1
    <3>5. CASE Branch(t)
      <4>1. Moves("finish") \/ Moves("line")
        BY <1>0, <3>5 DEF Branch, work
      <4> HIDE DEF Moves
      <4> QED BY <4>1
    <3>6. CASE SetDone(t) \/ ExitWaits(t)
      <4>1. Moves("exit") \/ Moves("hlt")
        BY <1>0, <3>6 DEF SetDone, ExitWaits, work
      <4> HIDE DEF Moves
      <4> QED BY <4>1
    <3> QED BY <1>5, <3>1, <3>2, <3>3, <3>4, <3>5, <3>6
  <2>2. /\ at[t] \notin {"entry", "incr"} /\ at'[t] \notin {"entry", "incr", "store"}
        /\ \A u \in Tid \ {t} : at'[u] = at[u]
        /\ UNCHANGED <<id, thread_ids>> /\ \A u \in Tid \ {t} : reg'[u] = reg[u]
    BY <1>0, <2>1, Constants DEF WorkTypes
  <2>3. Numbered' = Numbered
    BY <2>2 DEF Numbered
  <2>4. \A u \in Tid : at'[u] \in {"incr", "store"} => u # t
    BY <2>2
  <2> QED BY <2>2, <2>3, <2>4 DEF IInv, NumberOK, StoreOK
<1>6. ASSUME NEW t \in Tid, Yield(t) PROVE NumberOK' /\ StoreOK'
  <2>1. /\ at[t] \in {"yield", "again"} /\ UNCHANGED <<id, thread_ids, reg>>
        /\ \A u \in Tid : at'[u] = at[u] \/ (u = t /\ at'[u] \in {"again", "count"})
    BY <1>0, <1>6, Constants DEF Yield, work, WorkTypes
  <2> QED BY <2>1, NumbersKept
<1>7. ASSUME NEW t \in Tid, ExitDispatches(t) \/ ExitReturns(t) PROVE NumberOK' /\ StoreOK'
  BY <1>7, NumbersKept DEF ExitDispatches, ExitReturns, work
<1>8. CASE Tick
  <2>1. \A u \in Tid : at'[u] = at[u] \/ (at[u] = "hlt" /\ at'[u] = "woken")
    BY <1>0, <1>8, TickKeeps, Constants DEF WorkTypes
  <2> QED BY <1>8, <2>1, TickKeeps, NumbersKept
<1>9. CASE UNCHANGED vars
  BY <1>9, NumbersKept DEF vars
<1> QED BY <1>1, <1>2, <1>3, <1>4, <1>5, <1>6, <1>7, <1>8, <1>9, StepKinds DEF Computing

-----------------------------------------------------------------------------
(* Types *)

(* Every step keeps the types of the CPU, the TCBs and the run queue. *)
LEMMA LinkTypesStep ==
  ASSUME IInv, [Next]_vars
  PROVE  /\ FIFOS' = FIFOS /\ LinkTypes'
         /\ on' \in Ctx \cup {Wild, Halted} /\ sp' \in [Tid -> Ctx \cup {Stale}]
<1>0. /\ LinkTypes /\ on \in Ctx \cup {Wild, Halted} /\ sp \in [Tid -> Ctx \cup {Stale}]
      /\ RingOK
  BY DEF IInv, TypeOK, LinkTypes
<1>1. FIFOS' = FIFOS
  BY ComputingKeeps, StepKinds
     DEF Boot, ThreadCreate, BuildRunqueue, SetCurrent, LoadFirst, SwitchFirst, Yield,
         ExitDispatches, ExitReturns, Tick, vars
<1>2. CASE UNCHANGED <<on, sp, next, prev, current, threads>>
  BY <1>0, <1>1, <1>2 DEF LinkTypes
<1>3. CASE ThreadCreate
  <2>1. on' = on /\ UNCHANGED <<prev, current, threads>>
        /\ (\E t : next' = [next EXCEPT ![t] = NULL] /\ sp' = [sp EXCEPT ![t] = t])
    BY <1>3 DEF ThreadCreate
  <2>2. next' \in [Tid -> Tid \cup {NULL}]
    BY <1>0, <2>1 DEF LinkTypes
  <2>3. sp' \in [Tid -> Ctx \cup {Stale}]
    <3>1. PICK t : sp' = [sp EXCEPT ![t] = t]
      BY <2>1
    <3>2. t \in Tid => t \in Ctx
      BY DEF Ctx
    <3> QED BY <1>0, <3>1, <3>2
  <2> QED BY <1>0, <1>1, <2>1, <2>2, <2>3 DEF LinkTypes
<1>4. CASE BuildRunqueue
  <2>1. RingNext \in [Tid -> Tid] /\ RingPrev \in [Tid -> Tid]
    BY Constants DEF RingNext, RingPrev, Tid
  <2> QED BY <1>0, <1>1, <1>4, <2>1 DEF BuildRunqueue, LinkTypes
<1>5. CASE SetCurrent \/ LoadFirst
  BY <1>0, <1>1, <1>5, Constants DEF SetCurrent, LoadFirst, ring, LinkTypes
<1>6. CASE SwitchFirst
  <2>1. on' \in {1, Stale} /\ sp' = [sp EXCEPT ![current] = Stale] /\ UNCHANGED ring
    BY <1>6 DEF SwitchFirst, KmainIn, IInv, KmainInv
  <2> QED BY <1>0, <1>1, <2>1, Constants DEF ring, LinkTypes
<1>7. ASSUME on \in Ctx, current # NULL, Switch(on)
      PROVE  /\ LinkTypes' /\ on' \in Ctx \cup {Wild, Halted}
             /\ sp' \in [Tid -> Ctx \cup {Stale}]
  BY <1>7, Switched
<1>8. ASSUME NEW t \in Tid, Yield(t)
      PROVE  /\ LinkTypes' /\ on' \in Ctx \cup {Wild, Halted}
             /\ sp' \in [Tid -> Ctx \cup {Stale}]
  BY <1>7, <1>8, InThread DEF Yield, In
<1>9. ASSUME NEW t \in Tid, ExitDispatches(t)
      PROVE  /\ LinkTypes' /\ on' \in Ctx \cup {Wild, Halted}
             /\ sp' \in [Tid -> Ctx \cup {Stale}]
  <2>1. current # NULL
    BY <1>9, InThread DEF ExitDispatches, In
  <2>2. CASE (Rotate \/ Unlink) /\ Resume(sp)
    <3>1. current' \in Ring' /\ LinkTypes'
      BY <1>0, <2>1, <2>2, ScheduleRing
    <3>2. current' \in Tid
      BY <3>1 DEF Ring
    <3> QED BY <1>0, <2>2, <3>1, <3>2, Constants DEF Resume
  <2>3. CASE HaltThere /\ UNCHANGED sp
    BY <1>0, <2>3 DEF HaltThere, ring, LinkTypes
  <2> QED BY <1>9, <2>2, <2>3 DEF ExitDispatches
<1>10. ASSUME NEW t \in Tid, ExitReturns(t)
       PROVE  /\ LinkTypes' /\ on' \in Ctx \cup {Wild, Halted}
              /\ sp' \in [Tid -> Ctx \cup {Stale}]
  BY <1>0, <1>10 DEF ExitReturns, ring, LinkTypes
<1>11. CASE Tick
  BY <1>1, <1>7, <1>11, TickKeeps
<1> QED BY <1>1, <1>2, <1>3, <1>4, <1>5, <1>6, <1>8, <1>9, <1>10, <1>11, StepKinds,
           ComputingKeeps DEF Boot, vars

(* Every step keeps the types of what the threads compute. *)
LEMMA WorkTypesStep ==
  ASSUME IInv, [Next]_vars
  PROVE  WorkTypes'
<1> USE DEF In, Goes, Computes
<1>0. WorkTypes
  BY DEF IInv, TypeOK, WorkTypes
<1>a. ASSUME NEW c, NEW v \in Int, reg' = [reg EXCEPT ![c] = v]
      PROVE  reg' \in [Ctx -> Int]
  <2>1. reg \in [Ctx -> Int]
    BY <1>0 DEF WorkTypes
  <2> QED BY <1>a, <2>1
<1>b. 0 \in Int
  OBVIOUS
<1>1. ASSUME NEW c \in Ctx, NEW place, at' = [at EXCEPT ![c] = place],
             place \in IF c = Kmain THEN KmainAt ELSE ThreadAt
      PROVE  /\ at' \in [Ctx -> ThreadAt \cup KmainAt]
             /\ \A d \in Ctx : at'[d] \in IF d = Kmain THEN KmainAt ELSE ThreadAt
  BY <1>0, <1>1 DEF WorkTypes
<1>2. ASSUME NEW t \in Tid, NEW place \in ThreadAt, at' = [at EXCEPT ![t] = place]
      PROVE  /\ at' \in [Ctx -> ThreadAt \cup KmainAt]
             /\ \A d \in Ctx : at'[d] \in IF d = Kmain THEN KmainAt ELSE ThreadAt
  BY <1>1, <1>2, Constants
<1>3. CASE ThreadCreate
  <2>1. UNCHANGED <<at, zf, id, counter, thread_ids>>
        /\ (\E t : state' = [state EXCEPT ![t] = 1])
        /\ done' = [done EXCEPT ![reg[Kmain]] = FALSE]
        /\ reg' = [reg EXCEPT ![Kmain] = reg[Kmain] + 1]
    BY <1>3 DEF ThreadCreate
  <2>2. reg[Kmain] \in Int
    BY <1>0, Constants DEF WorkTypes
  <2>3. reg' \in [Ctx -> Int]
    <3>1. reg[Kmain] + 1 \in Int
      BY <2>2
    <3> QED BY <1>a, <2>1, <3>1, Zenon
  <2>4. state' \in [Tid -> {0, 1}] /\ done' \in [Tid -> BOOLEAN]
    BY <1>0, <2>1 DEF WorkTypes
  <2> QED BY <1>0, <2>1, <2>3, <2>4 DEF WorkTypes
<1>4. CASE BuildRunqueue
  BY <1>0, <1>1, <1>4, Constants DEF BuildRunqueue, KmainGoes, KmainAt, work, WorkTypes
<1>5. CASE SetCurrent
  BY <1>0, <1>1, <1>5, Constants DEF SetCurrent, KmainGoes, KmainAt, work, WorkTypes
<1>6. CASE LoadFirst
  <2>1. sp[current] \in Int
    <3>1. current \in Tid
      BY <1>6, Constants DEF LoadFirst, KmainIn, IInv, BootInv, TypeOK
    <3>2. sp[current] \in Ctx \cup {Stale}
      BY <3>1 DEF IInv, TypeOK
    <3>3. Ctx \cup {Stale} \subseteq Int
      BY Constants
    <3> QED BY <3>2, <3>3
  <2>2. UNCHANGED <<zf, id, state, done, counter, thread_ids>>
        /\ reg' = [reg EXCEPT ![Kmain] = sp[current]]
    BY <1>6 DEF LoadFirst, work
  <2>3. /\ at' \in [Ctx -> ThreadAt \cup KmainAt]
        /\ \A d \in Ctx : at'[d] \in IF d = Kmain THEN KmainAt ELSE ThreadAt
    BY <1>1, <1>6, Constants DEF LoadFirst, KmainGoes, KmainAt
  <2> QED BY <1>0, <2>1, <2>2, <2>3 DEF WorkTypes
<1>7. CASE SwitchFirst \/ UNCHANGED vars
  BY <1>0, <1>7 DEF SwitchFirst, vars, work, WorkTypes
<1>8. ASSUME NEW t \in Tid, LoadId(t) PROVE WorkTypes'
  <2>1. "incr" \in ThreadAt /\ thread_ids \in Int
    BY <1>0, Constants DEF ThreadAt, WorkTypes
  <2> QED BY <1>0, <1>2, <1>8, <2>1 DEF LoadId, work, WorkTypes
<1>9. ASSUME NEW t \in Tid, StoreId(t) PROVE WorkTypes'
  <2>1. "line" \in ThreadAt
    BY DEF ThreadAt
  <2>2. reg[t] \in 1 .. MAX_THREADS
    <3>1. at[t] = "incr" /\ t \notin Numbered
      BY <1>9 DEF StoreId, Numbered
    <3>2. reg[t] \in 1 .. 1 + Cardinality(Numbered)
      BY <3>1 DEF IInv, NumberOK
    <3>3. Cardinality(Numbered) + 1 <= MAX_THREADS /\ Cardinality(Numbered) \in Nat
      BY <3>1, OneMoreNumber, NumberedFinite
    <3> QED BY <3>2, <3>3, Constants
  <2>3. id' \in [Tid -> 0 .. MAX_THREADS] /\ thread_ids' \in 1 .. MAX_THREADS + 1
    BY <1>0, <1>9, <2>2, Constants DEF StoreId, WorkTypes
  <2>4. UNCHANGED <<zf, state, done, counter>> /\ reg' \in [Ctx -> Int]
    <3>1. UNCHANGED <<zf, state, done, counter>> /\ reg' = [reg EXCEPT ![t] = 0]
      BY <1>9 DEF StoreId
    <3> QED BY <1>a, <1>b, <3>1, Zenon
  <2>5. /\ at' \in [Ctx -> ThreadAt \cup KmainAt]
        /\ \A d \in Ctx : at'[d] \in IF d = Kmain THEN KmainAt ELSE ThreadAt
    BY <1>2, <1>9, <2>1 DEF StoreId
  <2> QED BY <1>0, <2>3, <2>4, <2>5 DEF WorkTypes
<1>10. ASSUME NEW t \in Tid, PrintLine(t) PROVE WorkTypes'
  <2>1. "yield" \in ThreadAt /\ "count" \in ThreadAt
    BY DEF ThreadAt
  <2> QED BY <1>0, <1>2, <1>10, <2>1 DEF PrintLine, work, WorkTypes
<1>11. ASSUME NEW t \in Tid, Yield(t) PROVE WorkTypes'
  <2>1. "again" \in ThreadAt /\ "count" \in ThreadAt
    BY DEF ThreadAt
  <2> QED BY <1>0, <1>2, <1>11, <2>1 DEF Yield, work, WorkTypes
<1>12. ASSUME NEW t \in Tid, LoadCounter(t) \/ ReloadCounter(t) PROVE WorkTypes'
  <2>1. "store" \in ThreadAt /\ "cmp" \in ThreadAt
    BY DEF ThreadAt
  <2>2. at[t] \in {"count", "reload"}
    BY <1>12 DEF LoadCounter, ReloadCounter
  <2>3. counter[id[t]] \in Nat
    BY <1>0, <2>2, Constants DEF IInv, NumberOK, Numbered, WorkTypes
  <2>4. (counter[id[t]] + 1) % Wrap \in Int /\ counter[id[t]] \in Int
    BY <2>3, Constants
  <2> QED BY <1>0, <1>2, <1>12, <2>1, <2>4 DEF LoadCounter, ReloadCounter, work, WorkTypes
<1>13. ASSUME NEW t \in Tid, StoreCounter(t) PROVE WorkTypes'
  <2>1. "reload" \in ThreadAt
    BY DEF ThreadAt
  <2>2. reg[t] \in 0 .. Wrap - 1
    BY <1>13 DEF StoreCounter, IInv
  <2> QED BY <1>0, <1>2, <1>13, <2>1, <2>2 DEF StoreCounter, WorkTypes
<1>14. ASSUME NEW t \in Tid, Compare(t) PROVE WorkTypes'
  <2>1. "branch" \in ThreadAt
    BY DEF ThreadAt
  <2>2. (reg[t] = ROUNDS) \in BOOLEAN
    OBVIOUS
  <2>3. zf' \in [Tid -> BOOLEAN]
    BY <1>0, <1>14, <2>2, Zenon DEF Compare, WorkTypes
  <2>4. reg' = [reg EXCEPT ![t] = 0]
    BY <1>14 DEF Compare
  <2>5. reg' \in [Ctx -> Int]
    BY <1>a, <1>b, <2>4, Zenon
  <2> QED BY <1>0, <1>2, <1>14, <2>1, <2>3, <2>5 DEF Compare, work, WorkTypes
<1>15. ASSUME NEW t \in Tid, Branch(t) PROVE WorkTypes'
  <2>1. "finish" \in ThreadAt /\ "line" \in ThreadAt
    BY DEF ThreadAt
  <2> QED BY <1>0, <1>2, <1>15, <2>1 DEF Branch, work, WorkTypes
<1>16. ASSUME NEW t \in Tid, SetDone(t) PROVE WorkTypes'
  <2>1. "exit" \in ThreadAt
    BY DEF ThreadAt
  <2> QED BY <1>0, <1>2, <1>16, <2>1 DEF SetDone, WorkTypes
<1>17. ASSUME NEW t \in Tid, ExitWaits(t) PROVE WorkTypes'
  <2>1. "hlt" \in ThreadAt
    BY DEF ThreadAt
  <2> QED BY <1>0, <1>2, <1>17, <2>1 DEF ExitWaits, work, WorkTypes
<1>18. ASSUME NEW t \in Tid, ExitDispatches(t) \/ ExitReturns(t) PROVE WorkTypes'
  BY <1>0, <1>18 DEF ExitDispatches, ExitReturns, work, WorkTypes
<1>19. CASE Tick
  <2>1. "woken" \in ThreadAt
    BY DEF ThreadAt
  <2>2. zf' \in [Tid -> BOOLEAN]
    BY <1>0, <1>19 DEF Tick, WorkTypes
  <2>3. /\ at' \in [Ctx -> ThreadAt \cup KmainAt]
        /\ \A d \in Ctx : at'[d] \in IF d = Kmain THEN KmainAt ELSE ThreadAt
    BY <1>0, <1>2, <1>19, <2>1, TickKeeps DEF WorkTypes
  <2> QED BY <1>0, <1>19, <2>2, <2>3, TickKeeps DEF WorkTypes
<1> QED BY <1>3, <1>4, <1>5, <1>6, <1>7, <1>8, <1>9, <1>10, <1>11, <1>12, <1>13, <1>14,
           <1>15, <1>16, <1>17, <1>18, <1>19, StepKinds DEF Boot, Computing

-----------------------------------------------------------------------------
(* Threads that yield *)

(* A thread past its first lines with FIFOS = 1: all have their numbers. *)
LEMMA AllNumbered ==
  ASSUME IInv, FIFOS = 1, NEW t \in Tid, on = t,
         at[t] \notin {"entry", "incr", "line", "yield"}
  PROVE  Numbered = Tid
BY InThread DEF IInv, YieldInv

(* Every step keeps the order in which yielding threads take their numbers *)
(* and set their flags. *)
LEMMA YieldStep ==
  ASSUME IInv, [Next]_vars
  PROVE  YieldInv'
<1> SUFFICES ASSUME FIFOS' = 1, current' # NULL PROVE YieldInv'
  BY DEF YieldInv
<1> USE DEF In, Goes, Computes
<1>0. WorkTypes /\ FIFOS = 1 /\ YieldInv
  BY LinkTypesStep DEF IInv, TypeOK, WorkTypes
<1>1. CASE UNCHANGED <<at, id, done, next, current, thread_ids>>
           /\ \A t \in Tid : reg'[t] = reg[t]
  BY <1>0, <1>1, Constants DEF YieldInv, Numbered, IInv, TypeOK
<1>2. CASE Boot
  <2>1. CASE ThreadCreate \/ BuildRunqueue
    <3>1. current' = NULL
      BY <2>1 DEF ThreadCreate, BuildRunqueue, KmainIn, IInv, BootInv
    <3> QED BY <3>1
  <2>2. CASE SetCurrent
    <3>1. /\ current' = 1 /\ next' = RingNext /\ thread_ids' = 1
          /\ \A t \in Tid : at'[t] = "entry" /\ ~done'[t]
      BY <1>0, <2>2, Constants
         DEF SetCurrent, KmainIn, KmainGoes, IInv, BootInv, work, WorkTypes
    <3> QED BY <3>1, Constants DEF YieldInv, Numbered, Tid
  <2>3. CASE LoadFirst \/ SwitchFirst
    <3>1. /\ UNCHANGED <<id, done, next, current, thread_ids>>
          /\ \A t \in Tid : reg'[t] = reg[t] /\ at'[t] = at[t]
      BY <1>0, <2>3, Constants DEF LoadFirst, SwitchFirst, KmainGoes, ring, work, WorkTypes
    <3> QED BY <1>0, <3>1, Constants DEF YieldInv, Numbered, IInv, TypeOK
  <2> QED BY <1>2, <2>1, <2>2, <2>3 DEF Boot
<1>3. ASSUME NEW t \in Tid, Computing(t) PROVE YieldInv'
  <2>0. /\ on = t /\ current = t /\ current # NULL /\ UNCHANGED <<next, current>>
        /\ \A u \in Tid \ {t} : at'[u] = at[u] /\ reg'[u] = reg[u]
    BY <1>3, ComputingKeeps, InThread
  <2>1. CASE LoadId(t)
    <3>1. /\ at[t] = "entry" /\ at'[t] = "incr" /\ reg'[t] = thread_ids
          /\ UNCHANGED <<id, done, thread_ids>>
      BY <1>0, <2>1, Constants DEF LoadId, work, WorkTypes
    <3>2. Numbered' = Numbered /\ t \notin Numbered
      BY <2>0, <3>1 DEF Numbered
    <3> QED BY <1>0, <2>0, <3>1, <3>2 DEF YieldInv
  <2>2. CASE StoreId(t)
    <3>1. /\ at[t] = "incr" /\ at'[t] = "line" /\ thread_ids' = reg[t] + 1
          /\ id' = [id EXCEPT ![t] = reg[t]] /\ UNCHANGED done
      BY <1>0, <2>2, Constants DEF StoreId, WorkTypes
    <3>2. Numbered' = Numbered \cup {t} /\ t \notin Numbered
      BY <2>0, <3>1 DEF Numbered
    <3>3. reg[t] = t
      BY <1>0, <2>0, <3>1, <3>2 DEF YieldInv
    <3>4. \A u \in Numbered' : id'[u] = u
      BY <1>0, <2>0, <3>1, <3>2, <3>3 DEF YieldInv, WorkTypes, Numbered
    <3> QED BY <1>0, <2>0, <3>1, <3>2, <3>3, <3>4 DEF YieldInv
  <2>3. CASE PrintLine(t)
    <3>1. /\ at[t] = "line" /\ at'[t] = "yield" /\ UNCHANGED <<id, done, thread_ids>>
      BY <1>0, <2>3, Constants DEF PrintLine, work, WorkTypes
    <3>2. Numbered' = Numbered
      BY <2>0, <3>1 DEF Numbered
    <3> QED BY <1>0, <2>0, <3>1, <3>2 DEF YieldInv
  <2>4. CASE SetDone(t)
    <3>1. /\ at[t] = "finish" /\ at'[t] = "exit" /\ UNCHANGED <<id, thread_ids>>
          /\ done' = [done EXCEPT ![id[t]] = TRUE]
      BY <1>0, <2>4, Constants DEF SetDone, WorkTypes
    <3>2. Numbered' = Tid /\ Numbered = Tid
      BY <1>0, <2>0, <3>1, AllNumbered DEF Numbered
    <3>3. id[t] = t
      BY <1>0, <2>0, <3>2 DEF YieldInv
    <3>4. \A u \in Tid : done'[u] <=> at'[u] = "exit"
      BY <1>0, <2>0, <3>1, <3>3 DEF YieldInv, WorkTypes
    <3> QED BY <1>0, <2>0, <3>1, <3>2, <3>4 DEF YieldInv
  <2>5. CASE LoadCounter(t) \/ StoreCounter(t) \/ ReloadCounter(t) \/ Compare(t) \/ Branch(t)
    <3>1. /\ at[t] \in {"count", "store", "reload", "cmp", "branch"}
          /\ at'[t] \in {"store", "reload", "cmp", "branch", "finish", "line"}
          /\ UNCHANGED <<id, done>>
      BY <1>0, <2>5, Constants
         DEF LoadCounter, StoreCounter, ReloadCounter, Compare, Branch, work, WorkTypes
    <3>2. Numbered' = Tid /\ Numbered = Tid
      BY <1>0, <2>0, <3>1, AllNumbered DEF Numbered
    <3> QED BY <1>0, <2>0, <3>1, <3>2 DEF YieldInv
  <2>6. CASE ExitWaits(t)
    BY <1>0, <2>6 DEF ExitWaits
  <2> QED BY <1>3, <2>1, <2>2, <2>3, <2>4, <2>5, <2>6 DEF Computing
<1>4. ASSUME NEW t \in Tid, Yield(t) PROVE YieldInv'
  <2>0. /\ on = t /\ current = t /\ current # NULL /\ Switch(t)
        /\ at[t] \in {"yield", "again"} /\ UNCHANGED <<id, done, thread_ids, reg>>
        /\ at'[t] = (IF at[t] = "yield" THEN "again" ELSE "count")
        /\ \A u \in Tid \ {t} : at'[u] = at[u]
    BY <1>0, <1>4, InThread, Constants DEF Yield, work, WorkTypes
  <2>1. Rotate
    BY <1>0, <2>0 DEF Switch, Unlink, HaltThere, YieldInv
  <2>2. Numbered' = Numbered
    BY <2>0 DEF Numbered
  <2>3. CASE Numbered = Tid
    BY <1>0, <2>0, <2>2, <2>3 DEF YieldInv
  <2>4. CASE Numbered # Tid
    <3>1. at[t] = "yield" /\ at'[t] = "again" /\ next = RingNext /\ thread_ids = t + 1
      BY <1>0, <2>0, <2>4 DEF YieldInv
    <3>2. PICK u \in Tid : at[u] \in {"entry", "incr"}
      BY <2>4 DEF Numbered
    <3>3. t < u
      BY <1>0, <2>0, <2>4, <3>1, <3>2, Constants DEF YieldInv
    <3>4. t # MAX_THREADS /\ t + 1 \in Tid
      BY <3>3, Constants DEF Tid
    <3>5. current' = t + 1 /\ next' = RingNext
      BY <2>0, <2>1, <3>1, <3>4 DEF Rotate, RingNext
    <3>6. \A v \in Tid : /\ (v < t + 1 => at'[v] = "again")
                         /\ (v > t + 1 => at'[v] = "entry")
      BY <1>0, <2>0, <2>4, <3>1, Constants DEF YieldInv, Tid
    <3>7. at'[t + 1] = "entry"
      BY <1>0, <2>0, <2>4, <3>1, <3>4, Constants DEF YieldInv
    <3> QED BY <1>0, <2>0, <2>2, <3>1, <3>5, <3>6, <3>7 DEF YieldInv
  <2> QED BY <2>3, <2>4
<1>5. ASSUME NEW t \in Tid, ExitDispatches(t) \/ ExitReturns(t) PROVE YieldInv'
  <2>1. /\ on = t /\ at[t] \in {"exit", "woken"} /\ current # NULL
        /\ UNCHANGED <<at, id, done, thread_ids, reg>>
    BY <1>5, InThread DEF ExitDispatches, ExitReturns, work
  <2>2. Numbered' = Tid /\ Numbered = Tid
    BY <1>0, <2>1, AllNumbered DEF Numbered
  <2> QED BY <1>0, <2>1, <2>2 DEF YieldInv
<1>6. CASE Tick
  BY <1>0, <1>6, TickKeeps
<1>7. CASE UNCHANGED vars
  BY <1>1, <1>7 DEF vars
<1> QED BY <1>2, <1>3, <1>4, <1>5, <1>6, <1>7, StepKinds

-----------------------------------------------------------------------------
(* Theorems *)

(* Every step keeps the inductive invariant. *)
LEMMA InvStays ==
  ASSUME IInv, [Next]_vars
  PROVE  IInv'
<1>1. TypeOK'
  BY LinkTypesStep, WorkTypesStep DEF IInv, TypeOK, LinkTypes, WorkTypes
<1> QED BY <1>1, BootStep, ContextsStep, NumbersStep, YieldStep DEF IInv, StoreOK

(* In every state the run queue is one ring of resumable threads, numbers  *)
(* are in range, and boot and yields are in their order: the invariant the *)
(* theorems below follow from. *)
THEOREM Invariance == Spec => []IInv
<1>1. IInv /\ [Next]_vars => IInv'
  BY InvStays
<1> QED BY <1>1, InitInv, PTL DEF Spec

(* The variables keep their types: no number, index or pointer leaves its  *)
(* range, at whatever instructions the ticks come. *)
THEOREM TypeCorrect == Spec => []TypeOK
<1>1. IInv => TypeOK
  BY DEF IInv
<1> QED BY <1>1, Invariance, PTL

(* The run queue of the kernel is one ring of `threads' threads, linked    *)
(* both ways, whatever is unlinked from it and when. *)
THEOREM OneRunQueue == Spec => []RingOK
<1>1. IInv => RingOK
  BY DEF IInv
<1> QED BY <1>1, Invariance, PTL

(* dispatcher, exit_thread and the timer resume each thread of the run     *)
(* queue on its own stack. *)
THEOREM OwnStacks == Spec => []OwnContext
<1>1. IInv => OwnContext
  BY DEF IInv
<1> QED BY <1>1, Invariance, PTL

(* thread_ids++ may hand out a number twice, but none outside the arrays.  *)
THEOREM NumbersInRange == Spec => []NumberOK
<1>1. IInv => NumberOK
  BY DEF IInv
<1> QED BY <1>1, Invariance, PTL

(* A thread that schedule() has unlinked stays unlinked and never becomes  *)
(* current again. *)
THEOREM NeverBack == Spec => LeftForGood
<1> DEFINE Stays == \A t \in Tid \ Ring :
                      current # NULL => t \notin Ring' /\ current' # t
<1>1. IInv /\ [Next]_vars => Stays
  <2> SUFFICES ASSUME IInv, [Next]_vars, current # NULL
               PROVE  Ring' \subseteq Ring /\ current' \in Ring
    OBVIOUS
  <2>1. CASE UNCHANGED <<next, prev, current>>
    BY <2>1 DEF IInv, RingOK, Ring
  <2>2. CASE Rotate \/ Unlink
    BY <2>2, ScheduleRing DEF IInv, TypeOK, LinkTypes
  <2>3. CASE Boot
    BY <2>1, <2>3 DEF Boot, ThreadCreate, BuildRunqueue, SetCurrent, LoadFirst, SwitchFirst,
                      KmainIn, ring, IInv, BootInv
  <2>4. ASSUME NEW c, Switch(c) PROVE Ring' \subseteq Ring /\ current' \in Ring
    BY <2>1, <2>2, <2>4 DEF Switch, HaltThere, ring
  <2>5. ASSUME NEW t \in Tid, Computing(t) \/ ExitDispatches(t) \/ ExitReturns(t)
        PROVE  Ring' \subseteq Ring /\ current' \in Ring
    BY <2>1, <2>2, <2>5, ComputingKeeps DEF ExitDispatches, ExitReturns, HaltThere, ring
  <2> QED BY <2>1, <2>3, <2>4, <2>5, StepKinds DEF Yield, Tick, vars
<1> QED BY <1>1, Invariance, PTL DEF Spec, LeftForGood

-----------------------------------------------------------------------------
(* The halt *)

(* A thread that has left its loop has left it for good, and keeps its     *)
(* number; done[] changes in kmain, and where a thread sets its own.       *)
LEMMA FinishedStays ==
  ASSUME IInv, [Next]_vars
  PROVE  /\ \A t \in Tid : Finished(t) => Finished(t)' /\ id'[t] = id[t]
         /\ \/ done' = done
            \/ /\ current = NULL /\ current' = NULL
               /\ \A i \in Tid : ~done'[i]
            \/ \E t \in Tid : /\ SetDone(t) /\ Finished(t)' /\ id' = id
                             /\ done' = [done EXCEPT ![id[t]] = TRUE]
<1>0. /\ at \in [Ctx -> ThreadAt \cup KmainAt] /\ Tid \subseteq Ctx
      /\ Kmain \notin Tid /\ id \in [Tid -> 0 .. MAX_THREADS] /\ done \in [Tid -> BOOLEAN]
  BY Constants DEF IInv, TypeOK
<1>1. CASE Boot
  <2>1. \A t \in Tid : at'[t] = at[t] /\ id'[t] = id[t]
    BY <1>0, <1>1 DEF Boot, ThreadCreate, BuildRunqueue, SetCurrent, LoadFirst, SwitchFirst, KmainGoes
  <2>2. CASE ThreadCreate
    <3>1. current = NULL /\ current' = NULL /\ \A i \in Tid : ~done[i]
      BY <2>2 DEF ThreadCreate, KmainIn, IInv, BootInv
    <3>2. \A i \in Tid : ~done'[i]
      BY <1>0, <2>2, <3>1 DEF ThreadCreate
    <3> QED BY <2>1, <3>1, <3>2 DEF Finished
  <2>3. CASE ~ThreadCreate
    <3>1. done' = done
      BY <1>1, <2>3 DEF Boot, BuildRunqueue, SetCurrent, LoadFirst, SwitchFirst, work
    <3> QED BY <2>1, <3>1 DEF Finished
  <2> QED BY <2>2, <2>3
<1>2. ASSUME NEW u \in Tid, Computing(u), ~SetDone(u), ~ExitWaits(u)
      PROVE  done' = done /\ \A t \in Tid : Finished(t) => Finished(t)' /\ id'[t] = id[t]
  <2>1. /\ done' = done /\ ~Finished(u)
        /\ \A t \in Tid \ {u} : at'[t] = at[t] /\ id'[t] = id[t]
    BY <1>0, <1>2, ComputingKeeps
       DEF Computing, LoadId, StoreId, PrintLine, LoadCounter, StoreCounter,
           ReloadCounter, Compare, Branch, In, work, Finished
  <2> QED BY <2>1 DEF Finished
<1>3. ASSUME NEW u \in Tid, SetDone(u)
      PROVE  /\ Finished(u)' /\ id' = id /\ done' = [done EXCEPT ![id[u]] = TRUE]
             /\ \A t \in Tid : Finished(t) => Finished(t)'
  BY <1>0, <1>3 DEF SetDone, Goes, Finished
<1>4. ASSUME NEW u \in Tid, ExitWaits(u)
      PROVE  /\ done' = done /\ id' = id
             /\ \A t \in Tid : Finished(t) => Finished(t)'
  BY <1>0, <1>4 DEF ExitWaits, Goes, Finished, work
<1>5. ASSUME NEW u \in Tid, Yield(u)
      PROVE  /\ done' = done /\ id' = id
             /\ \A t \in Tid : Finished(t) => Finished(t)'
  BY <1>0, <1>5 DEF Yield, In, Goes, Finished, work
<1>6. ASSUME NEW u \in Tid, ExitDispatches(u) \/ ExitReturns(u)
      PROVE  done' = done /\ id' = id /\ at' = at
  BY <1>6 DEF ExitDispatches, ExitReturns, work
<1>7. CASE Tick
  <2>1. \A t \in Tid : Finished(t) => Finished(t)'
    BY <1>0, <1>7, TickKeeps DEF Finished
  <2> QED BY <1>7, <2>1, TickKeeps
<1>8. CASE UNCHANGED vars
  BY <1>8 DEF vars, Finished
<1>9. ASSUME NEW u \in Tid, Computing(u) PROVE SetDone(u) \/ ExitWaits(u) \/ (~SetDone(u) /\ ~ExitWaits(u))
  OBVIOUS
<1>10. ASSUME at' = at PROVE \A t \in Tid : Finished(t) => Finished(t)'
  BY <1>10 DEF Finished
<1> QED BY <1>1, <1>2, <1>3, <1>4, <1>5, <1>6, <1>7, <1>8, <1>10, StepKinds

(* What a switch does to the ring, to the CPU and to who is out of it.     *)
LEMMA SwitchHalts ==
  ASSUME LinkTypes, RingOK, current # NULL,
         NEW saved \in [Tid -> Ctx \cup {Stale}],
         ((Rotate \/ Unlink) /\ Resume(saved)) \/ HaltThere
  PROVE  /\ Ring' = Ring \/ (done[current] /\ Ring' = Ring \ {current})
         /\ on' = Halted => done[current] /\ threads = 1 /\ UNCHANGED ring
<1>1. CASE (Rotate \/ Unlink) /\ Resume(saved)
  <2>1. current' \in Tid
    BY <1>1, ScheduleRing DEF LinkTypes, Ring
  <2>2. on' # Halted
    BY <1>1, <2>1, Constants DEF Resume
  <2> QED BY <1>1, <2>2, ScheduleRing DEF Unlink
<1>2. CASE HaltThere
  BY <1>2 DEF HaltThere, ring, Ring
<1> QED BY <1>1, <1>2

(* Every step keeps what the halt rests on. *)
LEMMA HaltStays ==
  ASSUME IInv, HaltInv, [Next]_vars
  PROVE  HaltInv'
<1>0. /\ LinkTypes /\ RingOK /\ sp \in [Tid -> Ctx \cup {Stale}]
      /\ id \in [Tid -> 0 .. MAX_THREADS] /\ done \in [Tid -> BOOLEAN]
  BY DEF IInv, TypeOK, LinkTypes
<1>1. ASSUME NEW i \in Tid, done'[i] PROVE \E t \in Tid : Finished(t)' /\ id'[t] = i
  <2>1. CASE done[i]
    <3>1. PICK t \in Tid : Finished(t) /\ id[t] = i
      BY <2>1 DEF HaltInv
    <3> QED BY <3>1, FinishedStays
  <2>2. CASE ~done[i]
    <3>1. PICK t \in Tid : /\ Finished(t)' /\ id' = id
                          /\ done' = [done EXCEPT ![id[t]] = TRUE]
      BY <1>1, <2>2, FinishedStays
    <3>2. id[t] = i
      BY <1>0, <1>1, <2>2, <3>1
    <3> QED BY <3>1, <3>2
  <2> QED BY <2>1, <2>2
<1>2. current # NULL => \A i \in Tid : done[i] => done'[i]
  BY <1>0, FinishedStays
<1>3. ASSUME current # NULL,
             \/ UNCHANGED <<next, prev, current, threads, on>>
             \/ /\ Ring' = Ring \/ (done[current] /\ Ring' = Ring \ {current})
                /\ on' = Halted => done[current] /\ threads = 1 /\ UNCHANGED ring
      PROVE  HaltInv'
  <2>1. Ring' = Ring \/ (done[current] /\ Ring' = Ring \ {current})
    BY <1>3 DEF Ring
  <2>2. \A t \in Tid \ Ring' : done'[t]
    BY <1>2, <1>3, <2>1 DEF HaltInv
  <2>3. current \in Tid
    BY <1>0, <1>3 DEF LinkTypes
  <2>4. on' = Halted => current' # NULL /\ done'[current'] /\ threads' = 1
    BY <1>2, <1>3, <2>3 DEF HaltInv, ring
  <2> QED BY <1>1, <2>2, <2>4 DEF HaltInv, Finished
<1>4. ASSUME current = NULL PROVE HaltInv'
  <2>1. on = Kmain
    BY <1>4 DEF IInv, BootInv
  <2>2. Boot \/ UNCHANGED vars
    BY <1>4, <2>1, StepKinds, Constants, InThread, ComputingKeeps
       DEF Yield, ExitDispatches, ExitReturns, In, Tick
  <2>3. on' # Halted /\ (current' = NULL \/ SetCurrent)
    BY <1>4, <2>1, <2>2, Constants
       DEF Boot, ThreadCreate, BuildRunqueue, SetCurrent, LoadFirst, SwitchFirst, KmainIn,
           vars, IInv, BootInv
  <2>4. CASE SetCurrent
    <3>1. /\ next' = RingNext /\ prev' = RingPrev /\ threads' = MAX_THREADS /\ current' = 1
      BY <2>4 DEF SetCurrent, KmainIn, IInv, BootInv
    <3>2. Ring' = Tid
      BY <3>1, BuiltRing
    <3> QED BY <1>1, <2>3, <3>2 DEF HaltInv, Finished
  <2> QED BY <1>1, <2>3, <2>4 DEF HaltInv, Finished
<1>5. ASSUME current # NULL, Boot PROVE HaltInv'
  <2>1. LoadFirst \/ SwitchFirst
    BY <1>5 DEF Boot, ThreadCreate, BuildRunqueue, SetCurrent, KmainIn, IInv, BootInv
  <2>2. on = Kmain /\ on' # Halted /\ UNCHANGED <<next, prev, current, threads>>
    BY <2>1, Constants DEF LoadFirst, SwitchFirst, KmainIn, IInv, KmainInv, ring
  <2>3. Ring' = Ring
    BY <2>2 DEF Ring
  <2> QED BY <1>3, <1>5, <2>2, <2>3
<1>6. ASSUME current # NULL, NEW c \in Ctx, Switch(c) PROVE HaltInv'
  <2> DEFINE saved == [sp EXCEPT ![current] = c]
  <2>1. saved \in [Tid -> Ctx \cup {Stale}]
    BY <1>0
  <2>2. ((Rotate \/ Unlink) /\ Resume(saved)) \/ HaltThere
    BY <1>6 DEF Switch
  <2> HIDE DEF saved
  <2> QED BY <1>0, <1>3, <1>6, <2>1, <2>2, SwitchHalts
<1>7. ASSUME current # NULL, NEW t \in Tid, ExitDispatches(t) PROVE HaltInv'
  <2>1. ((Rotate \/ Unlink) /\ Resume(sp)) \/ HaltThere
    BY <1>7 DEF ExitDispatches
  <2> QED BY <1>0, <1>3, <1>7, <2>1, SwitchHalts
<1>8. ASSUME current # NULL, NEW t \in Tid, ExitReturns(t) PROVE HaltInv'
  <2>1. on' # Halted /\ UNCHANGED <<next, prev, current, threads>>
    BY <1>8, Constants DEF ExitReturns, ring
  <2>2. Ring' = Ring
    BY <2>1 DEF Ring
  <2> QED BY <1>3, <1>8, <2>1, <2>2
<1>9. ASSUME current # NULL, NEW t \in Tid, Computing(t) PROVE HaltInv'
  BY <1>3, <1>9, ComputingKeeps
<1>10. ASSUME current # NULL, NEW t \in Tid, Yield(t) PROVE HaltInv'
  BY <1>6, <1>10, Constants DEF Yield
<1>11. ASSUME current # NULL, Tick PROVE HaltInv'
  BY <1>6, <1>11, TickKeeps
<1>12. ASSUME current # NULL, UNCHANGED vars PROVE HaltInv'
  BY <1>3, <1>12 DEF vars
<1> QED BY <1>4, <1>5, <1>7, <1>8, <1>9, <1>10, <1>11, <1>12, StepKinds

(* When all flags are set all threads have left their loops, as each has   *)
(* one number only. *)
LEMMA AllFlagsAllFinished ==
  ASSUME IInv, HaltInv, \A i \in Tid : done[i]
  PROVE  \A t \in Tid : Finished(t)
<1> DEFINE F == {t \in Tid : Finished(t)}
           number == [t \in F |-> id[t]]
<1>1. F \in SUBSET Tid /\ IsFiniteSet(Tid)
  BY Constants
<1>2. IsFiniteSet(F) /\ Cardinality(F) <= Cardinality(Tid)
      /\ (Cardinality(Tid) = Cardinality(F) => Tid = F)
  BY <1>1, FS_Subset
<1>3. number \in Surjection(F, Tid)
  <2>1. \A t \in F : id[t] \in Tid
    BY DEF IInv, NumberOK, Numbered, Finished
  <2>2. \A i \in Tid : \E t \in F : number[t] = i
    BY DEF HaltInv
  <2>3. number \in [F -> Tid]
    BY <2>1
  <2> HIDE DEF number, F
  <2> QED BY <2>2, <2>3 DEF Surjection
<1>4. Cardinality(Tid) <= Cardinality(F)
  BY <1>2, <1>3, FS_Surjection
<1>5. Cardinality(Tid) \in Nat /\ Cardinality(F) \in Nat
  BY <1>1, <1>2, FS_CardinalityType
<1>6. Tid = F
  BY <1>2, <1>4, <1>5
<1> QED BY <1>6

(* FIFOS halts only when every thread has left its loop, wherever ticks    *)
(* come and whichever threads share a number (kentry.c:95-99).             *)
THEOREM HaltWhenAllDone == Spec => []HaltsWhenDone
<1>1. Init => HaltInv
  <2>1. ASSUME Init PROVE /\ \A i \in Tid : ~done[i]
                          /\ current = NULL /\ on # Halted
    BY <2>1, Constants DEF Init
  <2> QED BY <2>1 DEF HaltInv
<1>2. IInv /\ HaltInv /\ [Next]_vars => HaltInv'
  BY HaltStays
<1>3. IInv /\ HaltInv => HaltsWhenDone
  <2> SUFFICES ASSUME IInv, HaltInv, on = Halted PROVE \A t \in Tid : Finished(t)
    BY DEF HaltsWhenDone
  <2>1. current # NULL /\ done[current] /\ threads = 1 /\ RingOK /\ current \in Ring
    BY DEF HaltInv, IInv, RingOK
  <2>2. Ring = {current}
    <3>1. Ring \subseteq Tid /\ IsFiniteSet(Ring) /\ Cardinality(Ring) = 1
      BY <2>1, Constants, FS_Subset DEF Ring, RingOK
    <3>2. {current} \in SUBSET Ring /\ Cardinality({current}) = 1
      BY <2>1, FS_Singleton
    <3> QED BY <3>1, <3>2, FS_Subset
  <2>3. \A i \in Tid : done[i]
    BY <2>1, <2>2 DEF HaltInv
  <2> QED BY <2>3, AllFlagsAllFinished
<1> QED BY <1>1, <1>2, <1>3, Invariance, PTL DEF Spec

-----------------------------------------------------------------------------
(* The line *)

Hops ==
  /\ Hop[0] = current
  /\ \A n \in 1 .. MAX_THREADS : Hop[n] = next[Hop[n - 1]]

(* Hop follows next from the current thread. *)
LEMMA HopFacts == Hops
<1>1. Hop = [n \in 0 .. MAX_THREADS |-> IF n = 0 THEN current ELSE next[Hop[n - 1]]]
  BY Constants, IterationExists DEF Hop
<1>2. \A n \in 0 .. MAX_THREADS : Hop[n] = IF n = 0 THEN current ELSE next[Hop[n - 1]]
  BY <1>1
<1> QED BY <1>2, Constants DEF Hops

(* So it does after a step. *)
LEMMA HopFactsNext ==
  /\ Hop'[0] = current'
  /\ \A n \in 1 .. MAX_THREADS : Hop'[n] = next'[Hop'[n - 1]]
<1>1. Hops'
  BY HopFacts, PTL
<1> QED BY <1>1 DEF Hops

(* If a step makes the next thread current, and leaves the links of the    *)
(* line as far as K hops, the line is one hop further as far as that. *)
LEMMA OneHopAhead ==
  ASSUME NEW K \in Nat, K < MAX_THREADS, current' = next[current],
         \A n \in 1 .. K : next'[Hop[n]] = Hop[n + 1]
  PROVE  \A n \in 0 .. K : Hop'[n] = Hop[n + 1]
<1> DEFINE S == {n \in Nat : n <= K => Hop'[n] = Hop[n + 1]}
<1>0. MAX_THREADS \in Nat \ {0}
  BY Constants
<1>1. 0 \in S
  <2>1. Hop'[0] = current' /\ Hop[1] = next[Hop[0]] /\ Hop[0] = current
    BY <1>0, HopFacts, HopFactsNext DEF Hops
  <2> QED BY <2>1
<1>2. ASSUME NEW n \in Nat, n \in S PROVE n + 1 \in S
  <2>1. CASE n + 1 <= K
    <3>1. Hop'[n] = Hop[n + 1]
      BY <1>2, <2>1
    <3>2. n + 1 \in 1 .. MAX_THREADS /\ n + 1 \in 1 .. K /\ (n + 1) - 1 = n
      BY <1>0, <2>1
    <3>3. Hop'[n + 1] = next'[Hop[n + 1]]
      BY <3>1, <3>2, HopFactsNext
    <3> QED BY <3>2, <3>3
  <2> QED BY <2>1
<1> HIDE DEF S
<1>3. Nat \subseteq S
  BY <1>1, <1>2, SetInduction
<1> QED BY <1>3 DEF S

(* Every hop leads to a thread of the ring. *)
LEMMA HopsInRing ==
  ASSUME RingOK, current # NULL
  PROVE  \A n \in 0 .. MAX_THREADS : Hop[n] \in Ring
<1> DEFINE S == {n \in Nat : n <= MAX_THREADS => Hop[n] \in Ring}
<1>1. 0 \in S
  BY HopFacts DEF Hops, RingOK
<1>2. ASSUME NEW n \in Nat, n \in S PROVE n + 1 \in S
  <2>1. CASE n + 1 <= MAX_THREADS
    <3>1. Hop[n] \in Ring
      BY <1>2, <2>1, Constants
    <3>2. Hop[n + 1] = next[Hop[(n + 1) - 1]] /\ (n + 1) - 1 = n
      BY <2>1, Constants, HopFacts DEF Hops
    <3> QED BY <3>1, <3>2 DEF RingOK
  <2> QED BY <2>1
<1> HIDE DEF S
<1>3. Nat \subseteq S
  BY <1>1, <1>2, SetInduction
<1> QED BY <1>3, Constants DEF S

(* Rotating moves the head of the line to its end. *)
LEMMA RotateLine ==
  ASSUME LinkTypes, RingOK, LineInv, current # NULL, Rotate
  PROVE  /\ \A n \in 0 .. threads - 2 : Hop'[n] = Hop[n + 1]
         /\ Hop'[threads - 1] = current
         /\ LineInv'
<1>1. /\ threads \in Nat /\ threads > 0 /\ threads <= MAX_THREADS /\ MAX_THREADS \in Nat
      /\ current' = next[current] /\ UNCHANGED <<next, threads>>
      /\ next[Hop[threads - 1]] = current
      /\ \A n, m \in 0 .. threads - 1 : Hop[n] = Hop[m] => n = m
  BY Constants DEF LinkTypes, Rotate, LineInv, Tid
<1>2. /\ Hop[0] = current /\ Hop'[0] = Hop[1]
      /\ \A n \in 1 .. MAX_THREADS : Hop[n] = next[Hop[n - 1]]
      /\ \A n \in 1 .. MAX_THREADS : Hop'[n] = next[Hop'[n - 1]]
  BY <1>1, HopFacts, HopFactsNext DEF Hops
<1>3. \A n \in 0 .. threads - 2 : Hop'[n] = Hop[n + 1]
  <2>1. CASE threads = 1
    BY <2>1
  <2>2. CASE threads # 1
    <3>1. threads - 2 \in Nat /\ threads - 2 < MAX_THREADS
      BY <1>1, <2>2
    <3>2. \A n \in 1 .. threads - 2 : next'[Hop[n]] = Hop[n + 1]
      BY <1>1, <1>2
    <3> QED BY <1>1, <3>1, <3>2, OneHopAhead
  <2> QED BY <2>1, <2>2
<1>4. Hop'[threads - 1] = current
  BY <1>1, <1>2, <1>3
<1>5. LineInv'
  <2>1. next'[Hop'[threads' - 1]] = current'
    BY <1>1, <1>4
  <2>2. ASSUME NEW n \in 0 .. threads - 1, NEW m \in 0 .. threads - 1, Hop'[n] = Hop'[m]
        PROVE  n = m
    <3> DEFINE up(k) == IF k = threads - 1 THEN 0 ELSE k + 1
    <3>1. \A k \in 0 .. threads - 1 : up(k) \in 0 .. threads - 1 /\ Hop'[k] = Hop[up(k)]
      BY <1>1, <1>2, <1>3, <1>4
    <3>2. up(n) = up(m)
      BY <1>1, <2>2, <3>1
    <3> QED BY <1>1, <3>2
  <2> QED BY <1>1, <2>1, <2>2 DEF LineInv
<1> QED BY <1>3, <1>4, <1>5

(* Unlink changes one link: that of the thread before the current one. *)
LEMMA UnlinkLinks ==
  ASSUME LinkTypes, RingOK, current # NULL, Unlink
  PROVE  /\ prev[current] \in Tid /\ next[current] \in Tid /\ current \in Tid
         /\ next[prev[current]] = current
         /\ current' = next[current] /\ current' # current
         /\ \A t \in Tid : next'[t] = IF t = prev[current] THEN next[current] ELSE next[t]
<1> DEFINE p == prev[current]
           a == next[current]
           linked == [next EXCEPT ![p] = a]
<1>1. /\ p \in Ring /\ p \in Tid /\ a \in Ring /\ a \in Tid /\ current \in Ring /\ current \in Tid
      /\ next[p] = current /\ current' = a
  BY DEF RingOK, Ring, Unlink
<1>2. a # current
  BY SelfLoop DEF Unlink
<1>3. p # current
  BY <1>1, <1>2
<1>4. linked[a] # current
  <2>1. CASE a = p
    BY <1>1, <1>2, <2>1 DEF LinkTypes
  <2>2. CASE a # p
    BY <1>1, <1>2, <2>2 DEF LinkTypes, RingOK, Ring
  <2> QED BY <2>1, <2>2
<1>5. next' = linked
  BY <1>1, <1>4 DEF Unlink
<1> QED BY <1>1, <1>2, <1>5 DEF LinkTypes

(* Unlinking takes its head out of the line. *)
LEMMA UnlinkLine ==
  ASSUME LinkTypes, RingOK, LineInv, current # NULL, Unlink
  PROVE  /\ \A n \in 0 .. threads - 2 : Hop'[n] = Hop[n + 1]
         /\ threads > 1 /\ threads' = threads - 1
         /\ LineInv'
<1>1. /\ threads \in Nat /\ threads > 1 /\ threads <= MAX_THREADS /\ MAX_THREADS \in Nat
      /\ threads' = threads - 1 /\ current' = next[current]
      /\ next[Hop[threads - 1]] = current
      /\ \A n, m \in 0 .. threads - 1 : Hop[n] = Hop[m] => n = m
  BY Constants DEF LinkTypes, Unlink, LineInv, Tid
<1>2. /\ Hop[0] = current /\ Hop'[0] = Hop[1]
      /\ \A n \in 1 .. MAX_THREADS : Hop[n] = next[Hop[n - 1]]
      /\ \A n \in 1 .. MAX_THREADS : Hop'[n] = next'[Hop'[n - 1]]
  BY <1>1, HopFacts, HopFactsNext DEF Hops
<1>3. \A n \in 0 .. threads - 1 : Hop[n] \in Ring /\ Hop[n] \in Tid
  BY <1>1, HopsInRing DEF Ring
<1> DEFINE p == Hop[threads - 1]
           a == next[current]
<1>4. p \in Tid /\ a \in Tid /\ p = prev[current]
  <2>1. p \in Ring /\ p \in Tid
    BY <1>1, <1>3
  <2> QED BY <1>1, <2>1, UnlinkLinks DEF RingOK, Ring
<1>5. \A t \in Tid : next'[t] = IF t = p THEN a ELSE next[t]
  BY <1>4, UnlinkLinks
<1>6. \A n \in 0 .. threads - 2 : Hop'[n] = Hop[n + 1]
  <2>1. threads - 2 \in Nat /\ threads - 2 < MAX_THREADS
    BY <1>1
  <2>2. ASSUME NEW n \in 1 .. threads - 2 PROVE next'[Hop[n]] = Hop[n + 1]
    <3>1. n \in 0 .. threads - 1 /\ threads - 1 \in 0 .. threads - 1 /\ n # threads - 1
      BY <1>1
    <3>2. Hop[n] # p
      BY <1>1, <3>1
    <3>3. next'[Hop[n]] = next[Hop[n]]
      BY <1>3, <1>5, <3>1, <3>2
    <3>4. n + 1 \in 1 .. MAX_THREADS /\ (n + 1) - 1 = n
      BY <1>1
    <3>5. Hop[n + 1] = next[Hop[(n + 1) - 1]]
      BY <1>2, <3>4
    <3> QED BY <3>3, <3>4, <3>5
  <2> QED BY <1>1, <2>1, <2>2, OneHopAhead
<1>7. LineInv'
  <2>1. next'[Hop'[threads' - 1]] = current'
    <3>1. threads' - 1 \in 0 .. threads - 2 /\ (threads' - 1) + 1 = threads - 1
      BY <1>1
    <3>2. Hop'[threads' - 1] = p
      BY <1>6, <3>1
    <3>3. next'[p] = a
      BY <1>4, <1>5
    <3> HIDE DEF p, a
    <3> QED BY <1>1, <3>2, <3>3 DEF a
  <2>2. ASSUME NEW n \in 0 .. threads - 2, NEW m \in 0 .. threads - 2, Hop'[n] = Hop'[m]
        PROVE  n = m
    <3>1. n + 1 \in 0 .. threads - 1 /\ m + 1 \in 0 .. threads - 1
      BY <1>1
    <3>2. Hop[n + 1] = Hop[m + 1]
      BY <1>6, <2>2
    <3>3. n + 1 = m + 1
      BY <1>1, <3>1, <3>2
    <3> QED BY <3>3
  <2>3. 0 .. threads' - 1 = 0 .. threads - 2
    BY <1>1
  <2> QED BY <2>1, <2>2, <2>3 DEF LineInv
<1> QED BY <1>1, <1>6, <1>7

-----------------------------------------------------------------------------
(* Calm ticks: the steps *)

(* What a computing step does to the thread's own place, register, flag    *)
(* and counter, when its number is its own. *)
LEMMA ComputingTable ==
  ASSUME IInv, NumberInv, NEW t \in Tid, Computing(t)
  PROVE  \/ /\ at[t] = "entry" /\ at'[t] = "incr" /\ reg'[t] = thread_ids
            /\ UNCHANGED <<zf, id, done, counter, thread_ids>>
         \/ /\ at[t] = "incr" /\ at'[t] = "line" /\ thread_ids' = reg[t] + 1
            /\ id' = [id EXCEPT ![t] = reg[t]] /\ UNCHANGED <<zf, done, counter>>
         \/ /\ at[t] = "line" /\ at'[t] = (IF FIFOS = 1 THEN "yield" ELSE "count")
            /\ UNCHANGED <<zf, id, done, counter, thread_ids>>
         \/ /\ at[t] = "count" /\ at'[t] = "store"
            /\ reg'[t] = (counter[t] + 1) % Wrap
            /\ UNCHANGED <<zf, id, done, counter, thread_ids>>
         \/ /\ at[t] = "store" /\ at'[t] = "reload"
            /\ counter' = [counter EXCEPT ![t] = reg[t]]
            /\ UNCHANGED <<zf, id, done, thread_ids>>
         \/ /\ at[t] = "reload" /\ at'[t] = "cmp" /\ reg'[t] = counter[t]
            /\ UNCHANGED <<zf, id, done, counter, thread_ids>>
         \/ /\ at[t] = "cmp" /\ at'[t] = "branch"
            /\ zf' = [zf EXCEPT ![t] = reg[t] = ROUNDS]
            /\ UNCHANGED <<id, done, counter, thread_ids>>
         \/ /\ at[t] = "branch" /\ at'[t] = (IF zf[t] THEN "finish" ELSE "line")
            /\ zf' = [zf EXCEPT ![t] = FALSE]
            /\ UNCHANGED <<id, done, counter, thread_ids>>
         \/ /\ at[t] = "finish" /\ at'[t] = "exit"
            /\ done' = [done EXCEPT ![t] = TRUE]
            /\ UNCHANGED <<zf, id, counter, thread_ids>>
         \/ /\ at[t] = "exit" /\ at'[t] = "hlt" /\ FIFOS = 2
            /\ UNCHANGED <<zf, id, done, counter, thread_ids>>
<1>1. /\ \A place : at' = [at EXCEPT ![t] = place] => at'[t] = place
      /\ \A v : reg' = [reg EXCEPT ![t] = v] => reg'[t] = v
  BY Constants DEF IInv, TypeOK
<1>2. at[t] \notin {"entry", "incr"} => id[t] = t
  BY Constants, ComputingKeeps, InThread DEF NumberInv, Numbered
<1> USE <1>1, <1>2 DEF In, Goes, Computes, work
<1>3. CASE LoadId(t)
  BY <1>3 DEF LoadId
<1>4. CASE StoreId(t)
  BY <1>4 DEF StoreId
<1>5. CASE PrintLine(t)
  BY <1>5 DEF PrintLine
<1>6. CASE LoadCounter(t)
  BY <1>6 DEF LoadCounter
<1>7. CASE StoreCounter(t)
  BY <1>7 DEF StoreCounter
<1>8. CASE ReloadCounter(t)
  BY <1>8 DEF ReloadCounter
<1>9. CASE Compare(t)
  BY <1>9, Zenon DEF Compare
<1>10. CASE Branch(t)
  BY <1>10 DEF Branch
<1>11. CASE SetDone(t)
  BY <1>11 DEF SetDone
<1>12. CASE ExitWaits(t)
  BY <1>12 DEF ExitWaits
<1> QED BY <1>3, <1>4, <1>5, <1>6, <1>7, <1>8, <1>9, <1>10, <1>11, <1>12 DEF Computing

(* What becomes of the ring and the CPU where the turn passes from c to    *)
(* the next thread, c leaves the queue, or all is halted. *)
Passes(c) == ~done[c] /\ Rotate /\ Ring' = Ring
Leaves(c) == done[c] /\ Unlink /\ Ring' = Ring \ {c}
Halts(c) == done[c] /\ HaltThere

Next1 == /\ on' = current' /\ on' \in Tid /\ current' \in Ring'
         /\ \A t \in Ring' \ {on'} : sp'[t] = t

(* Every thread of the queue being where its stack pointer says, schedule  *)
(* dispatches the next one to its own stack. *)
LEMMA SwitchCalm ==
  ASSUME IInv, OnInv, NEW c \in Tid, on = c,
         \/ Switch(c)
         \/ done[c] /\ (Rotate \/ Unlink) /\ Resume(sp)
         \/ HaltThere /\ UNCHANGED sp
  PROVE  ((Passes(c) \/ Leaves(c)) /\ Next1) \/ Halts(c)
<1>1. /\ current = c /\ current # NULL /\ c \in Ring /\ LinkTypes /\ RingOK
      /\ sp \in [Tid -> Ctx \cup {Stale}] /\ \A t \in Ring \ {c} : sp[t] = t
  BY InThread DEF IInv, TypeOK, LinkTypes, OnInv
<1>2. ASSUME NEW saved \in [Tid -> Ctx \cup {Stale}], Rotate \/ Unlink, Resume(saved),
             \A t \in Ring' : saved[t] = t
      PROVE  (Passes(c) \/ Leaves(c)) /\ Next1
  <2>1. Passes(c) \/ Leaves(c)
    BY <1>1, <1>2, RotateRing, UnlinkRing DEF Passes, Leaves, Rotate, Unlink
  <2>2. current' \in Ring' /\ Ring' \subseteq Tid
    BY <1>1, <1>2, ScheduleRing DEF Ring
  <2>3. on' = current' /\ sp' = [saved EXCEPT ![current'] = Stale]
    BY <1>2, <2>2 DEF Resume
  <2>4. on' \in Tid
    BY <2>2, <2>3
  <2>5. ASSUME NEW t \in Ring' \ {on'} PROVE sp'[t] = t
    <3>1. saved[t] = t /\ t # current' /\ t \in Tid
      BY <1>2, <2>2, <2>3
    <3> QED BY <1>2, <2>3, <3>1
  <2> QED BY <2>1, <2>2, <2>3, <2>4, <2>5 DEF Next1
<1>3. CASE Switch(c)
  <2> DEFINE saved == [sp EXCEPT ![current] = c]
  <2>1. CASE (Rotate \/ Unlink) /\ Resume(saved)
    <3>1. saved \in [Tid -> Ctx \cup {Stale}]
      BY <1>1 DEF Ctx
    <3>2. \A t \in Ring : saved[t] = t
      BY <1>1 DEF Ring
    <3>3. Ring' \subseteq Ring
      BY <1>1, <2>1, ScheduleRing
    <3> HIDE DEF saved
    <3> QED BY <1>2, <2>1, <3>1, <3>2, <3>3
  <2>2. CASE HaltThere
    BY <1>1, <2>2 DEF HaltThere, Halts
  <2> QED BY <1>3, <2>1, <2>2 DEF Switch
<1>4. CASE done[c] /\ (Rotate \/ Unlink) /\ Resume(sp)
  <2>1. Unlink
    BY <1>1, <1>4 DEF Rotate
  <2>2. Ring' = Ring \ {c}
    BY <1>1, <2>1, UnlinkRing
  <2> QED BY <1>1, <1>2, <1>4, <2>1, <2>2
<1>5. CASE HaltThere
  BY <1>1, <1>5 DEF HaltThere, Halts
<1> QED BY <1>3, <1>4, <1>5

(* The ways through a yield, an exit and a tick.                           *)
Turns(t) ==
  \/ Yield(t) /\ at[t] = "yield" /\ at'[t] = "again" /\ UNCHANGED zf
  \/ Yield(t) /\ at[t] = "again" /\ at'[t] = "count" /\ UNCHANGED zf
  \/ ExitDispatches(t) /\ FIFOS = 1 /\ at[t] = "exit" /\ at'[t] = "exit" /\ UNCHANGED zf
  \/ /\ Tick /\ FIFOS = 2 /\ at[t] \notin Critical
     /\ at'[t] = (IF at[t] = "hlt" THEN "woken" ELSE at[t])
     /\ zf' = [u \in Tid |-> IF u = t THEN FALSE ELSE zf[u]]

(* A turn of t that ends: of what is t's own only the place changes.       *)
TurnOf(t) ==
  /\ on = t /\ current = t /\ t \in Ring /\ current # NULL
  /\ Turns(t)
  /\ ((Passes(t) \/ Leaves(t)) /\ Next1) \/ Halts(t)
  /\ UNCHANGED <<FIFOS, reg, id, done, counter, thread_ids>>
  /\ at'[Kmain] = at[Kmain] /\ \A u \in Tid \ {t} : at'[u] = at[u]

(* With calm ticks every step is one of boot, a computation, a turn that   *)
(* ends, or none. *)
LEMMA CalmSteps ==
  ASSUME CalmStep, IInv, OnInv, WorkInv, [Next]_vars
  PROVE  \/ Boot
         \/ \E t \in Tid : Computing(t)
         \/ \E t \in Tid : TurnOf(t)
         \/ UNCHANGED vars
<1>0. at \in [Ctx -> ThreadAt \cup KmainAt] /\ Tid \subseteq Ctx
      /\ Kmain \in Ctx /\ Kmain \notin Tid
  BY Constants DEF IInv, TypeOK
<1>1. ASSUME NEW t \in Tid, Yield(t)
      PROVE  /\ on = t /\ Turns(t) /\ Switch(t)
             /\ UNCHANGED <<FIFOS, reg, id, done, counter, thread_ids>>
             /\ at'[Kmain] = at[Kmain] /\ \A u \in Tid \ {t} : at'[u] = at[u]
  <2>1. on = t /\ Switch(t) /\ UNCHANGED <<FIFOS, reg, zf, id, done, counter, thread_ids>>
    BY <1>1 DEF Yield, In, work
  <2>2. CASE at[t] = "yield" /\ at' = [at EXCEPT ![t] = "again"]
    BY <1>0, <1>1, <2>1, <2>2 DEF Turns
  <2>3. CASE at[t] = "again" /\ at' = [at EXCEPT ![t] = "count"]
    BY <1>0, <1>1, <2>1, <2>3 DEF Turns
  <2> QED BY <1>1, <2>2, <2>3 DEF Yield, In, Goes
<1>2. ASSUME NEW t \in Tid, ExitDispatches(t)
      PROVE  /\ on = t /\ Turns(t)
             /\ \/ done[t] /\ (Rotate \/ Unlink) /\ Resume(sp)
                \/ HaltThere /\ UNCHANGED sp
             /\ UNCHANGED <<FIFOS, reg, id, done, counter, thread_ids, at>>
  <2>1. /\ on = t /\ at[t] = "exit" /\ FIFOS = 1
        /\ UNCHANGED <<FIFOS, at, reg, zf, id, done, counter, thread_ids>>
    BY <1>2 DEF ExitDispatches, In, work
  <2>2. done[t]
    BY <2>1 DEF WorkInv, WorkOf, Finished
  <2> QED BY <1>2, <2>1, <2>2 DEF ExitDispatches, Turns
<1>3. ASSUME NEW t \in Tid, ExitReturns(t) PROVE FALSE
  <2>1. on = t /\ at[t] = "woken" /\ current # NULL /\ t \in Ring
    BY <1>3, InThread DEF ExitReturns, In
  <2> QED BY <2>1, Constants DEF OnInv
<1>4. ASSUME Tick
      PROVE  /\ on \in Tid /\ Turns(on) /\ Switch(on)
             /\ UNCHANGED <<FIFOS, reg, id, done, counter, thread_ids>>
             /\ at'[Kmain] = at[Kmain] /\ \A u \in Tid \ {on} : at'[u] = at[u]
  <2>1. at[on] \notin Critical
    BY <1>4 DEF CalmStep
  <2>2. on # Kmain
    <3>1. on = Kmain => current # NULL /\ at[Kmain] \in KmainAt
      BY <1>0, <1>4 DEF Tick, IInv, TypeOK
    <3> QED BY <2>1, <3>1 DEF IInv, BootInv, KmainAt, Critical
  <2>3. on \in Tid
    BY <1>4, <2>2, TickKeeps DEF Ctx
  <2>4. at' = IF at[on] = "hlt" THEN [at EXCEPT ![on] = "woken"] ELSE at
    BY <1>4 DEF Tick
  <2>5. /\ at'[on] = (IF at[on] = "hlt" THEN "woken" ELSE at[on])
        /\ at'[Kmain] = at[Kmain] /\ \A u \in Tid \ {on} : at'[u] = at[u]
    BY <1>0, <2>3, <2>4
  <2>6. /\ FIFOS = 2 /\ Switch(on)
        /\ zf' = [u \in Tid |-> IF u = on THEN FALSE ELSE zf[u]]
        /\ UNCHANGED <<FIFOS, reg, id, done, counter, thread_ids>>
    BY <1>4, TickKeeps DEF Tick
  <2> QED BY <1>4, <2>1, <2>3, <2>5, <2>6 DEF Turns
<1>5. \A t \in Tid : on = t => current = t /\ t \in Ring /\ current # NULL
  BY InThread
<1> QED BY <1>1, <1>2, <1>3, <1>4, <1>5, StepKinds, SwitchCalm DEF TurnOf

(* With calm ticks kmain is never interrupted after it has set current,    *)
(* and no thread returns from exit_thread. *)
LEMMA OnStep ==
  ASSUME CalmStep, IInv, CalmInv, [Next]_vars
  PROVE  OnInv'
<1>0. OnInv /\ NumberInv /\ WorkInv
  BY DEF CalmInv
<1>1. CASE Boot
  <2>0. /\ at \in [Ctx -> ThreadAt \cup KmainAt] /\ Kmain \in Ctx /\ Kmain \notin Tid
        /\ Tid \subseteq Ctx /\ sp \in [Tid -> Ctx \cup {Stale}] /\ 1 \in Tid
        /\ reg \in [Ctx -> Int]
    BY Constants DEF IInv, TypeOK
  <2>1. CASE ThreadCreate \/ BuildRunqueue
    <3>1. on' = Kmain /\ current' = NULL /\ at'[Kmain] \in {"create", "first"}
      BY <2>0, <2>1 DEF ThreadCreate, BuildRunqueue, KmainIn, KmainGoes, IInv, BootInv
    <3> QED BY <3>1, Constants DEF OnInv
  <2>2. CASE SetCurrent
    <3>1. /\ on' = Kmain /\ at'[Kmain] = "load" /\ \A t \in Tid : at'[t] = "entry"
          /\ sp'[1] = 1
      BY <2>0, <2>2 DEF SetCurrent, KmainIn, KmainGoes, IInv, BootInv
    <3> QED BY <3>1, Constants DEF OnInv, Ring
  <2>3. CASE LoadFirst
    <3>1. on = Kmain /\ current # NULL /\ current = 1
      BY <2>3 DEF LoadFirst, KmainIn, IInv, BootInv, KmainInv
    <3>2. /\ on' = Kmain /\ reg'[Kmain] = 1 /\ sp'[1] = 1
          /\ \A t \in Tid : at'[t] = "entry"
      BY <1>0, <2>0, <2>3, <3>1 DEF LoadFirst, KmainGoes, OnInv
    <3> QED BY <3>2, Constants DEF OnInv, Ring
  <2>4. CASE SwitchFirst
    <3>1. on = Kmain /\ current # NULL /\ current = 1 /\ \A t \in Ring \ {1} : sp[t] = t
      BY <2>4 DEF SwitchFirst, KmainIn, IInv, BootInv, KmainInv
    <3>2. on' = 1 /\ Ring' = Ring /\ \A t \in Tid : at'[t] = "entry"
      BY <1>0, <2>4, <3>1 DEF SwitchFirst, KmainIn, OnInv, ring, Ring
    <3>3. \A t \in Ring' \ {1} : sp'[t] = t
      BY <2>0, <2>4, <3>1, <3>2 DEF SwitchFirst, Ring
    <3> QED BY <3>2, <3>3, Constants DEF OnInv, Ring
  <2> QED BY <1>1, <2>1, <2>2, <2>3, <2>4 DEF Boot
<1>2. ASSUME NEW t \in Tid, Computing(t) PROVE OnInv'
  <2>1. /\ on = t /\ UNCHANGED <<on, sp, current, Ring>>
        /\ \A u \in Tid \ {t} : at'[u] = at[u]
    BY <1>2, ComputingKeeps DEF Ring
  <2>2. at'[t] # "woken"
    BY <1>0, <1>2, ComputingTable
  <2> QED BY <1>0, <2>1, <2>2, Constants DEF OnInv, Ring
<1>3. ASSUME NEW t \in Tid, TurnOf(t) PROVE OnInv'
  <2>1. CASE Halts(t)
    BY <2>1, Constants DEF Halts, HaltThere, OnInv
  <2>2. CASE Passes(t) /\ Next1
    <3>1. at'[t] # "woken"
      BY <1>0, <1>3, <2>2, Constants
         DEF TurnOf, Turns, Passes, WorkInv, WorkOf, Finished, OnInv
    <3> QED BY <1>0, <1>3, <2>2, <3>1, Constants DEF TurnOf, Passes, Next1, OnInv, Ring
  <2>3. CASE Leaves(t) /\ Next1
    BY <1>0, <1>3, <2>3, Constants DEF TurnOf, Leaves, Next1, OnInv, Ring
  <2> QED BY <1>3, <2>1, <2>2, <2>3 DEF TurnOf
<1>4. CASE UNCHANGED vars
  BY <1>0, <1>4 DEF vars, OnInv, Ring
<1> QED BY <1>0, <1>1, <1>2, <1>3, <1>4, CalmSteps

(* The numbers of the threads.                                             *)

(* A turn is over only where the thread has its number.                    *)
LEMMA TurnNumbered ==
  ASSUME IInv, WorkInv, NEW t \in Tid, TurnOf(t)
  PROVE  t \in Numbered /\ Numbered' = Numbered
<1>1. at[t] \notin {"entry", "incr"} /\ at'[t] \notin {"entry", "incr"}
  BY DEF TurnOf, Turns, Critical
<1>2. \A u \in Tid \ {t} : at'[u] = at[u]
  BY DEF TurnOf
<1> QED BY <1>1, <1>2 DEF Numbered

(* Each thread takes its number before the turn passes to the next, which  *)
(* therefore finds thread_ids one higher. *)
LEMMA NumberStep ==
  ASSUME CalmStep, IInv, CalmInv, [Next]_vars
  PROVE  NumberInv'
<1>0. /\ OnInv /\ NumberInv /\ WorkInv /\ LinkTypes /\ RingOK
      /\ at \in [Ctx -> ThreadAt \cup KmainAt] /\ reg \in [Ctx -> Int]
      /\ id \in [Tid -> 0 .. MAX_THREADS] /\ thread_ids \in Nat
      /\ Tid = 1 .. MAX_THREADS /\ MAX_THREADS \in Nat /\ Tid \subseteq Ctx
      /\ Kmain \notin Tid /\ 1 \in Tid /\ NULL = 0
  BY Constants DEF CalmInv, IInv, TypeOK, LinkTypes, Tid
<1>1. CASE Boot
  <2>1. CASE ThreadCreate \/ BuildRunqueue
    <3>1. current' = NULL
      BY <1>0, <2>1 DEF ThreadCreate, BuildRunqueue, KmainIn, KmainGoes, IInv, BootInv
    <3> QED BY <3>1 DEF NumberInv
  <2>2. CASE SetCurrent
    <3>1. /\ current' = 1 /\ next' = RingNext /\ thread_ids' = 1
          /\ \A t \in Tid : at'[t] = "entry"
      BY <1>0, <2>2 DEF SetCurrent, KmainIn, KmainGoes, IInv, BootInv, work
    <3>2. Numbered' = {}
      BY <3>1 DEF Numbered
    <3>3. \A t \in Tid : t # MAX_THREADS => next'[t] = t + 1
      BY <3>1 DEF RingNext
    <3>4. \A t \in Tid : ~(t < 1)
      BY <1>0
    <3> QED BY <1>0, <3>1, <3>2, <3>3, <3>4 DEF NumberInv
  <2>3. CASE LoadFirst \/ SwitchFirst
    <3>1. /\ UNCHANGED <<current, next, id, thread_ids>>
          /\ \A t \in Tid : at'[t] = at[t] /\ reg'[t] = reg[t]
      BY <1>0, <2>3 DEF LoadFirst, SwitchFirst, KmainGoes, ring, work
    <3>2. Numbered' = Numbered
      BY <3>1 DEF Numbered
    <3> QED BY <1>0, <3>1, <3>2 DEF NumberInv, LinkTypes
  <2> QED BY <1>1, <2>1, <2>2, <2>3 DEF Boot
<1>2. ASSUME NEW t \in Tid, Computing(t) PROVE NumberInv'
  <2>1. /\ current = t /\ current # NULL /\ UNCHANGED <<next, current>>
        /\ \A u \in Tid \ {t} : at'[u] = at[u]
    BY <1>2, ComputingKeeps, InThread
  <2>2. CASE at[t] = "entry"
    <3>1. at'[t] = "incr" /\ reg'[t] = thread_ids /\ UNCHANGED <<id, thread_ids>>
      BY <1>0, <1>2, <2>2, ComputingTable
    <3>2. Numbered' = Numbered /\ t \notin Numbered
      BY <2>1, <2>2, <3>1 DEF Numbered
    <3> QED BY <1>0, <2>1, <2>2, <3>1, <3>2 DEF NumberInv
  <2>3. CASE at[t] = "incr"
    <3>1. /\ at'[t] = "line" /\ thread_ids' = reg[t] + 1
          /\ id' = [id EXCEPT ![t] = reg[t]]
      BY <1>0, <1>2, <2>3, ComputingTable
    <3>2. Numbered' = Numbered \cup {t} /\ t \notin Numbered
      BY <2>1, <2>3, <3>1 DEF Numbered
    <3>3. reg[t] = t
      BY <1>0, <2>1, <2>3, <3>2 DEF NumberInv
    <3>4. \A u \in Numbered' : id'[u] = u
      BY <1>0, <2>1, <3>1, <3>2, <3>3 DEF NumberInv, Numbered
    <3> QED BY <1>0, <2>1, <3>1, <3>2, <3>3, <3>4 DEF NumberInv
  <2>4. CASE at[t] \notin {"entry", "incr"}
    <3>1. at'[t] \notin {"entry", "incr"} /\ UNCHANGED <<id, thread_ids>>
      BY <1>0, <1>2, <2>4, ComputingTable
    <3>2. Numbered' = Numbered /\ t \in Numbered
      BY <2>1, <2>4, <3>1 DEF Numbered
    <3> QED BY <1>0, <2>1, <3>1, <3>2 DEF NumberInv
  <2> QED BY <2>2, <2>3, <2>4
<1>3. ASSUME NEW t \in Tid, TurnOf(t) PROVE NumberInv'
  <2>1. /\ t \in Numbered /\ Numbered' = Numbered /\ current = t /\ current # NULL
        /\ UNCHANGED <<reg, id, thread_ids>>
        /\ \A u \in Tid \ {t} : at'[u] = at[u]
    BY <1>0, <1>3, TurnNumbered DEF TurnOf
  <2>2. CASE Numbered = Tid
    BY <1>0, <2>1, <2>2 DEF NumberInv
  <2>3. CASE Numbered # Tid /\ Halts(t)
    <3>1. UNCHANGED <<next, current>>
      BY <2>3 DEF Halts, HaltThere, ring
    <3>2. at'[t] \notin {"entry", "incr"}
      BY <2>1 DEF Numbered
    <3> QED BY <1>0, <2>1, <3>1, <3>2 DEF NumberInv
  <2>4. CASE Numbered # Tid /\ (Rotate \/ Unlink)
    <3>1. PICK u \in Tid : u \notin Numbered
      BY <2>4 DEF Numbered
    <3>2. t # MAX_THREADS /\ next[t] = t + 1 /\ t + 1 \in Tid
      BY <1>0, <2>1, <2>4, <3>1 DEF NumberInv
    <3>3. current' = t + 1
      BY <2>1, <2>4, <3>2 DEF Rotate, Unlink
    <3>4. \A v \in Tid : v > t /\ v # MAX_THREADS => next'[v] = v + 1
      <4>1. CASE Rotate
        BY <1>0, <2>1, <2>4, <4>1 DEF NumberInv, Rotate
      <4>2. CASE Unlink
        BY <1>0, <2>1, <2>4, <4>2, UnlinkLinks DEF NumberInv
      <4> QED BY <2>4, <4>1, <4>2
    <3>5. at'[t + 1] = "entry" /\ thread_ids = t + 1
      BY <1>0, <2>1, <2>4, <3>2 DEF NumberInv
    <3>6. \A v \in Tid : /\ (v < t + 1 => v \in Numbered)
                         /\ (v > t + 1 => at'[v] = "entry")
      BY <1>0, <2>1, <2>4, <3>2 DEF NumberInv
    <3>7. t + 1 \notin Numbered'
      BY <3>5 DEF Numbered
    <3> QED BY <1>0, <2>1, <3>3, <3>4, <3>5, <3>6, <3>7 DEF NumberInv
  <2> QED BY <1>3, <2>2, <2>3, <2>4 DEF TurnOf, Passes, Leaves
<1>4. CASE UNCHANGED vars
  BY <1>0, <1>4 DEF vars, NumberInv, Numbered
<1> QED BY <1>0, <1>1, <1>2, <1>3, <1>4, CalmSteps

(* A thread's counter counts its lines, and it is done with the last.      *)
LEMMA WorkStep ==
  ASSUME CalmStep, IInv, CalmInv, [Next]_vars
  PROVE  WorkInv'
<1>0. /\ OnInv /\ NumberInv /\ WorkInv
      /\ at \in [Ctx -> ThreadAt \cup KmainAt] /\ reg \in [Ctx -> Int]
      /\ zf \in [Tid -> BOOLEAN] /\ done \in [Tid -> BOOLEAN]
      /\ counter \in [Tid -> 0 .. Wrap - 1]
      /\ Tid \subseteq Ctx /\ Kmain \notin Tid /\ Kmain \in Ctx
      /\ Wrap \in Nat /\ ROUNDS \in Nat /\ ROUNDS < Wrap /\ ROUNDS > 0
  BY Constants, FifosAssumption DEF CalmInv, IInv, TypeOK
<1>1. CASE Boot
  <2>1. \A t \in Tid : /\ at'[t] = at[t] /\ reg'[t] = reg[t] /\ zf'[t] = zf[t]
                       /\ counter'[t] = counter[t] /\ done'[t] = done[t]
    <3>1. CASE ThreadCreate
      <4>1. \A t \in Tid : ~done[t]
        BY <3>1 DEF ThreadCreate, KmainIn, IInv, BootInv
      <4>2. /\ done' = [done EXCEPT ![reg[Kmain]] = FALSE]
            /\ reg' = [reg EXCEPT ![Kmain] = @ + 1] /\ UNCHANGED <<at, zf, counter>>
        BY <3>1 DEF ThreadCreate
      <4> QED BY <1>0, <4>1, <4>2
    <3>2. CASE BuildRunqueue \/ SetCurrent \/ LoadFirst \/ SwitchFirst
      BY <1>0, <3>2 DEF BuildRunqueue, SetCurrent, LoadFirst, SwitchFirst, KmainGoes, work
    <3> QED BY <1>1, <3>1, <3>2 DEF Boot
  <2> QED BY <1>0, <2>1 DEF WorkInv, WorkOf, Finished
<1>2. ASSUME NEW t \in Tid, Computing(t) PROVE WorkInv'
  <2>1. \A u \in Tid \ {t} : at'[u] = at[u] /\ reg'[u] = reg[u]
    BY <1>2, ComputingKeeps
  <2>2. ASSUME NEW u \in Tid, u # t PROVE WorkOf(u)'
    <3>1. zf'[u] = zf[u] /\ counter'[u] = counter[u] /\ done'[u] = done[u]
      BY <1>0, <1>2, <2>2, ComputingTable
    <3> QED BY <1>0, <2>1, <2>2, <3>1 DEF WorkInv, WorkOf, Finished
  <2>3. WorkOf(t)'
    <3>0. WorkOf(t) /\ counter[t] \in Nat
      BY <1>0 DEF WorkInv
    <3>1. CASE at[t] \in {"entry", "incr", "line"}
      <4>1. /\ at'[t] \in {"incr", "line", "yield", "count"}
            /\ counter'[t] = counter[t] /\ done'[t] = done[t]
            /\ at'[t] = "incr" => at[t] = "entry"
        BY <1>0, <1>2, <3>1, ComputingTable
      <4> QED BY <1>0, <3>0, <3>1, <4>1 DEF WorkOf, Finished
    <3>2. CASE at[t] = "count"
      <4>1. /\ at'[t] = "store" /\ reg'[t] = (counter[t] + 1) % Wrap
            /\ counter'[t] = counter[t] /\ done'[t] = done[t]
        BY <1>0, <1>2, <3>2, ComputingTable
      <4>2. counter[t] + 1 \in 0 .. Wrap - 1
        BY <1>0, <3>0, <3>2 DEF WorkOf
      <4>3. (counter[t] + 1) % Wrap = counter[t] + 1
        BY <1>0, <4>2
      <4> QED BY <1>0, <3>0, <3>2, <4>1, <4>3 DEF WorkOf, Finished
    <3>3. CASE at[t] = "store"
      <4>1. /\ at'[t] = "reload" /\ counter'[t] = reg[t] /\ done'[t] = done[t]
        BY <1>0, <1>2, <3>3, ComputingTable
      <4> QED BY <1>0, <3>0, <3>3, <4>1 DEF WorkOf, Finished
    <3>4. CASE at[t] = "reload"
      <4>1. /\ at'[t] = "cmp" /\ reg'[t] = counter[t]
            /\ counter'[t] = counter[t] /\ done'[t] = done[t]
        BY <1>0, <1>2, <3>4, ComputingTable
      <4> QED BY <1>0, <3>0, <3>4, <4>1 DEF WorkOf, Finished
    <3>5. CASE at[t] = "cmp"
      <4>1. /\ at'[t] = "branch" /\ zf' = [zf EXCEPT ![t] = reg[t] = ROUNDS]
            /\ counter'[t] = counter[t] /\ done'[t] = done[t]
        BY <1>0, <1>2, <3>5, ComputingTable
      <4>2. zf'[t] <=> counter'[t] = ROUNDS
        BY <1>0, <3>0, <3>5, <4>1, Zenon DEF WorkOf
      <4> QED BY <1>0, <3>0, <3>5, <4>1, <4>2 DEF WorkOf, Finished
    <3>6. CASE at[t] = "branch"
      <4>1. /\ at'[t] = (IF zf[t] THEN "finish" ELSE "line")
            /\ counter'[t] = counter[t] /\ done'[t] = done[t]
        BY <1>0, <1>2, <3>6, ComputingTable
      <4> QED BY <1>0, <3>0, <3>6, <4>1 DEF WorkOf, Finished
    <3>7. CASE at[t] = "finish"
      <4>1. at'[t] = "exit" /\ done'[t] /\ counter'[t] = counter[t]
        BY <1>0, <1>2, <3>7, ComputingTable
      <4> QED BY <1>0, <3>0, <3>7, <4>1 DEF WorkOf, Finished
    <3>8. CASE at[t] = "exit"
      <4>1. at'[t] = "hlt" /\ done'[t] = done[t] /\ counter'[t] = counter[t]
        BY <1>0, <1>2, <3>8, ComputingTable
      <4> QED BY <1>0, <3>0, <3>8, <4>1 DEF WorkOf, Finished
    <3> QED BY <1>0, <1>2, <3>1, <3>2, <3>3, <3>4, <3>5, <3>6, <3>7, <3>8, ComputingTable
  <2> QED BY <2>2, <2>3 DEF WorkInv
<1>3. ASSUME NEW t \in Tid, TurnOf(t) PROVE WorkInv'
  <2>1. UNCHANGED <<reg, counter, done>> /\ \A u \in Tid \ {t} : at'[u] = at[u] /\ zf'[u] = zf[u]
    BY <1>3 DEF TurnOf, Turns
  <2>2. \A u \in Tid \ {t} : WorkOf(u)'
    BY <1>0, <2>1 DEF WorkInv, WorkOf, Finished
  <2>3. WorkOf(t)'
    <3>1. WorkOf(t)
      BY <1>0 DEF WorkInv
    <3> QED BY <1>3, <2>1, <3>1 DEF TurnOf, Turns, WorkOf, Finished, Critical
  <2> QED BY <2>2, <2>3 DEF WorkInv
<1>4. CASE UNCHANGED vars
  BY <1>0, <1>4 DEF vars, WorkInv, WorkOf, Finished
<1> QED BY <1>0, <1>1, <1>2, <1>3, <1>4, CalmSteps

(* The threads that yield.                                                 *)

(* The links of the run queue in round r. *)
Linked(r) ==
  IF r < ROUNDS THEN next = RingNext
  ELSE /\ Ring = {t \in Tid : t >= current}
       /\ \A t \in Tid : t >= current /\ t # MAX_THREADS => next[t] = t + 1

(* A computing step is one of the first turn of a round, and stays in it.  *)
LEMMA StepComputes ==
  ASSUME IInv, CalmInv, FIFOS = 1, NEW t \in Tid, Computing(t),
         NEW r \in 0 .. ROUNDS, FirstTurn(r) \/ SecondTurn(r), Linked(r)
  PROVE  FirstTurn(r)' /\ Linked(r)'
<1>0. /\ OnInv /\ NumberInv /\ WorkInv /\ StepInv
      /\ counter \in [Tid -> 0 .. Wrap - 1] /\ Wrap \in Nat
  BY Constants DEF CalmInv, IInv, TypeOK
<1>1. /\ current = t /\ current # NULL /\ UNCHANGED <<next, prev, current>>
      /\ \A u \in Tid \ {t} : at'[u] = at[u]
  BY ComputingKeeps, InThread
<1>2. at[t] # "again" /\ FirstTurn(r)
  <2>1. at[t] # "again"
    BY <1>0, ComputingTable
  <2> QED BY <1>1, <2>1, Constants DEF SecondTurn
<1>3. \A u \in Tid \ {t} : counter'[u] = counter[u]
  BY <1>0, ComputingTable
<1>4. /\ at'[t] \in {"count", "store"} => counter'[t] = r - 1
      /\ at'[t] \notin {"count", "store"} => counter'[t] = r
      /\ at'[t] # "again"
  <2>1. CASE at[t] = "store"
    <3>1. at'[t] = "reload" /\ counter'[t] = reg[t]
      BY <1>0, <2>1, ComputingTable
    <3>2. reg[t] = counter[t] + 1 /\ counter[t] = r - 1
      BY <1>0, <1>1, <1>2, <2>1 DEF WorkInv, WorkOf, FirstTurn
    <3> QED BY <1>0, <3>1, <3>2
  <2>2. CASE at[t] # "store"
    <3>1. /\ counter'[t] = counter[t] /\ at'[t] # "again"
          /\ at'[t] \in {"count", "store"} <=> at[t] \in {"count", "store"}
      BY <1>0, <2>2, ComputingTable
    <3> QED BY <1>1, <1>2, <3>1 DEF FirstTurn
  <2> QED BY <2>1, <2>2
<1>5. FirstTurn(r)'
  BY <1>1, <1>2, <1>3, <1>4, Constants DEF FirstTurn
<1>6. Linked(r)'
  BY <1>1 DEF Linked, Ring
<1> QED BY <1>5, <1>6

(* A yield for the first time passes the first turn on, or begins the      *)
(* second. *)
LEMMA StepYields ==
  ASSUME IInv, CalmInv, FIFOS = 1, NEW t \in Tid, TurnOf(t), at[t] = "yield",
         NEW r \in 0 .. ROUNDS, FirstTurn(r) \/ SecondTurn(r), Linked(r)
  PROVE  (FirstTurn(r) \/ SecondTurn(r))' /\ Linked(r)'
<1>0. /\ WorkInv /\ Tid = 1 .. MAX_THREADS /\ MAX_THREADS \in Nat \ {0}
      /\ counter \in [Tid -> 0 .. Wrap - 1] /\ Wrap \in Nat /\ ROUNDS \in Nat /\ r \in Nat
  BY Constants, FifosAssumption DEF CalmInv, IInv, TypeOK, Tid
<1>1. /\ current = t /\ current # NULL /\ ~done[t] /\ at'[t] = "again" /\ counter' = counter
      /\ \A u \in Tid \ {t} : at'[u] = at[u]
  BY <1>0 DEF TurnOf, Turns, WorkInv, WorkOf, Finished, Critical
<1>2. Rotate /\ next' = next /\ current' = next[t]
  <2>1. Rotate
    BY <1>1 DEF TurnOf, Passes, Leaves, Halts
  <2> QED BY <1>1, <2>1 DEF Rotate
<1>3. FirstTurn(r) /\ counter[t] = r /\ r < ROUNDS /\ next = RingNext
  BY <1>0, <1>1 DEF FirstTurn, SecondTurn, WorkInv, WorkOf, Linked
<1>4. Linked(r)'
  BY <1>2, <1>3 DEF Linked
<1>5. CASE t = MAX_THREADS
  <2>1. current' = 1
    BY <1>0, <1>2, <1>3, <1>5 DEF RingNext
  <2>2. ASSUME NEW u \in Tid PROVE counter'[u] = r /\ at'[u] = "again" /\ ~(u < 1)
    <3>1. u # t => counter[u] = r /\ at[u] \in {"again", "exit"}
      BY <1>0, <1>1, <1>3, <1>5 DEF FirstTurn
    <3>2. u # t => at[u] # "exit"
      BY <1>0, <1>3, <3>1 DEF WorkInv, WorkOf, Finished
    <3> QED BY <1>0, <1>1, <1>3, <3>1, <3>2
  <2> QED BY <1>4, <2>1, <2>2 DEF SecondTurn
<1>6. CASE t # MAX_THREADS
  <2>1. current' = t + 1 /\ t + 1 \in Tid
    BY <1>0, <1>2, <1>3, <1>6 DEF RingNext
  <2>2. \A u \in Tid : u < t + 1 => counter'[u] = r /\ at'[u] \in {"again", "exit"}
    BY <1>0, <1>1, <1>3 DEF FirstTurn
  <2>3. \A u \in Tid : u > t =>
          (at'[u] = "entry" /\ r = 0) \/ (at'[u] = "count" /\ counter'[u] = r - 1)
    BY <1>0, <1>1, <1>3 DEF FirstTurn
  <2>4. at'[t + 1] = "entry" => counter'[t + 1] = 0
    BY <1>0, <1>1, <2>1 DEF WorkInv, WorkOf
  <2>5. /\ at'[t + 1] \in {"count", "store"} => counter'[t + 1] = r - 1
        /\ at'[t + 1] \notin {"count", "store"} => counter'[t + 1] = r
        /\ at'[t + 1] # "again"
    BY <1>0, <2>1, <2>3, <2>4
  <2>6. FirstTurn(r)'
    BY <1>0, <2>1, <2>2, <2>3, <2>5 DEF FirstTurn
  <2> QED BY <1>4, <2>6
<1> QED BY <1>5, <1>6

(* A yield that returns for the second time passes the second turn on, or  *)
(* begins the next round. *)
LEMMA StepReturns ==
  ASSUME IInv, CalmInv, FIFOS = 1, NEW t \in Tid, TurnOf(t), at[t] = "again",
         NEW r \in 0 .. ROUNDS, FirstTurn(r) \/ SecondTurn(r), Linked(r)
  PROVE  \/ SecondTurn(r)' /\ Linked(r)'
         \/ r + 1 \in 0 .. ROUNDS /\ FirstTurn(r + 1)' /\ Linked(r + 1)'
<1>0. /\ WorkInv /\ Tid = 1 .. MAX_THREADS /\ MAX_THREADS \in Nat \ {0}
      /\ LinkTypes /\ RingOK
      /\ counter \in [Tid -> 0 .. Wrap - 1] /\ Wrap \in Nat /\ ROUNDS \in Nat /\ r \in Nat
  BY Constants, FifosAssumption DEF CalmInv, IInv, TypeOK, Tid, LinkTypes
<1>1. /\ current = t /\ current # NULL /\ ~done[t] /\ at'[t] = "count" /\ counter' = counter
      /\ \A u \in Tid \ {t} : at'[u] = at[u]
  BY <1>0 DEF TurnOf, Turns, WorkInv, WorkOf, Finished, Critical
<1>2. Rotate /\ next' = next /\ current' = next[t]
  <2>1. Rotate
    BY <1>1 DEF TurnOf, Passes, Leaves, Halts
  <2> QED BY <1>1, <2>1 DEF Rotate
<1>3. SecondTurn(r)
  BY <1>1 DEF FirstTurn
<1>4. r < ROUNDS /\ next = RingNext
  BY <1>0, <1>3 DEF SecondTurn, WorkInv, WorkOf, Linked
<1>5. CASE t # MAX_THREADS
  <2>1. current' = t + 1
    BY <1>0, <1>2, <1>4, <1>5 DEF RingNext
  <2>2. SecondTurn(r)'
    BY <1>0, <1>1, <1>3, <2>1 DEF SecondTurn
  <2> QED BY <1>2, <1>4, <2>2 DEF Linked
<1>6. CASE t = MAX_THREADS
  <2>1. current' = 1
    BY <1>0, <1>2, <1>4, <1>6 DEF RingNext
  <2>2. \A u \in Tid : counter'[u] = r /\ at'[u] = "count" /\ ~(u < 1)
    BY <1>0, <1>1, <1>3, <1>6 DEF SecondTurn
  <2>3. FirstTurn(r + 1)'
    BY <1>0, <2>1, <2>2 DEF FirstTurn
  <2>4. Linked(r + 1)'
    <3>1. Ring = Tid
      <4>1. Ring \in SUBSET Tid /\ Ring # {} /\ \A u \in Ring : RingNext[u] \in Ring
        BY <1>0, <1>1, <1>4 DEF RingOK, Ring
      <4> QED BY <4>1, RingNextIsOneRing
    <3>2. Ring' = {u \in Tid : u >= 1}
      BY <1>0, <1>1, <1>2, <3>1, RotateRing
    <3>3. \A u \in Tid : u # MAX_THREADS => next'[u] = u + 1
      BY <1>2, <1>4 DEF RingNext
    <3> QED BY <1>2, <1>4, <2>1, <3>2, <3>3 DEF Linked
  <2> QED BY <1>0, <1>4, <2>3, <2>4
<1> QED BY <1>5, <1>6

(* In the last round a thread that exits leaves the others, those after    *)
(* it, in the queue. *)
LEMMA StepExits ==
  ASSUME IInv, CalmInv, FIFOS = 1, NEW t \in Tid, TurnOf(t), at[t] = "exit",
         NEW r \in 0 .. ROUNDS, FirstTurn(r) \/ SecondTurn(r), Linked(r)
  PROVE  FirstTurn(r)' /\ Linked(r)'
<1>0. /\ WorkInv /\ Tid = 1 .. MAX_THREADS /\ MAX_THREADS \in Nat \ {0}
      /\ LinkTypes /\ RingOK
      /\ counter \in [Tid -> 0 .. Wrap - 1] /\ Wrap \in Nat /\ ROUNDS \in Nat \ {0} /\ r \in Nat
  BY Constants, FifosAssumption DEF CalmInv, IInv, TypeOK, Tid, LinkTypes
<1>1. /\ current = t /\ current # NULL /\ done[t] /\ at'[t] = "exit" /\ counter' = counter
      /\ \A u \in Tid \ {t} : at'[u] = at[u]
  BY <1>0 DEF TurnOf, Turns, WorkInv, WorkOf, Finished, Critical
<1>2. FirstTurn(r) /\ r = ROUNDS /\ counter[t] = r
  BY <1>0, <1>1 DEF FirstTurn, SecondTurn, WorkInv, WorkOf, Finished
<1>3. /\ Ring = {u \in Tid : u >= t}
      /\ \A u \in Tid : u >= t /\ u # MAX_THREADS => next[u] = u + 1
  BY <1>0, <1>1, <1>2 DEF Linked
<1>4. CASE Halts(t)
  <2>1. UNCHANGED <<current, next, prev>>
    BY <1>4 DEF Halts, HaltThere, ring
  <2>2. Linked(r)'
    BY <2>1 DEF Linked, Ring
  <2>3. FirstTurn(r)'
    BY <1>1, <1>2, <2>1 DEF FirstTurn
  <2> QED BY <2>2, <2>3
<1>5. CASE Leaves(t) /\ Next1
  <2>1. Unlink /\ Ring' = Ring \ {t} /\ current' \in Ring' /\ current' = next[t]
    BY <1>1, <1>5 DEF Leaves, Next1, Unlink
  <2>2. t # MAX_THREADS
    BY <1>0, <1>3, <2>1
  <2>3. current' = t + 1 /\ t + 1 \in Tid
    BY <1>0, <1>3, <2>1, <2>2
  <2>4. Ring' = {u \in Tid : u >= t + 1}
    BY <1>0, <1>3, <2>1
  <2>5. \A u \in Tid : u >= t + 1 /\ u # MAX_THREADS => next'[u] = u + 1
    BY <1>0, <1>1, <1>3, <2>1, UnlinkLinks
  <2>6. Linked(r)'
    BY <1>0, <1>2, <2>3, <2>4, <2>5 DEF Linked
  <2>7. \A u \in Tid : u < t + 1 => counter'[u] = r /\ at'[u] \in {"again", "exit"}
    BY <1>0, <1>1, <1>2 DEF FirstTurn
  <2>8. \A u \in Tid : u > t => at'[u] = "count" /\ counter'[u] = r - 1
    BY <1>0, <1>1, <1>2 DEF FirstTurn
  <2>9. FirstTurn(r)'
    BY <1>0, <2>3, <2>7, <2>8 DEF FirstTurn
  <2> QED BY <2>6, <2>9
<1> QED BY <1>1, <1>4, <1>5 DEF TurnOf, Passes

(* Every step keeps the order of rounds and turns.                         *)
LEMMA StepStep ==
  ASSUME CalmStep, IInv, CalmInv, [Next]_vars
  PROVE  StepInv'
<1> DEFINE P == \E r \in 0 .. ROUNDS : (FirstTurn(r) \/ SecondTurn(r)) /\ Linked(r)
<1>0. StepInv = (FIFOS = 1 /\ current # NULL => P)
  BY DEF StepInv, Linked
<1>1. StepInv' = (FIFOS' = 1 /\ current' # NULL => P')
  BY DEF StepInv, Linked
<1> SUFFICES ASSUME FIFOS' = 1, current' # NULL PROVE P'
  BY <1>1
<1>2. FIFOS = 1 /\ StepInv
  BY LinkTypesStep DEF CalmInv
<1>3. CASE UNCHANGED <<current, next, prev>>
           /\ \A t \in Tid : at'[t] = at[t] /\ counter'[t] = counter[t]
  <2>1. current # NULL /\ current \in Tid
    BY <1>3 DEF IInv, TypeOK
  <2>2. PICK r \in 0 .. ROUNDS : (FirstTurn(r) \/ SecondTurn(r)) /\ Linked(r)
    BY <1>0, <1>2, <2>1
  <2>3. Linked(r)'
    BY <1>3, <2>2 DEF Linked, Ring
  <2>4. (FirstTurn(r) \/ SecondTurn(r))'
    BY <1>3, <2>1, <2>2 DEF FirstTurn, SecondTurn
  <2> QED BY <2>3, <2>4
<1>4. CASE Boot
  <2>0. /\ at \in [Ctx -> ThreadAt \cup KmainAt] /\ Tid \subseteq Ctx /\ Kmain \notin Tid
        /\ \A t \in Tid : ~(t < 1)
    BY Constants DEF IInv, TypeOK, Tid
  <2>1. CASE ThreadCreate \/ BuildRunqueue
    <3>1. current' = NULL
      BY <2>1 DEF ThreadCreate, BuildRunqueue, KmainIn, IInv, BootInv
    <3> QED BY <3>1
  <2>2. CASE SetCurrent
    <3>1. /\ current' = 1 /\ next' = RingNext
          /\ \A t \in Tid : at'[t] = "entry" /\ counter'[t] = 0
      BY <2>0, <2>2 DEF SetCurrent, KmainIn, KmainGoes, IInv, BootInv, work,
                        CalmInv, WorkInv, WorkOf
    <3>2. FirstTurn(0)'
      BY <2>0, <3>1, Constants DEF FirstTurn
    <3>3. Linked(0)' /\ 0 \in 0 .. ROUNDS
      BY <3>1, FifosAssumption DEF Linked
    <3> QED BY <3>2, <3>3
  <2>3. CASE LoadFirst \/ SwitchFirst
    BY <1>3, <2>0, <2>3 DEF LoadFirst, SwitchFirst, KmainGoes, ring, work
  <2> QED BY <1>4, <2>1, <2>2, <2>3 DEF Boot
<1>5. ASSUME NEW t \in Tid, Computing(t) PROVE P'
  <2>1. current # NULL
    BY <1>5, ComputingKeeps, InThread
  <2>2. PICK r \in 0 .. ROUNDS : (FirstTurn(r) \/ SecondTurn(r)) /\ Linked(r)
    BY <1>0, <1>2, <2>1
  <2>3. FirstTurn(r)' /\ Linked(r)'
    BY <1>2, <1>5, <2>2, StepComputes
  <2> QED BY <2>3
<1>6. ASSUME NEW t \in Tid, TurnOf(t) PROVE P'
  <2>1. current # NULL
    BY <1>6 DEF TurnOf
  <2>2. PICK r \in 0 .. ROUNDS : (FirstTurn(r) \/ SecondTurn(r)) /\ Linked(r)
    BY <1>0, <1>2, <2>1
  <2>3. CASE at[t] = "yield"
    <3>1. (FirstTurn(r) \/ SecondTurn(r))' /\ Linked(r)'
      BY <1>2, <1>6, <2>2, <2>3, StepYields
    <3> QED BY <3>1
  <2>4. CASE at[t] = "again"
    <3>1. \/ SecondTurn(r)' /\ Linked(r)'
          \/ r + 1 \in 0 .. ROUNDS /\ FirstTurn(r + 1)' /\ Linked(r + 1)'
      BY <1>2, <1>6, <2>2, <2>4, StepReturns
    <3> QED BY <3>1
  <2>5. CASE at[t] = "exit"
    <3>1. FirstTurn(r)' /\ Linked(r)'
      BY <1>2, <1>6, <2>2, <2>5, StepExits
    <3> QED BY <3>1
  <2> QED BY <1>2, <1>6, <2>3, <2>4, <2>5 DEF TurnOf, Turns
<1>7. CASE UNCHANGED vars
  BY <1>3, <1>7 DEF vars
<1> QED BY <1>4, <1>5, <1>6, <1>7, CalmSteps DEF CalmInv

-----------------------------------------------------------------------------
(* The line comes back to its head *)

(* Where the links and the current thread stay, so do the hops. *)
LEMMA SameHops ==
  ASSUME UNCHANGED <<next, current>>
  PROVE  \A n \in 0 .. MAX_THREADS : Hop'[n] = Hop[n]
<1> DEFINE S == {n \in Nat : n <= MAX_THREADS => Hop'[n] = Hop[n]}
<1>0. MAX_THREADS \in Nat \ {0}
  BY Constants
<1>1. 0 \in S
  BY HopFacts, HopFactsNext DEF Hops
<1>2. ASSUME NEW n \in Nat, n \in S PROVE n + 1 \in S
  <2>1. CASE n + 1 <= MAX_THREADS
    <3>1. n + 1 \in 1 .. MAX_THREADS /\ (n + 1) - 1 = n /\ Hop'[n] = Hop[n]
      BY <1>0, <1>2, <2>1
    <3>2. /\ Hop[n + 1] = next[Hop[(n + 1) - 1]]
          /\ Hop'[n + 1] = next'[Hop'[(n + 1) - 1]]
      BY <3>1, HopFacts, HopFactsNext DEF Hops
    <3> QED BY <3>1, <3>2
  <2> QED BY <2>1
<1> HIDE DEF S
<1>3. Nat \subseteq S
  BY <1>1, <1>2, SetInduction
<1> QED BY <1>0, <1>3 DEF S

(* The ring of all threads is passed through in the order of creation.     *)
LEMMA FirstHops ==
  ASSUME next' = RingNext, current' = 1
  PROVE  /\ \A n \in 0 .. MAX_THREADS - 1 : Hop'[n] = n + 1
         /\ Hop'[MAX_THREADS] = 1
<1> DEFINE S == {n \in Nat : n <= MAX_THREADS - 1 => Hop'[n] = n + 1}
<1>0. MAX_THREADS \in Nat \ {0} /\ Tid = 1 .. MAX_THREADS
  BY Constants DEF Tid
<1>1. 0 \in S
  BY HopFactsNext
<1>2. ASSUME NEW n \in Nat, n \in S PROVE n + 1 \in S
  <2>1. CASE n + 1 <= MAX_THREADS - 1
    <3>1. /\ n + 1 \in 1 .. MAX_THREADS /\ (n + 1) - 1 = n /\ Hop'[n] = n + 1
          /\ n + 1 \in Tid /\ n + 1 # MAX_THREADS
      BY <1>0, <1>2, <2>1
    <3>2. Hop'[n + 1] = next'[Hop'[(n + 1) - 1]]
      BY <3>1, HopFactsNext
    <3>3. Hop'[n + 1] = RingNext[n + 1]
      BY <3>1, <3>2
    <3> QED BY <3>1, <3>3 DEF RingNext
  <2> QED BY <2>1
<1> HIDE DEF S
<1>3. Nat \subseteq S
  BY <1>1, <1>2, SetInduction
<1>4. \A n \in 0 .. MAX_THREADS - 1 : Hop'[n] = n + 1
  BY <1>0, <1>3 DEF S
<1>5. Hop'[MAX_THREADS] = 1
  <2>1. /\ MAX_THREADS \in 1 .. MAX_THREADS
        /\ MAX_THREADS - 1 \in 0 .. MAX_THREADS - 1 /\ (MAX_THREADS - 1) + 1 = MAX_THREADS
    BY <1>0
  <2>2. Hop'[MAX_THREADS] = RingNext[MAX_THREADS]
    BY <1>4, <2>1, HopFactsNext
  <2> QED BY <1>0, <2>2 DEF RingNext
<1> QED BY <1>4, <1>5

(* Which steps change the line. *)
LEMMA RingSteps ==
  ASSUME CalmStep, IInv, CalmInv, [Next]_vars
  PROVE  \/ current' = NULL /\ current = NULL
         \/ SetCurrent
         \/ UNCHANGED <<next, prev, current, threads>>
         \/ \E t \in Tid : TurnOf(t) /\ (Passes(t) \/ Leaves(t))
<1>1. CASE Boot
  BY <1>1 DEF Boot, ThreadCreate, BuildRunqueue, LoadFirst, SwitchFirst, KmainIn, ring,
              IInv, BootInv
<1>2. CASE \E t \in Tid : Computing(t)
  BY <1>2, ComputingKeeps
<1>3. ASSUME NEW t \in Tid, TurnOf(t)
      PROVE  UNCHANGED <<next, prev, current, threads>> \/ Passes(t) \/ Leaves(t)
  BY <1>3 DEF TurnOf, Halts, HaltThere, ring
<1>4. CASE UNCHANGED vars
  BY <1>4 DEF vars
<1> QED BY <1>1, <1>2, <1>3, <1>4, CalmSteps DEF CalmInv

(* In every step the line remains one that comes back to its head.         *)
LEMMA LineStep ==
  ASSUME CalmStep, IInv, CalmInv, LineInv, [Next]_vars
  PROVE  LineInv'
<1>0. LinkTypes /\ RingOK /\ MAX_THREADS \in Nat \ {0} /\ Tid = 1 .. MAX_THREADS
  BY Constants DEF IInv, TypeOK, LinkTypes, Tid
<1>1. CASE current' = NULL
  BY <1>1 DEF LineInv
<1>2. CASE SetCurrent
  <2>1. current' = 1 /\ next' = RingNext /\ threads' = MAX_THREADS
    BY <1>2 DEF SetCurrent, KmainIn, IInv, BootInv
  <2>2. next'[Hop'[threads' - 1]] = current'
    <3>1. MAX_THREADS \in 1 .. MAX_THREADS
      BY <1>0
    <3> QED BY <2>1, <3>1, FirstHops, HopFactsNext
  <2>3. ASSUME NEW n \in 0 .. threads' - 1, NEW m \in 0 .. threads' - 1, Hop'[n] = Hop'[m]
        PROVE  n = m
    <3>1. n + 1 = m + 1
      BY <2>1, <2>3, FirstHops
    <3> QED BY <1>0, <2>1, <3>1
  <2> QED BY <2>2, <2>3 DEF LineInv
<1>3. CASE UNCHANGED <<next, prev, current, threads>>
  <2>1. threads \in 1 .. MAX_THREADS
    BY <1>0 DEF LinkTypes
  <2>2. \A n \in 0 .. threads - 1 : Hop'[n] = Hop[n]
    BY <1>0, <1>3, <2>1, SameHops
  <2> QED BY <1>0, <1>3, <2>1, <2>2 DEF LineInv
<1>4. ASSUME NEW t \in Tid, TurnOf(t), Passes(t) \/ Leaves(t) PROVE LineInv'
  BY <1>0, <1>4, RotateLine, UnlinkLine DEF TurnOf, Passes, Leaves
<1> QED BY <1>1, <1>2, <1>3, <1>4, RingSteps

-----------------------------------------------------------------------------
(* Calm ticks: the invariant *)

CalmAll == IInv /\ CalmInv /\ LineInv

(* So it all begins. *)
LEMMA CalmBegins == Init => CalmAll
<1> SUFFICES ASSUME Init PROVE CalmAll
  OBVIOUS
<1>1. IInv
  BY InitInv
<1>2. /\ current = NULL /\ on = Kmain /\ at[Kmain] = "create"
      /\ \A t \in Tid : at[t] = "entry" /\ counter[t] = 0 /\ done[t] = FALSE
  BY Constants DEF Init
<1>3. OnInv /\ NumberInv /\ StepInv /\ LineInv
  BY <1>2, Constants DEF OnInv, NumberInv, StepInv, LineInv
<1>4. WorkInv
  BY <1>2, FifosAssumption DEF WorkInv, WorkOf, Finished
<1> QED BY <1>1, <1>3, <1>4 DEF CalmAll, CalmInv

(* And so it stays. *)
LEMMA CalmStays ==
  ASSUME CalmStep, CalmAll, [Next]_vars
  PROVE  CalmAll'
<1>1. IInv'
  BY InvStays DEF CalmAll
<1> QED BY <1>1, OnStep, NumberStep, WorkStep, StepStep, LineStep DEF CalmAll, CalmInv

-----------------------------------------------------------------------------
(* The round robin *)

IsLine ==
  current # NULL =>
    /\ line \in Seq(Tid) /\ Len(line) = threads /\ line # << >>
    /\ \A i \in 1 .. threads : line[i] = Hop[i - 1]
    /\ Head(line) = current

(* The line is a sequence of threads with the current one at its head.     *)
LEMMA LineFacts == IInv => IsLine
<1> SUFFICES ASSUME IInv, current # NULL PROVE IsLine
  BY DEF IsLine
<1>1. threads \in Nat \ {0} /\ threads <= MAX_THREADS /\ MAX_THREADS \in Nat
  BY Constants DEF IInv, TypeOK, Tid
<1>2. \A i \in 1 .. threads : Hop[i - 1] \in Tid
  BY <1>1, HopsInRing DEF IInv, Ring
<1>3. line = [i \in 1 .. threads |-> Hop[i - 1]]
  BY DEF line
<1>4. line \in Seq(Tid) /\ Len(line) = threads
  <2>1. line \in [1 .. threads -> Tid]
    BY <1>2, <1>3
  <2> QED BY <1>1, <2>1
<1>5. line # << >> /\ Head(line) = line[1]
  BY <1>1, <1>4
<1>6. \A i \in 1 .. threads : line[i] = Hop[i - 1]
  BY <1>3
<1>7. line[1] = current
  BY <1>1, <1>6, HopFacts DEF Hops
<1> QED BY <1>4, <1>5, <1>6, <1>7 DEF IsLine

(* So is the line after a step. *)
LEMMA LineFactsNext == IInv' => IsLine'
BY LineFacts, PTL

(* Where the ring stays, the line stays. *)
LEMMA LineSame ==
  ASSUME IInv, UNCHANGED <<next, current, threads>>
  PROVE  line' = line
<1>1. threads \in 1 .. MAX_THREADS /\ MAX_THREADS \in Nat
  BY Constants DEF IInv, TypeOK, Tid
<1>2. \A i \in 1 .. threads : Hop'[i - 1] = Hop[i - 1]
  BY <1>1, SameHops
<1> QED BY <1>1, <1>2 DEF line

(* Rotating the ring sends the head of the line to its end. *)
LEMMA LineRotates ==
  ASSUME CalmAll, CalmAll', current # NULL, Rotate
  PROVE  line' = Append(Tail(line), Head(line))
<1>1. /\ LinkTypes /\ RingOK /\ LineInv /\ IsLine /\ IsLine'
      /\ threads \in Nat \ {0} /\ threads' = threads /\ current' # NULL
  BY LineFacts, LineFactsNext, RotateRing, Constants
     DEF CalmAll, IInv, TypeOK, LinkTypes, Tid, Ring, Rotate
<1> DEFINE moved == Append(Tail(line), Head(line))
<1>2. /\ Tail(line) \in Seq(Tid) /\ Len(Tail(line)) = threads - 1 /\ Head(line) \in Tid
      /\ \A i \in 1 .. threads - 1 : Tail(line)[i] = line[i + 1]
  BY <1>1, HeadTailProperties DEF IsLine
<1>3. /\ moved \in Seq(Tid) /\ Len(moved) = threads
      /\ \A i \in 1 .. threads - 1 : moved[i] = line[i + 1]
      /\ moved[threads] = current
  BY <1>1, <1>2, AppendProperties DEF IsLine
<1>4. line' \in Seq(Tid) /\ Len(line') = threads /\ \A i \in 1 .. threads : line'[i] = Hop'[i - 1]
  BY <1>1 DEF IsLine
<1>5. ASSUME NEW i \in 1 .. threads PROVE line'[i] = moved[i]
  <2>1. CASE i = threads
    BY <1>1, <1>3, <1>4, <2>1, RotateLine
  <2>2. CASE i # threads
    <3>1. i - 1 \in 0 .. threads - 2 /\ i + 1 \in 1 .. threads /\ (i + 1) - 1 = (i - 1) + 1
          /\ i \in 1 .. threads - 1
      BY <1>1, <2>2
    <3>2. Hop'[i - 1] = Hop[(i - 1) + 1]
      BY <1>1, <3>1, RotateLine
    <3>3. line[i + 1] = Hop[(i - 1) + 1]
      BY <1>1, <3>1 DEF IsLine
    <3> QED BY <1>3, <1>4, <3>1, <3>2, <3>3
  <2> QED BY <2>1, <2>2
<1> HIDE DEF moved
<1>6. line' = moved
  BY <1>3, <1>4, <1>5, SeqEqual
<1> QED BY <1>6 DEF moved

(* Unlinking takes the head out of the line. *)
LEMMA LineUnlinks ==
  ASSUME CalmAll, CalmAll', current # NULL, Unlink
  PROVE  line' = Tail(line) /\ Len(line) > 1
<1>1. /\ LinkTypes /\ RingOK /\ LineInv /\ IsLine /\ IsLine'
      /\ threads \in Nat /\ threads > 1 /\ threads' = threads - 1 /\ current' # NULL
  BY LineFacts, LineFactsNext, UnlinkRing, UnlinkLine, Constants
     DEF CalmAll, IInv, TypeOK, LinkTypes, Tid, Ring
<1>2. /\ Tail(line) \in Seq(Tid) /\ Len(Tail(line)) = threads - 1
      /\ \A i \in 1 .. threads - 1 : Tail(line)[i] = line[i + 1]
  BY <1>1, HeadTailProperties DEF IsLine
<1>3. /\ line' \in Seq(Tid) /\ Len(line') = threads - 1
      /\ \A i \in 1 .. threads - 1 : line'[i] = Hop'[i - 1]
  BY <1>1 DEF IsLine
<1>4. ASSUME NEW i \in 1 .. threads - 1 PROVE line'[i] = Tail(line)[i]
  <2>1. i - 1 \in 0 .. threads - 2 /\ i + 1 \in 1 .. threads /\ (i + 1) - 1 = (i - 1) + 1
    BY <1>1
  <2>2. Hop'[i - 1] = Hop[(i - 1) + 1]
    BY <1>1, <2>1, UnlinkLine
  <2>3. line[i + 1] = Hop[(i - 1) + 1]
    BY <1>1, <2>1 DEF IsLine
  <2> QED BY <1>2, <1>3, <2>1, <2>2, <2>3
<1>5. line' = Tail(line)
  BY <1>2, <1>3, <1>4, SeqEqual
<1> QED BY <1>1, <1>5 DEF IsLine

FinishedOnes == {t \in Tid : Finished(t)}

(* Setting current starts the line in the order of creation. *)
LEMMA StartRefines ==
  ASSUME CalmAll, SetCurrent
  PROVE  Line!Start
<1>1. /\ current = NULL /\ on = Kmain /\ on' = Kmain
      /\ current' = 1 /\ next' = RingNext /\ threads' = MAX_THREADS
      /\ \A t \in Tid : at'[t] = at[t]
  BY Constants DEF CalmAll, SetCurrent, KmainIn, KmainGoes, IInv, BootInv, TypeOK
<1>2. line = << >>
  BY <1>1 DEF line
<1>3. line' = [i \in 1 .. MAX_THREADS |-> i]
  <2>1. \A i \in 1 .. MAX_THREADS : Hop'[i - 1] = i
    BY <1>1, FirstHops, Constants
  <2>2. line' = [i \in 1 .. MAX_THREADS |-> Hop'[i - 1]]
    BY <1>1, Constants DEF line
  <2> QED BY <2>1, <2>2
<1>4. FinishedOnes' = FinishedOnes
  BY <1>1 DEF FinishedOnes, Finished
<1>5. (on = Halted)' = (on = Halted)
  BY <1>1
<1> QED BY <1>2, <1>3, <1>4, <1>5 DEF Line!Start, FinishedOnes

(* SetDone finishes the work of the current thread, all other computing    *)
(* steps are not seen. *)
LEMMA ComputingRefines ==
  ASSUME CalmAll, NEW t \in Tid, Computing(t)
  PROVE  Line!Finish \/ UNCHANGED Line!rrVars
<1>1. /\ on = t /\ current = t /\ current # NULL /\ UNCHANGED <<on, next, current, threads>>
      /\ \A u \in Tid \ {t} : at'[u] = at[u]
  BY ComputingKeeps, InThread DEF CalmAll
<1>2. line' = line /\ line # << >> /\ Head(line) = t
  BY <1>1, LineSame, LineFacts DEF CalmAll, IsLine
<1>3. (on = Halted)' = (on = Halted)
  BY <1>1
<1>4. CASE at[t] = "finish"
  <2>1. at'[t] = "exit"
    BY <1>4, ComputingTable DEF CalmAll, CalmInv
  <2>2. t \notin FinishedOnes /\ FinishedOnes' = FinishedOnes \cup {t}
    BY <1>1, <1>4, <2>1 DEF FinishedOnes, Finished
  <2> QED BY <1>2, <1>3, <2>2 DEF Line!Finish, FinishedOnes
<1>5. CASE at[t] # "finish"
  <2>1. Finished(t)' <=> Finished(t)
    BY <1>5, ComputingTable DEF CalmAll, CalmInv, Finished
  <2>2. FinishedOnes' = FinishedOnes
    BY <1>1, <2>1 DEF FinishedOnes, Finished
  <2> QED BY <1>2, <1>3, <2>2 DEF Line!rrVars, FinishedOnes
<1> QED BY <1>4, <1>5

(* A turn that ends passes it on, leaves the line, or stops the kernel.    *)
LEMMA TurnRefines ==
  ASSUME CalmAll, CalmAll', NEW t \in Tid, TurnOf(t)
  PROVE  Line!Pass \/ Line!Leave \/ Line!Stop
<1>1. /\ on = t /\ current = t /\ current # NULL /\ WorkInv
      /\ \A u \in Tid \ {t} : at'[u] = at[u]
  BY DEF TurnOf, CalmAll, CalmInv
<1>2. IsLine /\ line # << >> /\ Head(line) = t
  BY <1>1, LineFacts DEF CalmAll, IsLine
<1>3. FinishedOnes' = FinishedOnes
  <2>1. Finished(t)' <=> Finished(t)
    BY DEF TurnOf, Turns, Finished, Critical
  <2> QED BY <1>1, <2>1 DEF FinishedOnes, Finished
<1>4. t \in FinishedOnes <=> done[t]
  BY <1>1 DEF WorkInv, WorkOf, FinishedOnes
<1>5. on # Halted
  BY <1>1, Constants
<1>6. CASE Passes(t) /\ Next1
  <2>1. (on = Halted)' = (on = Halted)
    BY <1>5, <1>6, Constants DEF Next1
  <2>2. line' = Append(Tail(line), Head(line))
    BY <1>1, <1>6, LineRotates DEF Passes
  <2>3. Head(line) \notin FinishedOnes
    BY <1>2, <1>4, <1>6 DEF Passes
  <2> QED BY <1>2, <1>3, <2>1, <2>2, <2>3 DEF Line!Pass, FinishedOnes
<1>7. CASE Leaves(t) /\ Next1
  <2>1. (on = Halted)' = (on = Halted)
    BY <1>5, <1>7, Constants DEF Next1
  <2>2. line' = Tail(line) /\ Len(line) > 1
    BY <1>1, <1>7, LineUnlinks DEF Leaves
  <2>3. Head(line) \in FinishedOnes
    BY <1>2, <1>4, <1>7 DEF Leaves
  <2> QED BY <1>3, <2>1, <2>2, <2>3 DEF Line!Leave, FinishedOnes
<1>8. CASE Halts(t)
  <2>1. threads = 1 /\ UNCHANGED <<next, current, threads>> /\ on' = Halted
    BY <1>8 DEF Halts, HaltThere, ring
  <2>2. line' = line /\ Len(line) = 1
    BY <1>1, <1>2, <2>1, LineSame DEF CalmAll, IsLine
  <2>3. Head(line) \in FinishedOnes
    BY <1>2, <1>4, <1>8 DEF Halts
  <2>4. (on = Halted)' = TRUE
    BY <2>1
  <2> QED BY <1>3, <2>2, <2>3, <2>4 DEF Line!Stop, FinishedOnes
<1> QED BY <1>6, <1>7, <1>8 DEF TurnOf

(* All other steps of boot are not seen. *)
LEMMA BootRefines ==
  ASSUME CalmAll, Boot, ~SetCurrent
  PROVE  UNCHANGED Line!rrVars
<1>1. on = Kmain /\ on' # Halted
  BY Constants DEF Boot, ThreadCreate, BuildRunqueue, LoadFirst, SwitchFirst, KmainIn,
                   CalmAll, CalmInv, OnInv
<1>2. (on = Halted)' = (on = Halted)
  BY <1>1, Constants
<1>3. FinishedOnes' = FinishedOnes
  <2>1. \A t \in Tid : at'[t] = at[t]
    BY Constants DEF Boot, ThreadCreate, BuildRunqueue, LoadFirst, SwitchFirst, KmainGoes,
                     CalmAll, IInv, TypeOK
  <2> QED BY <2>1 DEF FinishedOnes, Finished
<1>4. line' = line
  <2>1. CASE ThreadCreate \/ BuildRunqueue
    <3>1. current = NULL /\ current' = NULL
      BY <2>1 DEF ThreadCreate, BuildRunqueue, KmainIn, CalmAll, IInv, BootInv
    <3> QED BY <3>1 DEF line
  <2>2. CASE LoadFirst \/ SwitchFirst
    <3>1. UNCHANGED <<next, current, threads>>
      BY <2>2 DEF LoadFirst, SwitchFirst, ring
    <3> QED BY <3>1, LineSame DEF CalmAll
  <2> QED BY <2>1, <2>2 DEF Boot
<1> QED BY <1>2, <1>3, <1>4 DEF Line!rrVars, FinishedOnes

-----------------------------------------------------------------------------
(* The program that yields *)

(* Built with FIFOS = 1 the kernel takes no tick: boot is undisturbed,     *)
(* numbers are given out in order, counters and rounds are in step with    *)
(* the places of the threads, and the ring is the line of the turns.       *)
THEOREM YieldersCalm ==
  ASSUME Modes = {1}
  PROVE  Spec => []CalmAll
<1>1. CalmAll /\ [Next]_vars => CalmAll'
  <2> SUFFICES ASSUME CalmAll, [Next]_vars PROVE CalmAll'
    OBVIOUS
  <2>1. FIFOS = 1
    BY DEF CalmAll, IInv, TypeOK
  <2>2. CalmStep
    BY <2>1 DEF CalmStep, Tick
  <2> QED BY <2>2, CalmStays
<1> QED BY <1>1, CalmBegins, PTL DEF Spec

(* A thread of it is marked done after its last line.                      *)
THEOREM DoneAfterLastLine ==
  ASSUME Modes = {1}
  PROVE  Spec => []DoneIsDone
<1>1. CalmAll => DoneIsDone
  BY DEF CalmAll, CalmInv, OnInv, WorkInv, WorkOf, DoneIsDone
<1> QED BY <1>1, YieldersCalm, PTL

(* No thread is two lines ahead of another. *)
InStepNow == \A t, u \in Tid : LinesOf(t) <= LinesOf(u) + 1

(* Its threads print in step: whatever the number of threads and rounds,   *)
(* none is two lines ahead of another. *)
THEOREM LinesInStep ==
  ASSUME Modes = {1}
  PROVE  Spec => InStep
<1>1. CalmAll => InStepNow
  <2> SUFFICES ASSUME CalmAll, NEW t \in Tid, NEW u \in Tid
               PROVE  LinesOf(t) <= LinesOf(u) + 1
    BY DEF InStepNow
  <2>0. FIFOS = 1
    BY DEF CalmAll, IInv, TypeOK
  <2>1. WorkInv /\ counter[t] \in Nat /\ counter[u] \in Nat /\ Tid \subseteq Nat
    BY Constants DEF CalmAll, CalmInv, IInv, TypeOK
  <2>2. CASE current = NULL
    BY <2>0, <2>1, <2>2 DEF CalmAll, IInv, BootInv, WorkInv, WorkOf, LinesOf
  <2>3. CASE current # NULL
    <3>0. current \in Nat
      BY <2>1, <2>3 DEF CalmAll, IInv, TypeOK
    <3>1. PICK r \in 0 .. ROUNDS : FirstTurn(r) \/ SecondTurn(r)
      BY <2>0, <2>3 DEF CalmAll, CalmInv, StepInv
    <3>2. \A v \in Tid : LinesOf(v) = r \/ LinesOf(v) = r + 1
      <4> SUFFICES ASSUME NEW v \in Tid PROVE LinesOf(v) = r \/ LinesOf(v) = r + 1
        OBVIOUS
      <4>1. at[v] = "entry" => counter[v] = 0
        BY <2>1 DEF WorkInv, WorkOf
      <4>2. r \in Nat
        BY FifosAssumption
      <4> QED BY <2>1, <3>0, <3>1, <4>1, <4>2 DEF FirstTurn, SecondTurn, LinesOf
    <3> QED BY <2>0, <2>1, <3>2, FifosAssumption
  <2> QED BY <2>2, <2>3
<1>2. CalmAll /\ [Next]_vars =>
        \A t \in Tid : LinesOf(t)' = LinesOf(t) + IF PrintLine(t) THEN 1 ELSE 0
  <2> SUFFICES ASSUME CalmAll, [Next]_vars, NEW v \in Tid
               PROVE  LinesOf(v)' = LinesOf(v) + IF PrintLine(v) THEN 1 ELSE 0
    OBVIOUS
  <2>0. /\ FIFOS = 1 /\ NumberInv /\ WorkOf(v) /\ counter[v] \in Nat
        /\ counter \in [Tid -> 0 .. Wrap - 1]
        /\ ROUNDS \in Nat /\ Wrap \in Nat /\ ROUNDS < Wrap
    BY Constants, FifosAssumption DEF CalmAll, CalmInv, IInv, TypeOK, WorkInv
  <2>1. ASSUME at'[v] = at[v], counter'[v] = counter[v] PROVE LinesOf(v)' = LinesOf(v)
    BY <2>1 DEF LinesOf
  <2>2. ASSUME PrintLine(v) PROVE Computing(v) /\ on = v /\ at[v] = "line" /\ at'[v] = "yield"
    <3>1. Computing(v) /\ on = v /\ at[v] = "line"
      BY <2>2 DEF Computing, PrintLine, In
    <3>2. at'[v] = "yield"
      BY <2>0, <3>1, ComputingTable DEF CalmAll
    <3> QED BY <3>1, <3>2
  <2>3. CASE Computing(v)
    <3>1. CASE at[v] = "line"
      <4>1. PrintLine(v)
        BY <2>3, <3>1 DEF Computing, LoadId, StoreId, LoadCounter, StoreCounter,
           ReloadCounter, Compare, Branch, SetDone, ExitWaits, In
      <4>2. at'[v] = "yield" /\ counter'[v] = counter[v]
        BY <2>0, <2>3, <3>1, ComputingTable DEF CalmAll
      <4> QED BY <2>0, <3>1, <4>1, <4>2 DEF LinesOf
    <3>2. CASE at[v] # "line"
      <4>1. ~PrintLine(v)
        BY <2>2, <3>2
      <4>2. CASE at[v] = "store"
        <5>1. at'[v] = "reload" /\ counter'[v] = counter[v] + 1
          BY <2>0, <2>3, <4>2, ComputingTable DEF CalmAll, WorkOf
        <5> QED BY <2>0, <4>1, <4>2, <5>1 DEF LinesOf
      <4>3. CASE at[v] # "store"
        <5>1. /\ counter'[v] = counter[v]
              /\ at[v] \in {"yield", "again", "count", "store"}
                   <=> at'[v] \in {"yield", "again", "count", "store"}
          BY <2>0, <2>3, <3>2, <4>3, ComputingTable DEF CalmAll
        <5> QED BY <2>0, <4>1, <5>1 DEF LinesOf
      <4> QED BY <4>2, <4>3
    <3> QED BY <3>1, <3>2
  <2>4. CASE ~Computing(v)
    <3>1. ~PrintLine(v)
      BY <2>2, <2>4
    <3>2. /\ counter'[v] = counter[v]
          /\ \/ at'[v] = at[v]
             \/ at[v] = "yield" /\ at'[v] = "again"
             \/ at[v] = "again" /\ at'[v] = "count"
      <4>1. CASE Boot
        BY <4>1, Constants DEF Boot, ThreadCreate, BuildRunqueue, SetCurrent, LoadFirst, SwitchFirst,
                               KmainGoes, work, CalmAll, IInv, TypeOK
      <4>2. ASSUME NEW u \in Tid, Computing(u) PROVE at'[v] = at[v] /\ counter'[v] = counter[v]
        <5>1. u # v
          BY <2>4, <4>2
        <5> QED BY <2>0, <4>2, <5>1, ComputingKeeps, ComputingTable DEF CalmAll
      <4>3. ASSUME NEW u \in Tid, Yield(u)
            PROVE  /\ counter' = counter
                   /\ \/ at'[v] = at[v]
                      \/ at[v] = "yield" /\ at'[v] = "again"
                      \/ at[v] = "again" /\ at'[v] = "count"
        BY <4>3, Constants DEF Yield, In, Goes, work, CalmAll, IInv, TypeOK
      <4>4. ASSUME NEW u \in Tid, ExitDispatches(u) \/ ExitReturns(u)
            PROVE  at' = at /\ counter' = counter
        BY <4>4 DEF ExitDispatches, ExitReturns, work
      <4>5. ~Tick
        BY <2>0 DEF Tick
      <4>6. CASE UNCHANGED vars
        BY <4>6 DEF vars
      <4> QED BY <4>1, <4>2, <4>3, <4>4, <4>5, <4>6, StepKinds
    <3> QED BY <2>0, <3>1, <3>2 DEF LinesOf
  <2> QED BY <2>3, <2>4
<1>3. ASSUME CalmAll, CalmAll', [Next]_vars
      PROVE  FIFOS = 1 =>
               /\ \A t \in Tid : LinesOf(t)' = LinesOf(t) + IF PrintLine(t) THEN 1 ELSE 0
               /\ \A t, u \in Tid : LinesOf(t)' <= LinesOf(u)' + 1
  <2>1. InStepNow'
    BY <1>1, <1>3, PTL
  <2>2. \A t, u \in Tid : LinesOf(t)' <= LinesOf(u)' + 1
    BY <2>1 DEF InStepNow
  <2> QED BY <1>2, <1>3, <2>2
<1> QED BY <1>3, YieldersCalm, PTL DEF Spec, InStep

(* It is a round robin over its threads: they take turns in the order of   *)
(* their creation, leave the line when they have done their work, and the  *)
(* kernel stops with the last of them. *)
THEOREM RoundRobinImplemented ==
  ASSUME Modes = {1}
  PROVE  Spec => ImplementsRoundRobin
<1>1. Init => Line!Init
  <2> SUFFICES ASSUME Init PROVE Line!Init
    OBVIOUS
  <2>1. current = NULL /\ on = Kmain /\ \A t \in Tid : at[t] = "entry"
    BY Constants DEF Init
  <2>2. line = << >>
    BY <2>1 DEF line
  <2>3. {t \in Tid : Finished(t)} = {}
    BY <2>1 DEF Finished
  <2>4. (on = Halted) = FALSE
    BY <2>1, Constants
  <2> QED BY <2>2, <2>3, <2>4 DEF Line!Init
<1>2. CalmAll /\ CalmAll' /\ [Next]_vars => [Line!Next]_(Line!rrVars)
  <2> SUFFICES ASSUME CalmAll, CalmAll', [Next]_vars
               PROVE  Line!Next \/ UNCHANGED Line!rrVars
    OBVIOUS
  <2>1. CASE Boot
    BY <2>1, StartRefines, BootRefines DEF Line!Next
  <2>2. ASSUME NEW t \in Tid, Computing(t) PROVE Line!Next \/ UNCHANGED Line!rrVars
    BY <2>2, ComputingRefines DEF Line!Next
  <2>3. ASSUME NEW t \in Tid, TurnOf(t) PROVE Line!Next \/ UNCHANGED Line!rrVars
    BY <2>3, TurnRefines DEF Line!Next
  <2>4. CASE UNCHANGED vars
    <3>1. UNCHANGED <<next, current, threads, on, at>>
      BY <2>4 DEF vars
    <3>2. line' = line
      BY <3>1, LineSame DEF CalmAll
    <3>3. FinishedOnes' = FinishedOnes
      BY <3>1 DEF FinishedOnes, Finished
    <3>4. (on = Halted)' = (on = Halted)
      BY <3>1
    <3> QED BY <3>2, <3>3, <3>4 DEF Line!rrVars, FinishedOnes
  <2>5. CalmStep
    BY DEF CalmStep, Tick, CalmAll, IInv, TypeOK
  <2> QED BY <2>1, <2>2, <2>3, <2>4, <2>5, CalmSteps DEF CalmAll, CalmInv
<1> QED BY <1>1, <1>2, YieldersCalm, PTL DEF Spec, ImplementsRoundRobin, Line!Spec
=============================================================================
