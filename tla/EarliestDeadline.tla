-------------------------- MODULE EarliestDeadline --------------------------
(***************************************************************************)
(* What the scheduler of DEADOS promises, in sets: jobs are released when  *)
(* they are due, at most a tick late, and whenever a thread is dispatched  *)
(* every job that is due has been released and none of those that are      *)
(* ready has an earlier deadline.  The deadline of a thread that waits is  *)
(* the release time of its next job.                                       *)
(***************************************************************************)
EXTENDS Integers

CONSTANTS
  Tid,
  None        \* no thread

VARIABLES
  period,     \* of each thread
  now,
  running,    \* a thread, or None
  ready,      \* the threads with a job to do
  waiting,    \* those that have done it, or have been displaced
  deadline

vars == <<period, now, running, ready, waiting, deadline>>

Due(t) == deadline[t] <= now

Postponed(t) == [deadline EXCEPT ![t] = @ + period[t]]

Init ==
  /\ period \in [Tid -> Nat \ {0}]
  /\ now = 0
  /\ running = None
  /\ ready = {}
  /\ waiting = {}
  /\ deadline = [t \in Tid |-> 0]

Enter(t) ==
  /\ t \notin waiting \cup ready \cup {running}
  /\ waiting' = waiting \cup {t}
  /\ UNCHANGED <<period, now, running, ready, deadline>>

Release(t) ==
  /\ t \in waiting /\ Due(t)
  /\ waiting' = waiting \ {t}
  /\ ready' = ready \cup {t}
  /\ deadline' = Postponed(t)
  /\ UNCHANGED <<period, now, running>>

(* A job whose deadline passes before it has run gives way to the next. *)
Forgo(t) ==
  /\ t \in ready /\ Due(t)
  /\ deadline' = Postponed(t)
  /\ UNCHANGED <<period, now, running, ready, waiting>>

Displaced == {running} \cap Tid

Dispatch(t) ==
  /\ t \in ready /\ ~Due(t)
  /\ \A u \in ready : deadline[t] <= deadline[u]
  /\ \A u \in waiting : ~Due(u)
  /\ running' = t
  /\ ready' = ready \ {t}
  /\ waiting' = waiting \cup Displaced
  /\ UNCHANGED <<period, now, deadline>>

Idle ==
  /\ ready = {}
  /\ running' = None
  /\ waiting' = waiting \cup Displaced
  /\ UNCHANGED <<period, now, ready, deadline>>

Pass ==
  /\ \A u \in waiting : deadline[u] >= now
  /\ now' = now + 1
  /\ UNCHANGED <<period, running, ready, waiting, deadline>>

Next ==
  \/ \E t \in Tid : Enter(t) \/ Release(t) \/ Forgo(t) \/ Dispatch(t)
  \/ Idle \/ Pass

Spec == Init /\ [][Next]_vars
=============================================================================
