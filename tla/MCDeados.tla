------------------------------ MODULE MCDeados ------------------------------
(* Instances of Deados for TLC: workloads and the places of ticks. *)
EXTENDS Deados

Load(periods, budgets, ticks, horizon) ==
  [period |-> periods, budget |-> budgets, ticks |-> ticks, horizon |-> horizon]

(* Nothing a thread does between two halts takes as long as a tick. *)
Halts == {"hlt", "last", "gone", "burn"}
Anywhere == ThreadAt \cup BurnerAt \cup {"load", "switch"}

(* kentry.c:424: more than a period's worth of budgets. *)
Kmains == Load(<<12, 12, 12>>, <<4, 9, 4>>, Halts \cup {"load", "switch"}, 96)

(* Deadlines that can be met, with idle ticks, and a budget of one tick. *)
Light == Load(<<3, 5, 6>>, <<1, 2, 1>>, Anywhere, 14)

(* More work than time, and a budget of none. *)
Heavy == Load(<<2, 3, 4>>, <<2, 2, 0>>, Anywhere, 12)

Several == {Kmains, Light, Heavy}

(* Twelve of sixteen ticks, in three threads of different periods: the     *)
(* deadlines are the ends of the periods, so that earliest deadline first  *)
(* meets them all whenever the demand fits. *)
Feasible == {Load(<<4, 16, 16>>, <<1, 3, 5>>, Halts, 20)}

(* What the jobs released in 0 .. 15 ask for, all due by 16. *)
Demand(load) ==
  LET Asked(t) == load.budget[t] * (16 \div load.period[t])
  IN  Asked(1) + Asked(2) + Asked(3)

ASSUME DemandFits == \A load \in Feasible : Demand(load) = 12

(* With kmain's workload all threads come to their end. *)
KmainsExit == work = Kmains => AllExit
=============================================================================
