------------------------------ MODULE MCMicros ------------------------------
(* Instances of Micros for TLC: sets of tables of thread parameters. *)
EXTENDS Micros

Params(periods, max_jobs) == [period : periods, max_jobs : max_jobs]

(* The tables of kmain.c, lines 233 and 234. *)
KmainTable ==
  [t \in Tid |-> [period |-> 5 * 2^t, max_jobs |-> 3]]
KmainTables == {KmainTable}

(* One instance of each task; tasks without end; periods that need more    *)
(* than eight bits.                                                        *)
OnceTables == {[t \in Tid |-> [KmainTable[t] EXCEPT !.max_jobs = 1]]}
EndlessTables == {[t \in Tid |-> [KmainTable[t] EXCEPT !.max_jobs = -1]]}
LongTables ==
  {T \in [Tid -> Params({10, 200, 255, 260, 300}, {3})] :
     \A t, u \in Tid : t # u => T[t].period # T[u].period}

(* Aperiodic threads, equal periods, tasks in any order; instances of a    *)
(* task from none to several.  Then kmain's four periods in any order.     *)
AllTables ==
  [Tid -> Params({0, 5, 10}, {0, 1, 3})]
    \cup {T \in [Tid -> Params({5, 10, 20, 40}, {0, 1, 3})] :
            \A t, u \in Tid : t # u => T[t].period # T[u].period}
=============================================================================
