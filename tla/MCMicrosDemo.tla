---------------------------- MODULE MCMicrosDemo ----------------------------
(* An instance of MicrosDemo for TLC. *)
EXTENDS MicrosDemo

(* Tables in the manner of kmain's: periods grow with the thread. *)
Ascending ==
  {tb \in [Tid -> [period : {5, 10, 20, 40, 80, 160}, max_jobs : {2, 3}]] :
     \A t, u \in Tid : t < u => tb[t].period < tb[u].period}
=============================================================================
