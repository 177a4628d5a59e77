------------------------------- MODULE MCFifos ------------------------------
(* Instances of Fifos for TLC: the places a tick is taken at. *)
EXTENDS Fifos

Anywhere == ThreadAt \cup KmainAt

(* Not in the few instructions where a tick changes what the kernel does:  *)
(* between dispatch_first_run's call and its switch, before a thread has   *)
(* taken its number, and between the compare and the jump of its loop.     *)
Calm == Anywhere \ Critical

(* In the middle of thread_ids++, and in the long loops. *)
Numbering == {"incr", "line", "hlt"}
=============================================================================
