---------------------------- MODULE MCInterrupts ----------------------------
(* Instances of Interrupts for TLC: with the keyboard, with two devices of  *)
(* the slave, and without the timer.                                        *)
EXTENDS Interrupts

Machines == {[kernel |-> "FIFOS", lines |-> {Timer, Keyboard}],
             [kernel |-> "DEADOS", lines |-> {Timer, 8}],
             [kernel |-> "FIFOS", lines |-> {8, 12}],
             [kernel |-> "DEADOS", lines |-> {12}]}
=============================================================================
