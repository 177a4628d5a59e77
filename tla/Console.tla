------------------------------ MODULE Console ------------------------------
(***************************************************************************)
(* The text cursor: putc and puts of src/helpers.c, which MICROS calls     *)
(* with no other thread to interfere, and the same code of FIFOS           *)
(* (helpers.h), where a tick may come between any two instructions and     *)
(* another thread print.                                                   *)
(*                                                                         *)
(* Of a character only its effect on the cursor is kept; what is written   *)
(* to the screen is not.  A tick takes away the flags (fifos.s): a control *)
(* character caught between a compare and its jump is ignored, a string    *)
(* caught at the loop of puts ends there, and both are texts like others;  *)
(* caught at the last test of putc, the line is ended.                     *)
(***************************************************************************)
EXTENDS Integers

CONSTANTS
  Printer,      \* the threads that print
  COLS,         \* 80 in the code
  TAB,          \* 8 in the code
  LENGTH        \* characters each of them prints

ASSUME ConsoleAssumption ==
  /\ COLS \in Nat \ {0} /\ TAB \in Nat \ {0} /\ LENGTH \in Nat

VARIABLES
  csr_x, csr_y,
  doing,        \* the instruction of putc each is at
  reg,          \* its register
  newline,      \* whether it is putting a line feed
  left          \* characters it has still to print

cursor == <<csr_x, csr_y>>
console == <<csr_x, csr_y, doing, reg, newline, left>>

Kinds == {"tab", "cr", "lf", "printable", "other"}

(* csr_x after a tab or a printable character. *)
Advanced(c, x) == CASE c = "tab" -> TAB * ((x + TAB) \div TAB)
                    [] c = "printable" -> x + 1
                    [] OTHER -> x

(* All of putc, undisturbed, on cursor <<x, y>>. *)
PutcAt(xy, c) ==
  LET x == IF c \in {"cr", "lf"} THEN 0 ELSE Advanced(c, xy[1])
      y == IF c = "lf" THEN xy[2] + 1 ELSE xy[2]
  IN  IF x >= COLS THEN <<0, y + 1>> ELSE <<x, y>>

ConsoleInit ==
  /\ csr_x = 0
  /\ csr_y = 0
  /\ doing = [t \in Printer |-> "idle"]
  /\ reg = [t \in Printer |-> 0]
  /\ newline = [t \in Printer |-> FALSE]
  /\ left = [t \in Printer |-> LENGTH]

At(t, place) == doing[t] = place

GoesTo(t, place) == doing' = [doing EXCEPT ![t] = place]

(* The character decides; a tab or a printable one has csr_x read. *)
Begin(t, c) ==
  /\ At(t, "idle") /\ left[t] > 0
  /\ left' = [left EXCEPT ![t] = @ - 1]
  /\ csr_x' = IF c = "cr" THEN 0 ELSE csr_x
  /\ GoesTo(t, CASE c \in {"tab", "printable"} -> "store"
               [] c = "lf" -> "zero"
               [] OTHER -> "test")
  /\ reg' = [reg EXCEPT ![t] = Advanced(c, csr_x)]
  /\ newline' = [newline EXCEPT ![t] = c = "lf"]
  /\ UNCHANGED csr_y

Store(t) ==
  /\ At(t, "store")
  /\ csr_x' = reg[t]
  /\ GoesTo(t, "test")
  /\ UNCHANGED <<csr_y, reg, newline, left>>

(* Mutant: the end of the line is looked for where it was exceeded. *)
TestExact(t) ==
  /\ At(t, "test")
  /\ GoesTo(t, IF csr_x = COLS THEN "zero" ELSE "skip")
  /\ UNCHANGED <<cursor, reg, newline, left>>

(* cmp, for the jump that goes to "zero" or skips it *)
Test(t) ==
  /\ At(t, "test")
  /\ GoesTo(t, IF csr_x >= COLS THEN "zero" ELSE "skip")
  /\ UNCHANGED <<cursor, reg, newline, left>>

Skip(t) ==
  /\ At(t, "skip")
  /\ GoesTo(t, "idle")
  /\ UNCHANGED <<cursor, reg, newline, left>>

(* csr_x = 0; csr_y++ *)
Zero(t) ==
  /\ At(t, "zero")
  /\ csr_x' = 0
  /\ GoesTo(t, "load_y")
  /\ UNCHANGED <<csr_y, reg, newline, left>>

LoadY(t) ==
  /\ At(t, "load_y")
  /\ reg' = [reg EXCEPT ![t] = csr_y + 1]
  /\ GoesTo(t, "store_y")
  /\ UNCHANGED <<cursor, newline, left>>

StoreY(t) ==
  /\ At(t, "store_y")
  /\ csr_y' = reg[t]
  /\ GoesTo(t, IF newline[t] THEN "test" ELSE "idle")
  /\ newline' = [newline EXCEPT ![t] = FALSE]
  /\ UNCHANGED <<csr_x, reg, left>>

Put(t) ==
  \/ \E c \in Kinds : Begin(t, c)
  \/ Store(t) \/ Test(t) \/ Skip(t) \/ Zero(t) \/ LoadY(t) \/ StoreY(t)

(* What a tick does to the thread it interrupts. *)
FlagsLost(t) == doing' = [doing EXCEPT ![t] = IF @ = "skip" THEN "zero" ELSE @]

-----------------------------------------------------------------------------
(* However the threads' stores are interleaved, whoever leaves the cursor  *)
(* behind the last column still has to look at it: when no character is    *)
(* being put the cursor is in a column of the screen.                      *)
CursorSettles ==
  csr_x >= COLS => \E t \in Printer : doing[t] \in {"test", "zero"}

=============================================================================
