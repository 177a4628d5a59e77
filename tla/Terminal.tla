------------------------------ MODULE Terminal ------------------------------
(***************************************************************************)
(* The VGA terminal of MEMOS (memos-2-helpers/init.c), of the init.c of    *)
(* MICROS and of its kmain.c: unlike putc of module Console it knows the   *)
(* last row, after which it begins again at the first.                     *)
(*                                                                         *)
(* A cell keeps its character; colours are left out.                       *)
(***************************************************************************)
EXTENDS Integers, Sequences

CONSTANTS
  VGA_WIDTH,    \* 80 in the code
  VGA_HEIGHT    \* 24 in the code

ASSUME TerminalAssumption ==
  VGA_WIDTH \in Nat \ {0} /\ VGA_HEIGHT \in Nat \ {0}

VARIABLES
  terminal_row, terminal_column,
  terminal_buffer,
  text          \* what terminal_writestring has still to write

terminal == <<terminal_row, terminal_column, terminal_buffer, text>>

Cells == 0 .. VGA_WIDTH * VGA_HEIGHT - 1

Blank == " "

(* What the boot loader has left on the screen. *)
TerminalInit ==
  /\ terminal_row = 0 /\ terminal_column = 0
  /\ terminal_buffer = [index \in Cells |-> "GRUB"]
  /\ text = << >>

terminal_initialize ==
  /\ terminal_row' = 0 /\ terminal_column' = 0
  /\ terminal_buffer' = [index \in Cells |-> Blank]

terminal_putentryat(c, x, y) ==
  terminal_buffer' = [terminal_buffer EXCEPT ![y * VGA_WIDTH + x] = c]

terminal_putchar(c) ==
  /\ terminal_putentryat(c, terminal_column, terminal_row)
  /\ terminal_column' = (terminal_column + 1) % VGA_WIDTH
  /\ terminal_row' = IF terminal_column' = 0
                       THEN (terminal_row + 1) % VGA_HEIGHT ELSE terminal_row

(* What is asked for is written a character at a time. *)
terminal_writestring(data) == text' = data

WriteNext ==
  /\ text # << >>
  /\ terminal_putchar(Head(text))
  /\ text' = Tail(text)

(* The n characters that can be read from a place of the screen. *)
Reads(from, n) == [k \in 1 .. n |-> terminal_buffer[from + k - 1]]
=============================================================================
