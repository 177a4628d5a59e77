---------------------------- MODULE Descriptors ----------------------------
(***************************************************************************)
(* The bytes of segment descriptors and of interrupt gates: how kmain of   *)
(* MICROS and FIFOS writes them, and how the processor reads them.         *)
(***************************************************************************)
EXTENDS Integers, Sequences

Byte(n, k) == (n \div 256 ^ k) % 256

(* Mutant: the assignment of byte 6 after the |= instead of before it. *)
LimitAndFlagsInverted(d) == Byte(d.limit, 2) % 16

(* Byte 6: the rest of the limit, to which the flags are added last. *)
LimitAndFlags(d) == (Byte(d.limit, 2) % 16) + 16 * (d.flags % 16)

(* limit in bytes 0, 1 and half of 6; base in 2, 3, 4 and 7; access in 5.  *)
encodeGdtEntry(d) ==
  << Byte(d.limit, 0), Byte(d.limit, 1),
     Byte(d.base, 0), Byte(d.base, 1), Byte(d.base, 2),
     d.access_byte, LimitAndFlags(d), Byte(d.base, 3) >>

(* What the processor makes of eight bytes. *)
Descriptor(b) ==
  [base |-> b[3] + 256 * b[4] + 65536 * b[5] + 16777216 * b[8],
   limit |-> b[1] + 256 * b[2] + 65536 * (b[7] % 16),
   access_byte |-> b[6],
   flags |-> b[7] \div 16]

(* null_descriptor, kernel_code, kernel_data *)
Sources ==
  << [base |-> 0, limit |-> 0, access_byte |-> 0, flags |-> 0],
     [base |-> 0, limit |-> 1048575, access_byte |-> 154, flags |-> 12],
     [base |-> 0, limit |-> 1048575, access_byte |-> 146, flags |-> 12] >>

(* A gate to address isr; the code segment is that of the ljmp. *)
idt_set_descriptor(isr, flags) ==
  [isr_low |-> isr % 65536, kernel_cs |-> 8, reserved |-> 0,
   attributes |-> flags, isr_high |-> isr \div 65536]

(* Where the processor goes through gate g. *)
Target(g) == g.isr_low + 65536 * g.isr_high
=============================================================================
