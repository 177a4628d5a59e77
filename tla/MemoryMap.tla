----------------------------- MODULE MemoryMap -----------------------------
(***************************************************************************)
(* How the kernels start: kmain of MICROS at its memory map stage          *)
(* (archive/kmain_memory_map.c), MEMOS (memos-2-helpers/init.c) and the    *)
(* init.c of MICROS, printMemoryMap of FIFOS and DEADOS (memory.h), their  *)
(* descriptor tables, and MICROS's putint.  Each is sequential; what they  *)
(* have in common is arithmetic on 32-bit words, here of width WORD.       *)
(*                                                                         *)
(* The boot loader's map is external: words in memory, in entries of size  *)
(* + 4 bytes.  Of the text only numbers and the status of ranges are kept. *)
(***************************************************************************)
EXTENDS Itoa, Descriptors, Terminal, SequencesExt

CONSTANTS
  Starts,     \* programs, and the machines and numbers they meet
  MB,         \* 2^20 in the code
  HEXDIGITS   \* 8 in the code: the digits of a word

(* b to the k-th *)
Power(b, k) == LET f[i \in 0 .. k] == IF i = 0 THEN 1 ELSE f[i - 1] * b IN f[k]

(* A machine: its memory in megabytes, and its entries. *)
ASSUME MemoryMapAssumption ==
  /\ MB \in Nat /\ MB > 2 /\ WORD % MB = 0 /\ 2 * MB < WORD
  /\ HEXDIGITS \in Nat /\ Power(16, HEXDIGITS) = WORD
  /\ \A s \in Starts :
       /\ s.program \in {"memos", "init", "archive", "printMemoryMap", "fifos",
                         "putint"}
       /\ s.megabytes \in Nat /\ s.number \in Int
       /\ s.entries = [k \in 1 .. Len(s.entries) |-> s.entries[k]]
       /\ Len(s.entries) \in Nat
       /\ \A k \in 1 .. Len(s.entries) :
            /\ s.entries[k].base \in Nat /\ s.entries[k].length \in Nat
            /\ s.entries[k].size \in Nat /\ s.entries[k].size >= 20
            /\ s.entries[k].size % 4 = 0

VARIABLES
  start,      \* one of Starts
  phase,      \* what the program does next
  n,          \* the counter of its loop: an offset in the map, or an index
  memsz,      \* the memory counted; then its megabytes
  gdt,        \* gdt_entries, the descriptors written
  idt,        \* the gates written
  shown       \* what was printed: numbers, with padding, and statuses

vars == <<itoa, terminal, start, phase, n, memsz, gdt, idt, shown>>

program == start.program

(* Those that write to a terminal, and only the total. *)
OnTerminal == program \in {"memos", "init"}

(* struct memory_map, in words *)
memory_map(e) ==
  <<e.size, Unsigned(e.base), e.base \div WORD,
    Unsigned(e.length), e.length \div WORD, e.type>>
    \o [k \in 1 .. (e.size - 20) \div 4 |-> 0]

Words(es) == FlattenSeq([k \in 1 .. Len(es) |-> memory_map(es[k])])

words == Words(start.entries)

mmap_length == 4 * Len(words)

size == words[n \div 4 + 1]
base_addr_low == words[n \div 4 + 2]
length_low == words[n \div 4 + 4]
type == words[n \div 4 + 6]

Init ==
  /\ start \in Starts
  /\ phase = CASE start.program \in {"archive", "fifos"} -> "gdt"
               [] start.program = "putint" -> "number"
               [] OTHER -> "walk"
  /\ n = 0
  /\ memsz = 0
  /\ gdt = << >>
  /\ idt = << >>
  /\ shown = << >>
  /\ ItoaInit
  /\ TerminalInit

In(p) == phase = p /\ converting = "no" /\ text = << >>

-----------------------------------------------------------------------------
(* The descriptor tables *)

EncodeNext ==
  /\ In("gdt") /\ n < Len(Sources)
  /\ gdt' = Append(gdt, encodeGdtEntry(Sources[n + 1]))
  /\ n' = n + 1
  /\ UNCHANGED <<itoa, terminal, start, phase, memsz, idt, shown>>

SetGdt ==
  /\ In("gdt") /\ n = Len(Sources)
  /\ phase' = IF program = "fifos" THEN "idt" ELSE "walk"
  /\ n' = 0
  /\ UNCHANGED <<itoa, terminal, start, memsz, gdt, idt, shown>>

(* set_IDT_C: the table of handlers, one for each fault and for the timer; *)
(* their addresses, a multiple of some length from the kernel's, are       *)
(* external.                                                               *)
isr_stub_table(v) ==
  1048576 + 8000 * (IF v \in 0 .. 14 \cup {32} THEN v ELSE 15)

SetIdtNext ==
  /\ In("idt") /\ n < 48
  /\ idt' = Append(idt, idt_set_descriptor(isr_stub_table(n), 142))
  /\ n' = n + 1
  /\ UNCHANGED <<itoa, terminal, start, phase, memsz, gdt, shown>>

SetIdt ==
  /\ In("idt") /\ n = 48
  /\ phase' = "done"
  /\ UNCHANGED <<itoa, terminal, start, n, memsz, gdt, idt, shown>>

-----------------------------------------------------------------------------
(* The walks over the map *)

(* init goes by the sizes of the entries, the others by that of a struct. *)
Stride == IF OnTerminal THEN size + 4 ELSE 24

(* init counts in an unsigned int, the others in an int. *)
Counted(m) == IF OnTerminal THEN Unsigned(m) ELSE Signed(m)

Walk ==
  /\ In("walk") /\ n < mmap_length
  /\ memsz' = IF type = 1 THEN Counted(memsz + length_low) ELSE memsz
  /\ n' = n + Stride
  /\ UNCHANGED <<itoa, terminal, start, phase, gdt, idt, shown>>

(* Mutant: a megabyte is not rounded up. *)
MegabytesDown == memsz \div MB

(* (memsz >> 20) + 1, an arithmetic shift of an int. *)
bytes_to_mb == memsz \div MB + 1

Itoa32(m, b) ==
  CASE program = "memos" -> MemosItoa(m, b)
    [] program = "printMemoryMap" -> FifosItoa(m, b)
    [] OTHER -> MicrosItoa(m, b)

Total ==
  /\ In("walk") /\ n >= mmap_length
  /\ memsz' = bytes_to_mb
  /\ Itoa32(memsz', 10)
  /\ phase' = IF OnTerminal THEN "terminal" ELSE "welcome"
  /\ UNCHANGED <<terminal, start, n, gdt, idt, shown>>

(* Mutant: the second walk begins where the first has ended. *)
WelcomeNoReset ==
  /\ In("welcome")
  /\ shown' = Append(shown, str)
  /\ phase' = "from"
  /\ UNCHANGED <<itoa, terminal, start, n, memsz, gdt, idt>>

Welcome ==
  /\ In("welcome")
  /\ shown' = Append(shown, str)
  /\ n' = 0
  /\ phase' = "from"
  /\ UNCHANGED <<itoa, terminal, start, memsz, gdt, idt>>

(* init clears the screen and writes a greeting, the number and `MB'. *)
Greeting == <<"M", "e", "m", "O", "S">>

Announce ==
  /\ In("terminal")
  /\ terminal_initialize
  /\ terminal_writestring(Greeting \o str \o <<"M", "B">>)
  /\ phase' = "written"
  /\ UNCHANGED <<itoa, start, n, memsz, gdt, idt, shown>>

Write == WriteNext /\ UNCHANGED <<itoa, start, phase, n, memsz, gdt, idt, shown>>

Written ==
  /\ In("written")
  /\ shown' = Append(shown, Reads(Len(Greeting), Len(str)))
  /\ phase' = "done"
  /\ UNCHANGED <<itoa, terminal, start, n, memsz, gdt, idt>>

num_pad(s) == IF Len(s) < HEXDIGITS THEN HEXDIGITS - Len(s) ELSE 0

put_memory(s) == [k \in 1 .. num_pad(s) |-> 0] \o s

Statuses == <<"usable", "reserved", "reclaimable", "NVS", "bad">>

process_mem_type(t) == IF t \in DOMAIN Statuses THEN Statuses[t] ELSE "unknown"

(* The second walk prints the two ends of each range, and its status. *)
RangeFrom ==
  /\ In("from") /\ n < mmap_length
  /\ Itoa32(base_addr_low, 16)
  /\ phase' = "to"
  /\ UNCHANGED <<terminal, start, n, memsz, gdt, idt, shown>>

RangeTo ==
  /\ In("to")
  /\ shown' = Append(shown, put_memory(str))
  /\ Itoa32(Unsigned(base_addr_low + length_low - 1), 16)
  /\ phase' = "next"
  /\ UNCHANGED <<terminal, start, n, memsz, gdt, idt>>

RangeNext ==
  /\ In("next")
  /\ shown' = shown \o <<put_memory(str), process_mem_type(type)>>
  /\ n' = n + Stride
  /\ phase' = "from"
  /\ UNCHANGED <<itoa, terminal, start, memsz, gdt, idt>>

RangesDone ==
  /\ In("from") /\ n >= mmap_length
  /\ phase' = "done"
  /\ UNCHANGED <<itoa, terminal, start, n, memsz, gdt, idt, shown>>

(* putint *)
PutInt ==
  /\ In("number")
  /\ MicrosItoa(start.number, 10)
  /\ phase' = "put"
  /\ UNCHANGED <<terminal, start, n, memsz, gdt, idt, shown>>

Put ==
  /\ In("put")
  /\ shown' = Append(shown, str)
  /\ phase' = "done"
  /\ UNCHANGED <<itoa, terminal, start, n, memsz, gdt, idt>>

Convert == Itoa /\ UNCHANGED <<terminal, start, phase, n, memsz, gdt, idt, shown>>

Stopped == In("done") /\ UNCHANGED vars

Next ==
  \/ EncodeNext \/ SetGdt \/ SetIdtNext \/ SetIdt
  \/ Walk \/ Total \/ Welcome \/ RangeFrom \/ RangeTo \/ RangeNext \/ RangesDone
  \/ Announce \/ Write \/ Written \/ PutInt \/ Put \/ Convert \/ Stopped

Spec == Init /\ [][Next]_vars

FairSpec == Spec /\ WF_vars(Next)

-----------------------------------------------------------------------------
(* Properties *)

(* Every table holds what the kernel describes: the processor decodes each *)
(* segment as it was declared, and reaches through each gate the handler   *)
(* of its vector.                                                          *)
TablesFaithful ==
  /\ \A k \in 1 .. Len(gdt) : Descriptor(gdt[k]) = Sources[k]
  /\ \A v \in 1 .. Len(idt) : Target(idt[v]) = isr_stub_table(v - 1)

(* What MICROS's putint prints reads back as the number it was given, the  *)
(* most negative one included, which no positive number is the opposite of. *)
PutIntReadsBack ==
  program = "putint" /\ phase = "done" =>
    shown = <<str>> /\ Read(str, 10) = Signed(start.number)

Usable == {k \in 1 .. Len(start.entries) : start.entries[k].type = 1}

Sums(w) == LET f[k \in 0 .. Len(w)] == IF k = 0 THEN 0 ELSE f[k - 1] + w[k] IN f

(* Bytes that the first k entries give for usable. *)
UsableBytes(es) ==
  Sums([k \in 1 .. Len(es) |-> IF es[k].type = 1 THEN es[k].length ELSE 0])

Lost == MB * start.megabytes - UsableBytes(start.entries)[Len(start.entries)]

(* init.c says that the rounding `guarantees we see the same memory output *)
(* as specified to QEMU'.  It does where the firmware keeps some memory,   *)
(* but no more than a megabyte, for itself and the sum is one that the     *)
(* kernel's counter can hold: a word in init, half of one in the others.   *)
MegabytesExact ==
  shown # << >> /\ program \in {"memos", "init", "archive", "printMemoryMap"}
    /\ Lost \in 1 .. MB
    /\ MB * start.megabytes <= (IF OnTerminal THEN WORD ELSE Half)
  => Read(shown[1], 10) = start.megabytes

(* The k-th range has been printed, and what was printed are the addresses *)
(* of its first and its last byte, with all their digits.                  *)
RangePrinted(k) == Len(shown) > 3 * k

EndsRead(k) ==
  LET e == start.entries[k]
  IN  /\ Len(shown[3 * k - 1]) = HEXDIGITS /\ Len(shown[3 * k]) = HEXDIGITS
      /\ Read(shown[3 * k - 1], 16) = e.base
      /\ Read(shown[3 * k], 16) = e.base + e.length - 1

(* It is not empty, and ends below limit. *)
EndsBelow(k, limit) ==
  LET e == start.entries[k] IN e.length > 0 /\ e.base + e.length <= limit

(* A range that ends in the first word of addresses is printed as it is in *)
(* the map, and any range as usable if, and only if, the total counts it.  *)
(* (Of others the code prints the low words.  The archived kmain does it   *)
(* only for ranges in the lower half of a word: see RangesInWord.)         *)
RangesFaithful ==
  \A k \in 1 .. Len(start.entries) : RangePrinted(k) =>
    /\ EndsBelow(k, IF program = "archive" THEN Half ELSE WORD) => EndsRead(k)
    /\ shown[3 * k + 1] = "usable" <=> k \in Usable

(* kmain_memory_map.c:140: `Display: Address Range: [0xXXXXX:0xYYYYYY]';   *)
(* memory.h:101 expects `[0xfffc0000:0xffffffff]' of the same loop.        *)
RangesInWord ==
  \A k \in 1 .. Len(start.entries) :
    RangePrinted(k) /\ EndsBelow(k, WORD) => EndsRead(k)

(* All loops end, and all entries are shown. *)
Ends ==
  <>(/\ phase = "done"
     /\ program \in {"archive", "printMemoryMap"} =>
          Len(shown) = 1 + 3 * Len(start.entries))

-----------------------------------------------------------------------------
(* Inductive invariants *)

(* Tables are written in order; they hold what was encoded. *)
TableInv ==
  /\ Len(gdt) \in Nat /\ Len(gdt) <= Len(Sources)
  /\ Len(idt) \in Nat /\ Len(idt) <= 48
  /\ gdt = [k \in 1 .. Len(gdt) |-> encodeGdtEntry(Sources[k])]
  /\ idt = [v \in 1 .. Len(idt) |-> idt_set_descriptor(isr_stub_table(v - 1), 142)]
  /\ phase = "gdt" => n = Len(gdt) /\ idt = << >>
  /\ phase = "idt" => n = Len(idt)

(* What was given to itoa, and what itoa makes of it. *)
Negative(m, b) == program # "printMemoryMap" /\ b = 10 /\ Signed(m) < 0

Taken(m, b) == IF program = "printMemoryMap" \/ (program = "memos" /\ b # 10)
                 THEN Unsigned(m) ELSE Amount(Signed(m))

Converting(m, b) == ItoaInv(Taken(m, b), Negative(m, b), b)

NumberInv ==
  program = "putint" =>
    /\ text = << >>
    /\ \/ phase = "number" /\ shown = << >> /\ converting = "no"
       \/ phase = "put" /\ shown = << >> /\ Converting(start.number, 10)
       \/ /\ phase = "done" /\ shown = <<str>> /\ converting = "no"
          /\ Read(str, 10) = Signed(start.number)

(* The bytes of the first k entries. *)
Place(es) == Sums([k \in 1 .. Len(es) |-> es[k].size + 4])

Total32 == Counted(UsableBytes(start.entries)[Len(start.entries)]) \div MB + 1

(* Programs that step through the map by the size of a struct memory_map   *)
(* meet entries of that size.                                              *)
StructEntries ==
  \A s \in Starts : s.program \in {"archive", "printMemoryMap"} =>
    \A k \in 1 .. Len(s.entries) : s.entries[k].size = 20

(* k entries have been counted. *)
Counting ==
  /\ shown = << >> /\ converting = "no" /\ text = << >>
  /\ \/ phase = "gdt" /\ memsz = 0
     \/ /\ phase = "walk"
        /\ \E k \in 0 .. Len(start.entries) :
             n = Place(start.entries)[k] /\ memsz = Counted(UsableBytes(start.entries)[k])

Totalling ==
  /\ phase = IF OnTerminal THEN "terminal" ELSE "welcome"
  /\ shown = << >> /\ text = << >>
  /\ Converting(Total32, 10)

(* The screen after the first w characters, of which it keeps the last. *)
FullText == Greeting \o str \o <<"M", "B">>

ScreenSize == VGA_WIDTH * VGA_HEIGHT

Screen(w) ==
  /\ text = SubSeq(FullText, w + 1, Len(FullText))
  /\ terminal_row \in 0 .. VGA_HEIGHT - 1 /\ terminal_column \in 0 .. VGA_WIDTH - 1
  /\ terminal_row * VGA_WIDTH + terminal_column = w % ScreenSize
  /\ DOMAIN terminal_buffer = Cells
  /\ \A i \in 1 .. w : i + ScreenSize > w =>
       terminal_buffer[(i - 1) % ScreenSize] = FullText[i]

Writing ==
  /\ phase = "written" /\ OnTerminal /\ shown = << >> /\ converting = "no"
  /\ Converting(Total32, 10)
  /\ \E w \in 0 .. Len(FullText) : Screen(w)

(* What is printed of the total. *)
TotalShown ==
  Read(shown[1], 10) =
    IF program = "printMemoryMap" THEN Unsigned(Total32) ELSE Signed(Total32)

(* All megabytes a word can count are still on the screen with the text.   *)
ScreenFits ==
  \E d \in 1 .. ScreenSize :
    WORD \div MB < Power(10, d) /\ Len(Greeting) + d <= ScreenSize

Told ==
  /\ phase = "done" /\ OnTerminal /\ converting = "no" /\ text = << >>
  /\ Len(shown) = 1 /\ (ScreenFits => TotalShown)

(* What the code reads of a range, and prints of it: low words; and the    *)
(* archived kmain's itoa takes an address in the upper half of a word for  *)
(* negative, and gives the digits of its absolute value.                   *)
As(m) == IF program = "archive" /\ m >= Half THEN WORD - m ELSE m

From(k) == Unsigned(start.entries[k].base)
To(k) == Unsigned(From(k) + start.entries[k].length - 1)

LowWordsRead(k) ==
  /\ Len(shown[3 * k - 1]) = HEXDIGITS /\ Len(shown[3 * k]) = HEXDIGITS
  /\ Read(shown[3 * k - 1], 16) = As(From(k))
  /\ Read(shown[3 * k], 16) = As(To(k))
  /\ shown[3 * k + 1] = "usable" <=> k \in Usable

(* k ranges have been printed; of the next one, its ends are. *)
Printed(k) ==
  /\ n = Place(start.entries)[k]
  /\ Len(shown) = IF phase = "next" THEN 3 * k + 2 ELSE 3 * k + 1
  /\ \A j \in 1 .. k : LowWordsRead(j)
  /\ \/ phase \in {"from", "done"} /\ converting = "no"
     \/ /\ phase = "to" /\ k < Len(start.entries)
        /\ Converting(From(k + 1), 16)
     \/ /\ phase = "next" /\ k < Len(start.entries)
        /\ Converting(To(k + 1), 16)
        /\ Len(shown[3 * k + 2]) = HEXDIGITS
        /\ Read(shown[3 * k + 2], 16) = As(From(k + 1))

Printing ==
  /\ ~OnTerminal /\ text = << >>
  /\ shown = [i \in 1 .. Len(shown) |-> shown[i]]
  /\ TotalShown
  /\ \E k \in 0 .. Len(start.entries) : Printed(k)

(* The walks; other programs print a number, or nothing. *)
Walkers == {"memos", "init", "archive", "printMemoryMap"}

WalkInv ==
  /\ program \in Walkers => Counting \/ Totalling \/ Writing \/ Told \/ Printing
  /\ program = "fifos" =>
       phase \in {"gdt", "idt", "done"} /\ shown = << >> /\ converting = "no" /\ text = << >>

IInv == TableInv /\ NumberInv /\ WalkInv
=============================================================================
