---------------------------- MODULE MCMemoryMap ----------------------------
(* Machines for MemoryMap in words of 12 bits, megabytes of 256 bytes. *)
EXTENDS MemoryMap

Entry(size_of, from, to, kind) ==
  [size |-> size_of, base |-> from, length |-> to - from, type |-> kind]

(* A machine that keeps hole bytes below the first megabyte, and top bytes *)
(* at the end; beyond a word there is more memory if it is high.           *)
Machine(size_of, megabytes, hole, top) ==
  LET end == MB * megabytes
  IN  << Entry(size_of, 0, MB - hole, 1),
         Entry(size_of, MB - hole, MB, 2),
         Entry(size_of, MB, end - top, 1),
         Entry(size_of, end - top, end, 3),
         Entry(size_of, WORD - 64, WORD, 6) >>

Start(p, megabytes, entries, number) ==
  [program |-> p, megabytes |-> megabytes, entries |-> entries, number |-> number]

Sizes == {2, 3, 7, 8, 9, 15, 16, 17, 40}

Walks ==
  {Start(p, m, Machine(20, m, hole, top), 0) :
     p \in {"memos", "init", "archive", "printMemoryMap"}, m \in Sizes,
     hole \in {0, 96}, top \in {0, 32, 160, 256}}

(* Entries with the extended attributes of ACPI 3.0, which init allows. *)
Extended ==
  {Start(p, m, Machine(24, m, 96, 32), 0) : p \in {"memos", "init"}, m \in Sizes}

Starting ==
  Walks \cup Extended
    \cup {Start("fifos", 0, << >>, 0)}
    \cup {Start("putint", 0, << >>, k) :
            k \in ((-Half) .. (-Half + 20)) \cup ((-111) .. 111) \cup ((Half - 20) .. (Half - 1))}

(* What the theorems about MemoryMap take for given. *)
ASSUME MachinesAssumption == StructEntries /\ ScreenFits
=============================================================================
