----------------------------- MODULE Interrupts -----------------------------
(***************************************************************************)
(* The interrupts of FIFOS-2 and of DEADOS, which has copies of the same   *)
(* files: how kmain sets up controllers, timer and descriptor table        *)
(* (preemption.h, set_IDT_C of kentry.c), what the stubs of fifos.s and    *)
(* their handlers do, and what becomes of the text that is printed         *)
(* meanwhile (module Console).                                             *)
(*                                                                         *)
(* Which thread a tick switches to is the subject of modules Fifos and     *)
(* Deados: here it is any.  The controllers, the devices and the processor *)
(* are external.                                                           *)
(***************************************************************************)
EXTENDS Console

CONSTANTS
  Wirings,      \* kernels, and the lines that have a device and are not masked
  REPORTS,      \* characters that DEADOS's scheduler prints, at most
  Kmain         \* the context of kmain

Master == 0 .. 7
Slave == 8 .. 15
Timer == 0
Keyboard == 1
Cascade == 2

ASSUME InterruptsAssumption ==
  /\ Wirings \subseteq [kernel : {"FIFOS", "DEADOS"},
                         lines : SUBSET ((Master \cup Slave) \ {Cascade})]
  /\ REPORTS \in Nat
  /\ Kmain \notin Printer /\ Printer # {}

VARIABLES
  kernel,
  place,        \* the next thing kmain does, or "gone"
  on,           \* kmain or a thread
  intr,         \* the interrupt flag
  lines,        \* those in use; PIC_remap puts back the masks it found
  irr, isr,     \* lines requested, lines in service, of both controllers
  stub,         \* the kind of handler that is running, or "none"
  part,         \* what it does next
  typed,        \* the keyboard waits to be read
  nmi,          \* a non-maskable interrupt has come
  reports       \* characters the scheduler may still print

boot == <<kernel, place, on>>
pic == <<lines, irr, isr>>
cpu == <<intr, stub, part>>
outside == <<typed, nmi, reports>>
vars == <<kernel, place, on, intr, lines, irr, isr, stub, part, typed, nmi,
          reports, console>>

Init ==
  /\ \E w \in Wirings : kernel = w.kernel /\ lines = w.lines
  /\ place = IF kernel = "FIFOS" THEN "remap" ELSE "segments"
  /\ on = Kmain
  /\ intr = FALSE
  /\ irr = {} /\ isr = {}
  /\ stub = "none" /\ part = "none"
  /\ typed = FALSE /\ nmi = FALSE /\ reports = REPORTS
  /\ ConsoleInit

-----------------------------------------------------------------------------
(* kmain *)

KmainIn(p) == stub = "none" /\ on = Kmain /\ place = p

(* DEADOS reloads the segments first. *)
KmainGoesOn ==
  place' = CASE place = "remap" -> "pit"
             [] place = "pit" -> "lidt"
             [] place = "lidt" -> IF kernel = "FIFOS" THEN "segments" ELSE "dispatch"
             [] place = "segments" -> IF kernel = "FIFOS" THEN "dispatch" ELSE "remap"
             [] OTHER -> "gone"

(* The kernel's table is the processor's. *)
HasTable ==
  place \in {"dispatch", "gone"} \/ (kernel = "FIFOS" /\ place = "segments")

(* The controllers forget what they held. *)
PIC_remap ==
  /\ KmainIn("remap")
  /\ irr' = {} /\ isr' = {}
  /\ KmainGoesOn
  /\ UNCHANGED <<kernel, on, lines, cpu, outside, console>>

(* init_pit ends with sti, and there is no descriptor table yet. *)
InitPit ==
  /\ KmainIn("pit")
  /\ intr' = TRUE
  /\ KmainGoesOn
  /\ UNCHANGED <<kernel, on, pic, stub, part, outside, console>>

SetIdt ==
  /\ KmainIn("lidt")
  /\ KmainGoesOn
  /\ intr' = TRUE
  /\ UNCHANGED <<kernel, on, pic, stub, part, outside, console>>

(* Up to the ljmp cs holds the boot loader's selector. *)
ReloadSegments ==
  /\ KmainIn("segments")
  /\ KmainGoesOn
  /\ UNCHANGED <<kernel, on, pic, cpu, outside, console>>

DispatchFirstRun ==
  /\ KmainIn("dispatch")
  /\ KmainGoesOn
  /\ on' \in Printer
  /\ UNCHANGED <<kernel, pic, cpu, outside, console>>

Boot == \/ PIC_remap \/ InitPit \/ SetIdt \/ ReloadSegments
        \/ DispatchFirstRun

PrintChar(t) ==
  /\ stub = "none" /\ on = t
  /\ Put(t)
  /\ UNCHANGED <<boot, pic, cpu, outside>>

-----------------------------------------------------------------------------
(* The controllers: a line is served after those before it on its own, and *)
(* the slave's lines in the place of line 2.                               *)

RankOf(l) == IF l \in Slave THEN Cascade ELSE l

Blocked(l) ==
  \/ \E k \in isr \cap Master : k <= RankOf(l)
  \/ l \in Slave /\ \E k \in isr \cap Slave : k <= l

Wanted(l) == l \in irr /\ ~Blocked(l)

IsFirst(l) ==
  /\ Wanted(l)
  /\ \A k \in irr : Wanted(k) /\ k # l =>
       RankOf(l) < RankOf(k) \/ (RankOf(l) = RankOf(k) /\ l < k)

(* Mutant: the controllers are left at the vectors of the BIOS. *)
VectorOfBios(l) == IF l \in Master THEN 8 + l ELSE 104 + l

(* PIC_remap(0x20, 0x28) *)
Vector(l) == IF l \in Master THEN 32 + l ELSE 40 + (l - 8)

(* isr_stub_table: a handler for each of the vectors 0 to 14, one for 32,  *)
(* and other_interrupt for the rest.                                       *)
Stub(v) == IF v = 32 THEN "timer" ELSE IF v <= 14 THEN "fault" ELSE "other"

(* The processor takes the first request, and jumps through whatever table *)
(* it has.  The gates, 0x8E, clear the flag.                               *)
Deliver ==
  /\ intr
  /\ \E l \in irr :
       /\ IsFirst(l)
       /\ irr' = irr \ {l}
       /\ isr' = isr \cup {l, RankOf(l)}
       /\ stub' = IF place = "lidt" THEN "lost" ELSE Stub(Vector(l))
  /\ intr' = FALSE
  /\ part' = IF stub' = "timer" THEN "eoi" ELSE "print"
  /\ UNCHANGED <<boot, lines, outside, console>>

(* Mutant: the slave is told as well. *)
SentEOIBoth(s) == {l \in s : \E k \in s \cap Master : k < RankOf(l)}

(* PIC_sendEOI with the argument 0, which all handlers pass: the master's  *)
(* first line in service is done, the slave's are not.                     *)
SentEOI(s) == {l \in s : l \in Slave \/ \E k \in s \cap Master : k < l}

-----------------------------------------------------------------------------
(* The handlers.  All but the timer's print a line, with the flag clear;   *)
(* those of faults then halt, and the flag stays so.                       *)

(* The cursor after the message: a word, then the end of the line. *)
Printed == PutcAt(PutcAt(cursor, "printable"), "lf")

PrintMessage ==
  /\ stub \in {"other", "fault"} /\ part = "print"
  /\ csr_x' = Printed[1] /\ csr_y' = Printed[2]
  /\ part' = "eoi"
  /\ UNCHANGED <<boot, pic, intr, stub, outside, doing, reg, newline, left>>

(* Mutant: a handler that returns has acknowledged nothing. *)
EndOfInterruptFaultsOnly ==
  /\ part = "eoi"
  /\ isr' = IF stub = "other" THEN isr ELSE SentEOI(isr)
  /\ part' = IF stub = "fault" THEN "halted" ELSE "leave"
  /\ UNCHANGED <<boot, lines, irr, intr, stub, outside, console>>

(* Mutant: the timer's handler has acknowledged nothing. *)
EndOfInterruptNotTimer ==
  /\ part = "eoi"
  /\ isr' = IF stub = "timer" THEN isr ELSE SentEOI(isr)
  /\ part' = IF stub = "fault" THEN "halted" ELSE "leave"
  /\ UNCHANGED <<boot, lines, irr, intr, stub, outside, console>>

EndOfInterrupt ==
  /\ part = "eoi"
  /\ isr' = SentEOI(isr)
  /\ part' = IF stub = "fault" THEN "halted" ELSE "leave"
  /\ UNCHANGED <<boot, lines, irr, intr, stub, outside, console>>

(* A thread of FIFOS that has printed its text goes to the hlt at the end   *)
(* of exit_thread.                                                         *)
Finished(t) == left[t] = 0 /\ At(t, "idle")

(* Back to kmain, or to thread t.  An interrupt ends that hlt, and a thread *)
(* that goes on after it returns past its stack.                           *)
Back(t) ==
  \/ stub' = "none" /\ part' = "none" /\ intr' = TRUE
  \/ /\ kernel = "FIFOS" /\ t \in Printer /\ Finished(t)
     /\ stub' = "lost" /\ part' = "print" /\ UNCHANGED intr

(* popal and iret; an iret to the boot loader's selector may fault, since  *)
(* the table it was loaded from has been replaced.                         *)
Return ==
  /\ stub = "other" /\ part = "leave"
  /\ \/ Back(on)
     \/ place = "segments" /\ stub' = "fault" /\ part' = "print" /\ UNCHANGED intr
  /\ UNCHANGED <<boot, pic, outside, console>>

(* DEADOS's schedule prints `met' or `miss' wherever the cursor is. *)
Report ==
  /\ stub = "timer" /\ part = "leave"
  /\ kernel = "DEADOS" /\ reports > 0
  /\ csr_x' = PutcAt(cursor, "printable")[1]
  /\ csr_y' = PutcAt(cursor, "printable")[2]
  /\ reports' = reports - 1
  /\ UNCHANGED <<boot, pic, cpu, typed, nmi, doing, reg, newline, left>>

(* FIFOS's schedule finds the last thread done: cli; hlt.  By then all the *)
(* others have printed their text (HaltsWhenDone of module Fifos).         *)
LastThreadHalts ==
  /\ stub = "timer" /\ part = "leave"
  /\ kernel = "FIFOS" /\ on \in Printer
  /\ \A t \in Printer : Finished(t)
  /\ part' = "halted"
  /\ UNCHANGED <<boot, pic, intr, stub, outside, console>>

(* The rest of schedule, and the switch, which ends with sti and ret.  A   *)
(* tick in kmain returns to it or puts a thread in its place, when all it  *)
(* has left is to pop a frame (modules Fifos, Deados).                     *)
Switch ==
  /\ stub = "timer" /\ part = "leave"
  /\ \/ on = Kmain /\ on' = Kmain /\ UNCHANGED <<place, doing>>
     \/ on = Kmain /\ place = "dispatch"
        /\ place' = "gone" /\ on' \in Printer /\ UNCHANGED doing
     \/ on \in Printer /\ on' \in Printer /\ FlagsLost(on) /\ UNCHANGED place
  /\ Back(on')
  /\ UNCHANGED <<kernel, pic, outside, cursor, reg, newline, left>>

Handler ==
  PrintMessage \/ EndOfInterrupt \/ Return \/ Report \/ LastThreadHalts \/ Switch

-----------------------------------------------------------------------------
(* The devices *)

(* The keyboard's data is never read, so it asks once. *)
Raise(l) ==
  /\ l \in lines \ irr
  /\ l = Keyboard => ~typed
  /\ irr' = irr \cup {l}
  /\ typed' = (typed \/ l = Keyboard)
  /\ UNCHANGED <<boot, lines, isr, cpu, nmi, reports, console>>

(* Vector 2, whatever the flag, even in a handler. *)
Nmi ==
  /\ ~nmi /\ HasTable
  /\ nmi' = TRUE
  /\ stub' = "fault" /\ part' = "print" /\ intr' = FALSE
  /\ UNCHANGED <<boot, pic, typed, reports, console>>

Stuck == part = "halted" \/ stub = "lost"

Stopped == Stuck /\ UNCHANGED vars

Devices == (\E l \in Master \cup Slave : Raise(l)) \/ Nmi

NextStep == Boot \/ (\E t \in Printer : PrintChar(t)) \/ Deliver \/ Handler
              \/ Devices \/ Stopped

Spec == Init /\ [][NextStep]_vars

(* The processor does not stop and the timer ticks on. *)
FairSpec ==
  /\ Spec
  /\ WF_vars(Boot) /\ WF_vars(Deliver) /\ WF_vars(Handler)
  /\ WF_vars(Raise(Timer))
-----------------------------------------------------------------------------
(* Properties *)

(* The devices of the kernel, its controllers and the text keep their      *)
(* types, and a handler that runs has its flag clear (gates of 0x8E).      *)
TypeOK ==
  /\ place \in {"remap", "pit", "lidt", "segments", "dispatch", "gone"}
  /\ on \in Printer \cup {Kmain}
  /\ intr \in BOOLEAN
  /\ [kernel |-> kernel, lines |-> lines] \in Wirings
  /\ irr \subseteq lines /\ isr \subseteq lines \cup {Cascade}
  /\ stub \in {"none", "timer", "other", "fault", "lost"}
  /\ part \in {"none", "print", "eoi", "leave", "halted"}
  /\ typed \in BOOLEAN /\ nmi \in BOOLEAN /\ reports \in 0 .. REPORTS
  /\ csr_x \in Nat /\ csr_y \in Nat
  /\ doing \in [Printer -> {"idle", "store", "test", "skip", "zero",
                            "load_y", "store_y"}]
  /\ reg \in [Printer -> Nat]
  /\ newline \in [Printer -> BOOLEAN]
  /\ left \in [Printer -> 0 .. LENGTH]
  /\ stub # "none" => ~intr

(* Whenever interrupts are enabled every one the master has delivered is   *)
(* acknowledged, by whatever way its handler went; so none of the master's *)
(* lines is shut out by another, and handlers never nest.                  *)
AllAcknowledged == intr => isr \cap Master = {}

(* What stops the kernel.  It is lost for an interrupt in a window of the  *)
(* start, as init_pit's sti comes before the table is loaded, and, in      *)
(* FIFOS, when a thread that has printed its text goes on after the hlt of *)
(* exit_thread.  It faults for an NMI, and, in FIFOS, at an iret before cs *)
(* is loaded: no line is ever taken for a fault, as at the vectors the     *)
(* BIOS leaves.  And FIFOS's schedule halts it, with the text of all       *)
(* threads printed.                                                        *)
StopsOnlyFor ==
  /\ stub = "lost" => \/ place = "lidt"
                      \/ kernel = "FIFOS" /\ on \in Printer /\ Finished(on)
  /\ stub = "fault" => nmi \/ (kernel = "FIFOS" /\ place = "segments")
  /\ stub = "timer" /\ part = "halted" =>
       kernel = "FIFOS" /\ \A t \in Printer : Finished(t)

(* A line of the slave, once served, is in service for good: no handler    *)
(* sends its controller an EOI, and it and the lines after it never        *)
(* interrupt again.                                                        *)
SlaveShutOut ==
  [][\A k \in isr \cap Slave :
       k \in isr' /\ \A l \in irr \cap Slave : l >= k => l \in irr']_vars

(* What the acknowledgements depend on: only the handler that runs has     *)
(* something of the master in service, before its EOI and no more than one *)
(* line; and nothing is in service before interrupts are first enabled.    *)
(* A fault halts.                                                          *)
InService ==
  /\ stub = "none" => isr \cap Master = {} /\ part = "none"
  /\ stub \in {"timer", "other"} =>
       /\ part \in {"print", "eoi", "leave", "halted"}
       /\ part \in {"leave", "halted"} => isr \cap Master = {}
       /\ stub = "other" => part # "halted"
       /\ \E m \in Master : isr \cap Master \subseteq {m}
  /\ place # "lidt" /\ ~HasTable => ~intr /\ isr = {} /\ stub = "none"
  /\ stub = "lost" => part = "print"
  /\ stub = "fault" => part # "leave"

IInv == TypeOK /\ InService /\ CursorSettles /\ StopsOnlyFor

(* The timer survives that, and everything else that does not stop the     *)
(* kernel: it interrupts again and again, in DEADOS for good, and in FIFOS *)
(* until the last thread is done.                                          *)
TimerGoesOn ==
  [](Timer \in lines) => []<>(stub = "timer" \/ Stuck)
=============================================================================
