------------------------- MODULE Interrupts_proofs -------------------------
(***************************************************************************)
(* Proofs about module Interrupts, for any devices, any number of threads  *)
(* that print, and a screen of any width.                                  *)
(***************************************************************************)
EXTENDS Interrupts, TLAPS

(* A multiple of the tab is a natural number. *)
LEMMA AdvancedType ==
  ASSUME NEW c, NEW x \in Nat
  PROVE  Advanced(c, x) \in Nat
<1> DEFINE q == (x + TAB) \div TAB
<1>1. TAB \in Nat /\ TAB > 0 /\ x + TAB \in Nat
  BY ConsoleAssumption
<1>2. q \in Nat
  BY <1>1
<1>3. TAB * q \in Nat
  <2> HIDE DEF q
  <2> QED BY <1>1, <1>2
<1> QED BY <1>3 DEF Advanced

(* A whole putc leaves the cursor in a column of the screen. *)
LEMMA PutcType ==
  ASSUME NEW xy \in Nat \X Nat, NEW c
  PROVE  /\ PutcAt(xy, c) \in Nat \X Nat
         /\ ~ PutcAt(xy, c)[1] >= COLS
<1> DEFINE x == IF c \in {"cr", "lf"} THEN 0 ELSE Advanced(c, xy[1])
           y == IF c = "lf" THEN xy[2] + 1 ELSE xy[2]
<1>1. x \in Nat /\ y \in Nat
  BY AdvancedType
<1>2. PutcAt(xy, c) = IF x >= COLS THEN <<0, y + 1>> ELSE <<x, y>>
  BY DEF PutcAt
<1>3. COLS \in Nat /\ COLS > 0
  BY ConsoleAssumption
<1> HIDE DEF x, y
<1> QED BY <1>1, <1>2, <1>3

(* The message leaves it there too. *)
LEMMA PrintedType ==
  ASSUME TypeOK
  PROVE  Printed[1] \in Nat /\ Printed[2] \in Nat /\ ~ Printed[1] >= COLS
<1>1. cursor \in Nat \X Nat
  BY DEF TypeOK, cursor
<1>2. PutcAt(cursor, "printable") \in Nat \X Nat
  BY <1>1, PutcType
<1>3. PutcAt(PutcAt(cursor, "printable"), "lf") \in Nat \X Nat
      /\ ~ PutcAt(PutcAt(cursor, "printable"), "lf")[1] >= COLS
  BY <1>2, PutcType
<1> QED BY <1>3 DEF Printed

(* No line has the vector of a fault. *)
LEMMA NoLineIsAFault ==
  ASSUME NEW l \in Master \cup Slave
  PROVE  /\ Stub(Vector(l)) \in {"timer", "other"}
         /\ RankOf(l) \in Master
<1>1. l \in 0 .. 15 /\ (l \in Master <=> l <= 7) /\ (l \in Slave <=> l >= 8)
  BY DEF Master, Slave
<1>2. Vector(l) \in Int /\ Vector(l) >= 32
  BY <1>1 DEF Vector
<1> QED BY <1>1, <1>2 DEF Stub, RankOf, Master, Cascade

(* The lines, and what the assumption says of them. *)
LEMMA LineFacts ==
  ASSUME TypeOK
  PROVE  /\ irr \subseteq Master \cup Slave
         /\ isr \subseteq Master \cup Slave
         /\ lines \subseteq Master \cup Slave
         /\ Master \cap Slave = {}
         /\ Master \subseteq Nat /\ Slave \subseteq Nat
<1>1. lines \subseteq Master \cup Slave
  <2>1. [kernel |-> kernel, lines |-> lines] \in
          [kernel : {"FIFOS", "DEADOS"},
           lines : SUBSET ((Master \cup Slave) \ {Cascade})]
    BY InterruptsAssumption DEF TypeOK
  <2> QED BY <2>1
<1>2. Cascade \in Master
  BY DEF Cascade, Master
<1>3. \A l \in Master \cap Slave : FALSE
  BY DEF Master, Slave
<1>4. Master \subseteq Nat /\ Slave \subseteq Nat
  BY DEF Master, Slave
<1> QED BY <1>1, <1>2, <1>3, <1>4 DEF TypeOK

-----------------------------------------------------------------------------
(* The console, whichever thread's instruction is executed. *)

ConsoleType ==
  /\ csr_x \in Nat /\ csr_y \in Nat
  /\ doing \in [Printer -> {"idle", "store", "test", "skip", "zero",
                            "load_y", "store_y"}]
  /\ reg \in [Printer -> Nat]
  /\ newline \in [Printer -> BOOLEAN]
  /\ left \in [Printer -> 0 .. LENGTH]

(* An instruction of putc keeps the types and CursorSettles. *)
LEMMA PutSettles ==
  ASSUME ConsoleType, CursorSettles, NEW t \in Printer, Put(t)
  PROVE  ConsoleType' /\ CursorSettles'
<1> USE DEF ConsoleType, CursorSettles, At, GoesTo, cursor
<1>0. COLS \in Nat /\ COLS > 0 /\ LENGTH \in Nat
  BY ConsoleAssumption
<1>1. ASSUME NEW c \in Kinds, Begin(t, c)
      PROVE  ConsoleType' /\ CursorSettles'
  <2>1. Advanced(c, csr_x) \in Nat
    BY AdvancedType
  <2>2. left[t] - 1 \in 0 .. LENGTH
    BY <1>0, <1>1 DEF Begin
  <2>3. csr_x' \in Nat /\ csr_y' \in Nat
    BY <1>1 DEF Begin
  <2>4. ConsoleType'
    BY <1>1, <2>1, <2>2, <2>3 DEF Begin
  <2>5. ASSUME csr_x' >= COLS
        PROVE  \E u \in Printer : doing'[u] \in {"test", "zero"}
    <3>1. csr_x' = csr_x
      BY <1>0, <1>1, <2>5 DEF Begin
    <3>2. PICK u \in Printer : doing[u] \in {"test", "zero"}
      BY <2>5, <3>1
    <3>3. u # t
      BY <1>1, <3>2 DEF Begin
    <3>4. doing'[u] = doing[u]
      BY <1>1, <3>3 DEF Begin
    <3> QED BY <3>2, <3>4
  <2> QED BY <2>4, <2>5
<1>2. CASE Store(t)
  <2>1. ConsoleType'
    BY <1>2 DEF Store
  <2>2. doing'[t] = "test"
    BY <1>2 DEF Store
  <2> QED BY <2>1, <2>2
<1>3. CASE Test(t)
  <2>1. ConsoleType'
    BY <1>3 DEF Test
  <2>2. csr_x' = csr_x /\ (csr_x >= COLS => doing'[t] = "zero")
    BY <1>3 DEF Test
  <2> QED BY <2>1, <2>2
<1>4. CASE Skip(t)
  <2>1. ConsoleType'
    BY <1>4 DEF Skip
  <2>2. csr_x' = csr_x /\ \A u \in Printer : doing[u] \in {"test", "zero"} =>
          doing'[u] = doing[u]
    BY <1>4 DEF Skip
  <2> QED BY <2>1, <2>2
<1>5. CASE Zero(t)
  <2>1. ConsoleType'
    BY <1>5 DEF Zero
  <2>2. csr_x' = 0
    BY <1>5 DEF Zero
  <2> QED BY <1>0, <2>1, <2>2
<1>6. CASE LoadY(t)
  <2>1. ConsoleType'
    BY <1>6 DEF LoadY
  <2>2. csr_x' = csr_x /\ \A u \in Printer : doing[u] \in {"test", "zero"} =>
          doing'[u] = doing[u]
    BY <1>6 DEF LoadY
  <2> QED BY <2>1, <2>2
<1>7. CASE StoreY(t)
  <2>1. ConsoleType'
    BY <1>7 DEF StoreY
  <2>2. csr_x' = csr_x /\ \A u \in Printer : doing[u] \in {"test", "zero"} =>
          doing'[u] = doing[u]
    BY <1>7 DEF StoreY
  <2> QED BY <2>1, <2>2
<1> QED BY <1>1, <1>2, <1>3, <1>4, <1>5, <1>6, <1>7 DEF Put

-----------------------------------------------------------------------------
(* The inductive invariant *)

(* Its conjuncts speak of different variables: the console's, and the rest. *)
MachineType ==
  /\ place \in {"remap", "pit", "lidt", "segments", "dispatch", "gone"}
  /\ on \in Printer \cup {Kmain}
  /\ intr \in BOOLEAN
  /\ [kernel |-> kernel, lines |-> lines] \in Wirings
  /\ irr \subseteq lines /\ isr \subseteq lines \cup {Cascade}
  /\ stub \in {"none", "timer", "other", "fault", "lost"}
  /\ part \in {"none", "print", "eoi", "leave", "halted"}
  /\ typed \in BOOLEAN /\ nmi \in BOOLEAN /\ reports \in 0 .. REPORTS
  /\ stub # "none" => ~intr

(* A state has its types if both have. *)
LEMMA Parts ==
  /\ TypeOK <=> ConsoleType /\ MachineType
  /\ TypeOK' <=> ConsoleType' /\ MachineType'
  BY DEF TypeOK, ConsoleType, MachineType

(* The initial states satisfy it. *)
LEMMA InitIInv == Init => IInv
<1> SUFFICES ASSUME Init PROVE IInv
  OBVIOUS
<1>1. TypeOK
  <2>1. ConsoleType
    BY ConsoleAssumption DEF Init, ConsoleInit, ConsoleType
  <2>2. MachineType
    <3>1. PICK w \in Wirings : kernel = w.kernel /\ lines = w.lines
      BY DEF Init
    <3>2. [kernel |-> kernel, lines |-> lines] = w
      BY <3>1, InterruptsAssumption
    <3>3. [kernel |-> kernel, lines |-> lines] \in Wirings
      BY <3>2
    <3>4. reports \in 0 .. REPORTS
      BY InterruptsAssumption DEF Init
    <3> QED BY <3>3, <3>4 DEF Init, MachineType
  <2> QED BY <2>1, <2>2, Parts
<1>2. InService
  BY DEF Init, InService
<1>3. CursorSettles
  BY ConsoleAssumption DEF Init, ConsoleInit, CursorSettles
<1>4. StopsOnlyFor
  BY DEF Init, StopsOnlyFor
<1> QED BY <1>1, <1>2, <1>3, <1>4 DEF IInv

(* A step that leaves the console alone leaves its invariant. *)
LEMMA ConsoleKept ==
  ASSUME ConsoleType, CursorSettles, UNCHANGED console
  PROVE  ConsoleType' /\ CursorSettles'
  BY DEF ConsoleType, CursorSettles, console

(* kmain's steps preserve the invariant. *)
LEMMA BootIInv ==
  ASSUME IInv, Boot
  PROVE  IInv'
<1> USE DEF KmainIn, cpu, pic, boot, outside
<1>1. UNCHANGED <<console, kernel, lines, typed, nmi, reports>>
  BY DEF Boot, PIC_remap, InitPit, SetIdt, ReloadSegments, DispatchFirstRun
<1>2. ConsoleType' /\ CursorSettles'
  BY <1>1, ConsoleKept, Parts DEF IInv
<1>3. MachineType /\ InService /\ StopsOnlyFor
  BY Parts DEF IInv
<1>4. MachineType' /\ InService' /\ StopsOnlyFor'
  <2> USE <1>1 DEF MachineType, InService, StopsOnlyFor, KmainGoesOn, HasTable
  <2>1. CASE PIC_remap
    BY <1>3, <2>1 DEF PIC_remap
  <2>2. CASE InitPit
    BY <1>3, <2>2 DEF InitPit
  <2>3. CASE SetIdt
    BY <1>3, <2>3 DEF SetIdt
  <2>4. CASE ReloadSegments
    BY <1>3, <2>4 DEF ReloadSegments
  <2>5. CASE DispatchFirstRun
    BY <1>3, <2>5 DEF DispatchFirstRun
  <2> QED BY <2>1, <2>2, <2>3, <2>4, <2>5 DEF Boot
<1> QED BY <1>2, <1>4, Parts DEF IInv

(* So do the threads'. *)
LEMMA PrintCharIInv ==
  ASSUME IInv, NEW t \in Printer, PrintChar(t)
  PROVE  IInv'
<1>1. ConsoleType' /\ CursorSettles'
  BY PutSettles, Parts DEF IInv, PrintChar
<1>2. MachineType' /\ InService' /\ StopsOnlyFor'
  BY Parts DEF IInv, PrintChar, MachineType, InService, StopsOnlyFor, boot,
               pic, cpu, outside, HasTable
<1> QED BY <1>1, <1>2, Parts DEF IInv

(* An interrupt is delivered with nothing of the master's in service. *)
LEMMA DeliverIInv ==
  ASSUME IInv, Deliver
  PROVE  IInv'
<1> USE DEF cpu, pic, boot, outside
<1>1. ConsoleType' /\ CursorSettles'
  BY ConsoleKept, Parts DEF IInv, Deliver
<1>2. MachineType /\ InService /\ StopsOnlyFor
  BY Parts DEF IInv
<1>3. PICK l \in irr :
        /\ irr' = irr \ {l}
        /\ isr' = isr \cup {l, RankOf(l)}
        /\ stub' = IF place = "lidt" THEN "lost" ELSE Stub(Vector(l))
  BY DEF Deliver
<1>4. l \in lines /\ l \in Master \cup Slave
  BY <1>2, LineFacts, Parts DEF IInv, MachineType
<1>5. Stub(Vector(l)) \in {"timer", "other"} /\ RankOf(l) \in Master
  BY <1>4, NoLineIsAFault
<1>6. RankOf(l) \in lines \cup {Cascade} /\ (l \in Master => RankOf(l) = l)
  <2>1. \A k \in Master : k \notin Slave
    BY DEF Master, Slave
  <2> QED BY <1>4, <2>1 DEF RankOf
<1>7. stub = "none" /\ isr \cap Master = {}
  BY <1>2 DEF Deliver, MachineType, InService
<1>8. isr' \cap Master \subseteq {RankOf(l)}
  BY <1>3, <1>4, <1>5, <1>6, <1>7
<1>9. ~intr' /\ part' \in {"print", "eoi"} /\ (stub' # "timer" => part' = "print")
      /\ UNCHANGED <<kernel, place, on, lines, typed, nmi, reports>>
  BY DEF Deliver
<1>10. place = "lidt" \/ HasTable
  BY <1>2 DEF Deliver, InService
<1>11. MachineType'
  <2>1. irr' \subseteq lines' /\ isr' \subseteq lines' \cup {Cascade}
    BY <1>2, <1>3, <1>4, <1>6, <1>9 DEF MachineType
  <2>2. stub' \in {"timer", "other", "lost"} /\ part' \in {"print", "eoi"}
    BY <1>3, <1>5, <1>9
  <2>3. intr' = FALSE
    BY DEF Deliver
  <2>4. /\ place \in {"remap", "pit", "lidt", "segments", "dispatch", "gone"}
        /\ on \in Printer \cup {Kmain}
        /\ [kernel |-> kernel, lines |-> lines] \in Wirings
        /\ typed \in BOOLEAN /\ nmi \in BOOLEAN /\ reports \in 0 .. REPORTS
    BY <1>2 DEF MachineType
  <2> QED BY <1>9, <2>1, <2>2, <2>3, <2>4 DEF MachineType
<1>12. InService'
  BY <1>3, <1>5, <1>8, <1>9, <1>10 DEF InService, HasTable
<1>13. StopsOnlyFor'
  BY <1>3, <1>5, <1>9 DEF StopsOnlyFor
<1> QED BY <1>1, <1>11, <1>12, <1>13, Parts DEF IInv

(* An EOI takes from the master the one line that is in service. *)
LEMMA SentEOIOfOne ==
  ASSUME TypeOK, NEW m \in Master, isr \cap Master \subseteq {m}
  PROVE  SentEOI(isr) \cap Master = {}
<1>1. ~ m < m
  BY DEF Master
<1>2. ASSUME NEW l \in SentEOI(isr) \cap Master PROVE FALSE
  <2>1. l = m
    BY <1>2 DEF SentEOI
  <2>2. l \notin Slave
    BY LineFacts
  <2>3. PICK k \in isr \cap Master : k < l
    BY <2>2 DEF SentEOI
  <2> QED BY <1>1, <2>1, <2>3
<1> QED BY <1>2

(* The handlers' steps preserve the invariant. *)
LEMMA HandlerIInv ==
  ASSUME IInv, Handler
  PROVE  IInv'
<1> USE DEF cpu, pic, boot, outside, cursor
<1>0. /\ ConsoleType /\ CursorSettles
      /\ MachineType /\ InService /\ StopsOnlyFor /\ TypeOK
  BY Parts DEF IInv
<1>1. CASE PrintMessage
  <2>1. Printed[1] \in Nat /\ Printed[2] \in Nat /\ ~ Printed[1] >= COLS
    BY <1>0, PrintedType
  <2>2. ConsoleType' /\ CursorSettles'
    BY <1>0, <1>1, <2>1 DEF PrintMessage, ConsoleType, CursorSettles
  <2>3. MachineType' /\ InService' /\ StopsOnlyFor'
    BY <1>0, <1>1 DEF PrintMessage, MachineType, InService, StopsOnlyFor, HasTable
  <2> QED BY <2>2, <2>3, Parts DEF IInv
<1>2. CASE EndOfInterrupt
  <2>1. ConsoleType' /\ CursorSettles'
    BY <1>0, <1>2, ConsoleKept DEF EndOfInterrupt
  <2>2. SentEOI(isr) \subseteq isr
    BY DEF SentEOI
  <2>3. stub \in {"timer", "other"} => SentEOI(isr) \cap Master = {}
    BY <1>0, <1>2, SentEOIOfOne DEF EndOfInterrupt, InService
  <2>4. stub \in {"timer", "other", "fault"}
    BY <1>0, <1>2 DEF EndOfInterrupt, InService, MachineType
  <2>5. MachineType'
    BY <1>0, <1>2, <2>2 DEF EndOfInterrupt, MachineType
  <2>6. InService' /\ StopsOnlyFor'
    BY <1>0, <1>2, <2>3, <2>4 DEF EndOfInterrupt, InService, StopsOnlyFor, HasTable
  <2> QED BY <2>1, <2>5, <2>6, Parts DEF IInv
<1>3. CASE Return
  <2>1. ConsoleType' /\ CursorSettles'
    BY <1>0, <1>3, ConsoleKept DEF Return
  <2>2. CASE stub' = "none" /\ part' = "none" /\ intr' = TRUE
    <3>1. /\ stub = "other" /\ part = "leave" /\ ~intr
          /\ UNCHANGED <<kernel, place, on, lines, irr, isr, typed, nmi, reports>>
      BY <1>0, <1>3 DEF Return, MachineType
    <3>2. MachineType'
      BY <1>0, <2>2, <3>1 DEF MachineType
    <3>3. InService'
      <4>1. isr \cap Master = {} /\ (place = "lidt" \/ HasTable)
        BY <1>0, <3>1 DEF InService
      <4>2. isr' \cap Master = {} /\ (place' = "lidt" \/ HasTable')
        BY <3>1, <4>1 DEF HasTable
      <4> QED BY <2>2, <4>2 DEF InService
    <3>4. StopsOnlyFor'
      BY <1>0, <2>2, <3>1 DEF StopsOnlyFor
    <3> QED BY <2>1, <3>2, <3>3, <3>4, Parts DEF IInv
  <2>4. CASE /\ kernel = "FIFOS" /\ on \in Printer /\ Finished(on)
             /\ stub' = "lost" /\ part' = "print" /\ UNCHANGED intr
    <3>1. /\ stub = "other" /\ part = "leave" /\ ~intr
          /\ UNCHANGED <<kernel, place, on, lines, irr, isr, typed, nmi, reports,
                        console>>
      BY <1>0, <1>3 DEF Return, MachineType
    <3>2. MachineType'
      BY <1>0, <2>4, <3>1 DEF MachineType
    <3>3. InService'
      <4>1. place = "lidt" \/ HasTable
        BY <1>0, <3>1 DEF InService
      <4> QED BY <2>4, <3>1, <4>1 DEF InService, HasTable
    <3>4. StopsOnlyFor'
      BY <2>4, <3>1 DEF StopsOnlyFor, Finished, At, console
    <3> QED BY <2>1, <3>2, <3>3, <3>4, Parts DEF IInv
  <2>3. CASE place = "segments" /\ stub' = "fault" /\ part' = "print" /\ UNCHANGED intr
    <3>1. /\ stub = "other" /\ part = "leave" /\ ~intr
          /\ UNCHANGED <<kernel, place, on, lines, irr, isr, typed, nmi, reports>>
      BY <1>0, <1>3 DEF Return, MachineType
    <3>2. MachineType'
      BY <1>0, <2>3, <3>1 DEF MachineType
    <3>3. InService'
      <4>1. isr \cap Master = {} /\ (place = "lidt" \/ HasTable)
        BY <1>0, <3>1 DEF InService
      <4>2. isr' \cap Master = {} /\ (place' = "lidt" \/ HasTable')
        BY <3>1, <4>1 DEF HasTable
      <4> QED BY <2>3, <4>2 DEF InService
    <3>4. StopsOnlyFor'
      BY <1>0, <2>3, <3>1 DEF StopsOnlyFor, InService, HasTable
    <3> QED BY <2>1, <3>2, <3>3, <3>4, Parts DEF IInv
  <2> QED BY <1>3, <2>2, <2>3, <2>4 DEF Return, Back
<1>4. CASE Switch
  <2>1. ConsoleType'
    BY <1>0, <1>4 DEF Switch, ConsoleType, FlagsLost
  <2>2. /\ csr_x' = csr_x
        /\ \A t \in Printer : doing[t] \in {"test", "zero"} => doing'[t] = doing[t]
    BY <1>0, <1>4 DEF Switch, ConsoleType, FlagsLost
  <2>3. CursorSettles'
    BY <1>0, <2>2 DEF CursorSettles
  <2>4. /\ stub = "timer" /\ part = "leave" /\ isr \cap Master = {} /\ ~intr
        /\ place = "lidt" \/ HasTable
        /\ on' \in Printer \cup {Kmain}
        /\ \/ place' = place
           \/ place' = "gone" /\ place = "dispatch"
        /\ UNCHANGED <<kernel, lines, irr, isr, typed, nmi, reports, left>>
        /\ Back(on')
    BY <1>0, <1>4 DEF Switch, InService, MachineType
  <2>5. place' = "lidt" \/ HasTable'
    BY <2>4 DEF HasTable
  <2>6. \A t \in Printer : Finished(t) => Finished(t)'
    BY <1>0, <1>4 DEF Switch, FlagsLost, Finished, At, ConsoleType
  <2>7. CASE stub' = "none" /\ part' = "none" /\ intr' = TRUE
    <3>1. MachineType'
      BY <1>0, <2>4, <2>7 DEF MachineType
    <3>2. InService'
      BY <2>4, <2>5, <2>7 DEF InService
    <3>3. StopsOnlyFor'
      BY <2>7 DEF StopsOnlyFor
    <3> QED BY <2>1, <2>3, <3>1, <3>2, <3>3, Parts DEF IInv
  <2>8. CASE /\ kernel = "FIFOS" /\ on' \in Printer /\ Finished(on')
             /\ stub' = "lost" /\ part' = "print" /\ UNCHANGED intr
    <3>1. MachineType'
      BY <1>0, <2>4, <2>8 DEF MachineType
    <3>2. InService'
      BY <2>4, <2>5, <2>8 DEF InService
    <3>3. StopsOnlyFor'
      <4>1. PICK u \in Printer : u = on'
        BY <2>8
      <4>2. Finished(u)'
        BY <2>6, <2>8, <4>1
      <4>3. Finished(on)'
        BY <4>1, <4>2 DEF Finished, At
      <4> QED BY <2>4, <2>8, <4>3 DEF StopsOnlyFor
    <3> QED BY <2>1, <2>3, <3>1, <3>2, <3>3, Parts DEF IInv
  <2> QED BY <2>4, <2>7, <2>8 DEF Back
<1>5. CASE Report
  <2>1. cursor \in Nat \X Nat
    BY <1>0 DEF ConsoleType
  <2>2. PutcAt(cursor, "printable") \in Nat \X Nat
        /\ ~ PutcAt(cursor, "printable")[1] >= COLS
    BY <2>1, PutcType
  <2>3. csr_x' \in Nat /\ csr_y' \in Nat /\ ~ csr_x' >= COLS
    BY <1>5, <2>2 DEF Report
  <2>4. ConsoleType' /\ CursorSettles'
    BY <1>0, <1>5, <2>3 DEF Report, ConsoleType, CursorSettles
  <2>5. reports' \in 0 .. REPORTS
    BY <1>0, <1>5, InterruptsAssumption DEF Report, MachineType
  <2>6. MachineType' /\ InService' /\ StopsOnlyFor'
    BY <1>0, <1>5, <2>5 DEF Report, MachineType, InService, StopsOnlyFor, HasTable
  <2> QED BY <2>4, <2>6, Parts DEF IInv
<1>6. CASE LastThreadHalts
  <2>1. ConsoleType' /\ CursorSettles'
    BY <1>0, <1>6, ConsoleKept DEF LastThreadHalts
  <2>2. /\ stub = "timer" /\ part = "leave" /\ part' = "halted"
        /\ kernel = "FIFOS" /\ \A t \in Printer : Finished(t)
        /\ UNCHANGED <<kernel, place, on, intr, lines, irr, isr, stub, typed, nmi,
                      reports, console>>
    BY <1>6 DEF LastThreadHalts
  <2>3. MachineType'
    BY <1>0, <2>2 DEF MachineType
  <2>4. InService'
    BY <1>0, <2>2 DEF InService, HasTable
  <2>5. StopsOnlyFor'
    BY <2>2 DEF StopsOnlyFor, Finished, At, console
  <2> QED BY <2>1, <2>3, <2>4, <2>5, Parts DEF IInv
<1> QED BY <1>1, <1>2, <1>3, <1>4, <1>5, <1>6 DEF Handler

(* And what happens outside. *)
LEMMA DevicesIInv ==
  ASSUME IInv, Devices
  PROVE  IInv'
<1> USE DEF cpu, pic, boot, outside
<1>1. UNCHANGED console
  BY DEF Devices, Raise, Nmi
<1>2. ConsoleType' /\ CursorSettles'
  BY <1>1, ConsoleKept, Parts DEF IInv
<1>3. MachineType' /\ InService' /\ StopsOnlyFor'
  <2>0. MachineType /\ InService /\ StopsOnlyFor
    BY Parts DEF IInv
  <2>1. MachineType' /\ InService'
    <3>1. ASSUME NEW l \in Master \cup Slave, Raise(l)
          PROVE  MachineType' /\ InService'
      <4>1. MachineType'
        BY <2>0, <3>1 DEF MachineType, Raise
      <4>2. InService'
        BY <2>0, <3>1 DEF InService, Raise, HasTable
      <4> QED BY <4>1, <4>2
    <3>2. CASE Nmi
      <4>1. MachineType'
        BY <2>0, <3>2 DEF MachineType, Nmi
      <4>2. InService'
        BY <2>0, <3>2 DEF InService, Nmi, HasTable
      <4> QED BY <4>1, <4>2
    <3> QED BY <3>1, <3>2 DEF Devices
  <2>2. StopsOnlyFor'
    <3>1. UNCHANGED <<kernel, place, on, doing, left>>
      BY <1>1 DEF Devices, Raise, Nmi, console
    <3>2. \/ UNCHANGED <<stub, part, nmi>>
          \/ stub' = "fault" /\ nmi' = TRUE
      BY DEF Devices, Raise, Nmi
    <3> QED BY <2>0, <3>1, <3>2 DEF StopsOnlyFor, Finished, At
  <2> QED BY <2>1, <2>2
<1> QED BY <1>2, <1>3, Parts DEF IInv

(* A step that changes nothing keeps the invariant. *)
LEMMA StutterIInv ==
  ASSUME IInv, UNCHANGED vars
  PROVE  IInv'
  BY DEF vars, IInv, TypeOK, InService, CursorSettles, StopsOnlyFor, Finished, At,
         console, HasTable

(* Every reachable state satisfies the inductive invariant. *)
THEOREM Invariance == Spec => []IInv
<1>1. IInv /\ [NextStep]_vars => IInv'
  BY BootIInv, PrintCharIInv, DeliverIInv, HandlerIInv, DevicesIInv, StutterIInv
     DEF NextStep, Stopped
<1> QED BY <1>1, InitIInv, PTL DEF Spec

(* The state keeps its types, and handlers run with interrupts masked. *)
THEOREM TypeCorrect == Spec => []TypeOK
<1>1. IInv => TypeOK
  BY DEF IInv
<1> QED BY <1>1, Invariance, PTL

(* Whatever interrupts whatever, with interrupts enabled the master has no *)
(* unacknowledged line. *)
THEOREM Acknowledged == Spec => []AllAcknowledged
<1>1. IInv => AllAcknowledged
  BY DEF IInv, TypeOK, InService, AllAcknowledged
<1> QED BY <1>1, Invariance, PTL

(* Nothing stops the kernel but an NMI, an interrupt in one of two windows *)
(* of the start, a thread of FIFOS that goes on after its last hlt, and    *)
(* FIFOS's scheduler when all text is printed. *)
THEOREM Stops == Spec => []StopsOnlyFor
<1>1. IInv => StopsOnlyFor
  BY DEF IInv
<1> QED BY <1>1, Invariance, PTL

(* Interleaved putc's do not lose the cursor behind the end of the line. *)
THEOREM Settles == Spec => []CursorSettles
<1>1. IInv => CursorSettles
  BY DEF IInv
<1> QED BY <1>1, Invariance, PTL

(* A served line of the slave shuts out itself and the lines after it. *)
THEOREM ShutOut == Spec => SlaveShutOut
<1> DEFINE A == \A k \in isr \cap Slave :
                  k \in isr' /\ \A l \in irr \cap Slave : l >= k => l \in irr'
<1>1. IInv /\ [NextStep]_vars => [A]_vars
  <2> SUFFICES ASSUME IInv, [NextStep]_vars PROVE [A]_vars
    OBVIOUS
  <2> SUFFICES ASSUME NextStep, NEW k \in isr \cap Slave
               PROVE  k \in isr' /\ \A l \in irr \cap Slave : l >= k => l \in irr'
    OBVIOUS
  <2> USE DEF cpu, pic, boot, outside
  <2>0. isr \cap Slave \subseteq Nat
    BY LineFacts DEF IInv
  <2>1. CASE Boot
    BY <2>1 DEF Boot, PIC_remap, InitPit, SetIdt, ReloadSegments,
                DispatchFirstRun, KmainIn, IInv, InService, HasTable
  <2>2. ASSUME NEW t \in Printer, PrintChar(t)
        PROVE  isr' = isr /\ irr' = irr
    BY <2>2 DEF PrintChar
  <2>3. CASE Deliver
    <3>1. PICK d \in irr : IsFirst(d) /\ irr' = irr \ {d}
                           /\ isr' = isr \cup {d, RankOf(d)}
      BY <2>3 DEF Deliver
    <3>2. d \in Slave => ~ k <= d
      BY <3>1 DEF IsFirst, Wanted, Blocked
    <3> QED BY <2>0, <3>1, <3>2
  <2>4. CASE Handler
    <3>1. irr' = irr
      BY <2>4 DEF Handler, PrintMessage, EndOfInterrupt, Return, Report,
                  LastThreadHalts, Switch
    <3>2. k \in isr'
      BY <2>4 DEF Handler, PrintMessage, EndOfInterrupt, Return, Report,
                  LastThreadHalts, Switch, SentEOI
    <3> QED BY <3>1, <3>2
  <2>5. CASE Devices
    BY <2>5 DEF Devices, Raise, Nmi
  <2>6. CASE Stopped
    BY <2>6 DEF Stopped, vars
  <2> QED BY <2>1, <2>2, <2>3, <2>4, <2>5, <2>6 DEF NextStep
<1> QED BY <1>1, Invariance, PTL DEF Spec, SlaveShutOut
=============================================================================
