------------------------------- MODULE Frames -------------------------------
(***************************************************************************)
(* The stacks of threads, byte by byte: the first frame of thread_create   *)
(* (src/thread.c and FIFOS's kentry.c) or of the thread_create_org that    *)
(* src/thread.c has kept, and what dispatcher and dispatch_first_run       *)
(* (context_switch.s) push and pop, without interrupts.                    *)
(* Modules Micros and Fifos model a frame by the context it leads to; this *)
(* one is about what that rests on.                                        *)
(*                                                                         *)
(* A value is stored as bytes <<value, 0>>, <<value, 1>>, ...; read        *)
(* otherwise than it was written it is Junk.                               *)
(***************************************************************************)
EXTENDS Integers, Sequences

CONSTANTS
  N,          \* the number of threads
  SIZE,       \* bytes of a stack
  DEPTH,      \* words a thread pushes itself
  SCRATCH,    \* bytes dispatcher's calls use below the frame
  Programs    \* of "micros", "fifos", and "org" for thread_create_org

Tid == 0 .. N - 1
None == -1
Junk == "junk"
Exit == "exit_thread"

(* The frame, with what the calls add to it, lies within the stack but for *)
(* the last word: four bytes of an array of SIZE bytes are not usable.     *)
ASSUME FramesAssumption ==
  /\ N \in Nat \ {0} /\ DEPTH \in Nat /\ SCRATCH \in Nat
  /\ SIZE \in Nat /\ 4 * DEPTH + 8 + 44 + SCRATCH <= SIZE - 4
  /\ Programs \subseteq {"micros", "fifos", "org"}

VARIABLES
  program,
  mem,          \* the bytes written so far
  created,      \* threads
  sp,           \* of each TCB
  current,
  regs, esp, eip,
  depth,        \* words each thread has pushed
  marks         \* what each thread has in its registers

cpu == <<regs, esp, eip>>
vars == <<program, mem, created, sp, current, regs, esp, eip, depth, marks>>

-----------------------------------------------------------------------------
(* Memory *)

Bytes(v, width) == [k \in 1 .. width |-> <<v, k - 1>>]

(* Bytes written at and above an address. *)
Written(m, at, bytes) ==
  [a \in DOMAIN m \cup at .. at + Len(bytes) - 1 |->
     IF a >= at /\ a < at + Len(bytes) THEN bytes[a - at + 1] ELSE m[a]]

Value(m, at, width) ==
  IF /\ at .. at + width - 1 \subseteq DOMAIN m
     /\ \A k \in 0 .. width - 1 : m[at + k] = <<m[at][1], k>>
    THEN m[at][1] ELSE Junk

(* Names and widths in the order of the pushes: pushfl, pushal, pushw.     *)
Pushes ==
  << <<"flags", 4>>, <<"eax", 4>>, <<"ecx", 4>>, <<"edx", 4>>, <<"ebx", 4>>,
     <<"esp", 4>>, <<"ebp", 4>>, <<"esi", 4>>, <<"edi", 4>>,
     <<"ds", 2>>, <<"es", 2>>, <<"fs", 2>>, <<"gs", 2>> >>

(* Mutant: the pops of %gs and %fs exchanged. *)
PopsExchanged ==
  << <<"fs", 2>>, <<"gs", 2>>, <<"es", 2>>, <<"ds", 2>>,
     <<"edi", 4>>, <<"esi", 4>>, <<"ebp", 4>>, <<"esp", 4>>, <<"ebx", 4>>,
     <<"edx", 4>>, <<"ecx", 4>>, <<"eax", 4>>, <<"flags", 4>>, <<"eip", 4>> >>

(* popw, popal, popfl and ret; the value of esp is discarded by popal. *)
Pops ==
  << <<"gs", 2>>, <<"fs", 2>>, <<"es", 2>>, <<"ds", 2>>,
     <<"edi", 4>>, <<"esi", 4>>, <<"ebp", 4>>, <<"esp", 4>>, <<"ebx", 4>>,
     <<"edx", 4>>, <<"ecx", 4>>, <<"eax", 4>>, <<"flags", 4>>, <<"eip", 4>> >>

Registers == {Pushes[k][1] : k \in 1 .. Len(Pushes)} \ {"esp"}

(* Where the k-th pop finds its value, from the stack pointer up. *)
Offset[k \in 1 .. Len(Pops)] ==
  IF k = 1 THEN 0 ELSE Offset[k - 1] + Pops[k - 1][2]

Popped(m, at, name) ==
  LET k == CHOOSE j \in 1 .. Len(Pops) : Pops[j][1] = name
  IN  Value(m, at + Offset[k], Pops[k][2])

(* How far down the stack pointer is after k pushes. *)
Below[k \in 0 .. Len(Pushes)] ==
  IF k = 0 THEN 0 ELSE Below[k - 1] + Pushes[k][2]

FRAME == 44     \* bytes of the pushes

Pushed(m, at, r) ==
  LET Of(name) == IF name = "esp" THEN at ELSE r[name]
      after[k \in 0 .. Len(Pushes)] ==
        IF k = 0 THEN m
        ELSE Written(after[k - 1], at - Below[k],
                     Bytes(Of(Pushes[k][1]), Pushes[k][2]))
  IN  after[Len(Pushes)]

-----------------------------------------------------------------------------
(* thread_create *)

(* Mutant: FIFOS's distance of 0x1001 counts bytes, not words. *)
StackTopInBytes(t) ==
  IF program = "fifos" THEN t * (SIZE \div 4 + 1) + SIZE
                       ELSE t * SIZE + SIZE - 1

(* Mutant: the rows of stacks are counted from 1. *)
StackTopOfNext(t) ==
  IF program = "fifos" THEN (t + 1) * (SIZE + 4) + SIZE
                       ELSE (t + 1) * SIZE + SIZE - 1

(* MICROS passes the last byte of thread_stacks[t], FIFOS the first word   *)
(* above a stack.                                                          *)
StackTop(t) ==
  IF program = "fifos" THEN t * (SIZE + 4) + SIZE ELSE t * SIZE + SIZE - 1

(* get_tcb: TCBs are taken in order and not given back. *)
get_tcb == IF created < N THEN created ELSE None

(* Zeros, selector 0x10, the entry and, above it, exit_thread; in ebp an   *)
(* address in the frame, the top only in thread_create of MICROS.          *)
FirstRegs == [r \in Registers |-> CASE r \in {"ds", "es", "fs", "gs"} -> "selector"
                                    [] r = "flags" -> "flags"
                                    [] r = "ebp" -> IF program = "micros"
                                                      THEN "top" ELSE "eax's place"
                                    [] OTHER -> "zero"]

ThreadCreate ==
  /\ current = None /\ get_tcb # None
  /\ LET top == StackTop(created)
         m == Written(Written(mem, top, Bytes(Exit, 4)), top - 4, Bytes("entry", 4))
     IN  /\ mem' = Pushed(m, top - 4, FirstRegs)
         /\ sp' = [sp EXCEPT ![get_tcb] = top - 4 - FRAME]
  /\ created' = created + 1
  /\ UNCHANGED <<program, current, cpu, depth, marks>>

(* To the context found at address at: pops and ret. *)
SwitchTo(m, at) ==
  /\ regs' = [r \in Registers |-> Popped(m, at, r)]
  /\ eip' = Popped(m, at, "eip")
  /\ esp' = at + FRAME + 4

DispatchFirstRun ==
  /\ current = None /\ created = N
  /\ current' = 0
  /\ SwitchTo(mem, sp[0])
  /\ UNCHANGED <<program, mem, created, sp, depth, marks>>

-----------------------------------------------------------------------------
(* A thread *)

(* It fills its registers with values of its own... *)
OwnRegs(t, g) == [r \in Registers |-> <<t, g, r>>]

Work ==
  /\ eip \in {"entry", "code"}
  /\ \E g \in {0, 1} :
       /\ marks' = [marks EXCEPT ![current] = OwnRegs(current, g)]
       /\ regs' = marks'[current]
  /\ eip' = "code"
  /\ UNCHANGED <<program, mem, created, sp, current, esp, depth>>

(* ...pushes words... *)
Deeper ==
  /\ eip = "code" /\ depth[current] < DEPTH
  /\ depth' = [depth EXCEPT ![current] = DEPTH]
  /\ esp' = esp - 4 * (DEPTH - depth[current])
  /\ mem' = Written(mem, esp', Bytes("local", 4 * (DEPTH - depth[current])))
  /\ UNCHANGED <<program, created, sp, current, regs, eip, marks>>

(* ...and yields: `call yield', `call dispatcher', of which the second     *)
(* returns into dispatcher, the code that follows.                         *)
Yield ==
  /\ eip = "code"
  /\ esp' = esp - 8
  /\ mem' = Written(Written(mem, esp - 4, Bytes("code", 4)), esp - 8,
                    Bytes("dispatcher", 4))
  /\ eip' = "dispatcher"
  /\ UNCHANGED <<program, created, sp, current, regs, depth, marks>>

(* Whoever schedule chooses.  Its calls, and those around it, overwrite    *)
(* SCRATCH bytes below the frame.                                          *)
Dispatcher ==
  /\ eip = "dispatcher"
  /\ LET at == esp - FRAME
         m == Written(Pushed(mem, esp, regs), at - SCRATCH, Bytes("scratch", SCRATCH))
         saved == [sp EXCEPT ![current] = at]
     IN  /\ mem' = m
         /\ sp' = saved
         /\ \E t \in Tid : current' = t /\ SwitchTo(m, saved[t])
  /\ UNCHANGED <<program, created, depth, marks>>

Init ==
  /\ program \in Programs
  /\ mem = << >>
  /\ created = 0
  /\ sp = [t \in Tid |-> 0]
  /\ current = None
  /\ regs = FirstRegs
  /\ esp = 0
  /\ eip = "kmain"
  /\ depth = [t \in Tid |-> 0]
  /\ marks = [t \in Tid |-> FirstRegs]

Next == ThreadCreate \/ DispatchFirstRun \/ Work \/ Deeper \/ Yield \/ Dispatcher

Spec == Init /\ [][Next]_vars

-----------------------------------------------------------------------------
(* Properties *)

(* The types of the variables; memory is a function of addresses. *)
TypeOK ==
  /\ program \in Programs
  /\ mem = [a \in DOMAIN mem |-> mem[a]] /\ DOMAIN mem \subseteq Nat
  /\ created \in 0 .. N
  /\ sp \in [Tid -> Int]
  /\ current \in Tid \cup {None}
  /\ regs = [r \in Registers |-> regs[r]]
  /\ esp \in Int
  /\ eip \in {"kmain", "entry", "code", "dispatcher"}
  /\ depth \in [Tid -> 0 .. DEPTH]
  /\ DOMAIN marks = Tid
  /\ \A t \in Tid : marks[t] = [r \in Registers |-> marks[t][r]]

(* However threads call and switch, each goes on with the registers, at    *)
(* the place and at the stack depth it had when it was left; the first     *)
(* time, with those thread_create has written.                             *)
Restored ==
  current # None =>
    /\ regs = marks[current]
    /\ eip \in {"entry", "code", "dispatcher"}
    /\ eip # "dispatcher" => esp = StackTop(current) - 4 * depth[current]

(* thread_create's return address is still there when a thread returns, as *)
(* long as no thread uses the last word of its stack: in MICROS the first  *)
(* bytes of that word belong to the return address of the thread below.    *)
ReturnsKept == \A t \in Tid : t < created => Value(mem, StackTop(t), 4) = Exit

(* The bytes of thread_stacks[t], of FIFOS's stacks[t]. *)
Own(t) == IF program = "fifos" THEN t * (SIZE + 4) .. t * (SIZE + 4) + SIZE + 3
                               ELSE t * SIZE .. t * SIZE + SIZE - 1

(* No thread that runs, and no switch from it, stores anything on another  *)
(* thread's stack or beside the stacks. *)
OnOwnStack ==
  [][\A a \in DOMAIN mem' :
       current # None /\ a \notin Own(current) =>
         a \in DOMAIN mem /\ mem'[a] = mem[a]]_vars

(* thread.c:18, `Statically allocate stacks (4KB each, aligned)': what     *)
(* belongs to the stacks is kept in their array.                           *)
InStacks == \A a \in DOMAIN mem : \E t \in Tid : a \in Own(t)

-----------------------------------------------------------------------------
(* The inductive invariant *)

(* What Value reads. *)
Holds(m, at, v, width) ==
  \A k \in 0 .. width - 1 : at + k \in DOMAIN m /\ m[at + k] = <<v, k>>

(* Where t's own words end. *)
Top(t) == StackTop(t) - 4 * depth[t]

(* A frame at address at with the registers r, to return to place. *)
FrameAt(m, at, r, place) ==
  /\ \A k \in 1 .. Len(Pushes) :
       Pushes[k][1] # "esp" =>
         Holds(m, at + FRAME - Below[k], r[Pushes[k][1]], Pushes[k][2])
  /\ Holds(m, at + FRAME, place, 4)

(* A thread off the CPU has left a frame at the end of its words: the one  *)
(* thread_create wrote, or one of dispatcher, called by yield or returned  *)
(* into.                                                                   *)
Saved(m, at, r, top) ==
  \/ /\ FrameAt(m, at, r, "entry") \/ FrameAt(m, at, r, "code")
     /\ at + FRAME + 4 = top
  \/ /\ FrameAt(m, at, r, "dispatcher")
     /\ at + FRAME + 8 = top
     /\ Holds(m, at + FRAME + 4, "code", 4)

SavedInv ==
  \A t \in Tid : t < created /\ t # current => Saved(mem, sp[t], marks[t], Top(t))

(* The thread on the CPU is at the end of its words, or in dispatcher with *)
(* the way back on its stack.                                              *)
Running(m, at, place, top) ==
  \/ place \in {"entry", "code"} /\ at = top
  \/ /\ place = "dispatcher" /\ at + 4 = top
     /\ Holds(m, at, "code", 4)
  \/ /\ place = "dispatcher" /\ at + 8 = top
     /\ Holds(m, at, "dispatcher", 4) /\ Holds(m, at + 4, "code", 4)

RunningInv ==
  IF current = None THEN eip = "kmain"
  ELSE /\ created = N
       /\ regs = marks[current]
       /\ Running(mem, esp, eip, Top(current))

(* The return address of each thread made, and nothing of the others. *)
CreatedInv ==
  \A t \in Tid : IF t < created THEN Holds(mem, StackTop(t), Exit, 4)
                 ELSE depth[t] = 0 /\ marks[t] = FirstRegs

IInv ==
  /\ TypeOK
  /\ SavedInv
  /\ RunningInv
  /\ CreatedInv
=============================================================================
