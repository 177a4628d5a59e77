# MICROS in TLA+

Specifications, model-checking configurations and machine-checked proofs for
the kernels of this repository: MICROS (top level), the two kernels it grew
from, FIFOS and DEADOS (`fifos_a/CS552-FIFOS`), and MEMOS (`memos-2-helpers`),
from which their start comes.  Source paths are relative to the repository;
module names are files of this directory.

    tlc -config Micros.cfg MCMicros.tla        model-check a run
    tlapm Micros_proofs.tla                    check the proofs

## 1. The system

| Component | State | Operations | Modules |
|---|---|---|---|
| Ready queue, `heap.c` | array of (priority, TCB pointer), size, capacity | `heap_create`, `heap_insert`, `heap_remove`, `heap_peek` | `MinHeap`, `PriorityQueue` |
| Threads, `thread.c` | `tcb_pool`, `curr_tid`, `current_thread`, stacks, `counter`, `done` | `init_thread_pool`, `thread_create`, `exit_thread`, `get_tcb`, `thread_func` | `Micros`, `MicrosDemo`, `Frames` |
| Scheduler, `scheduler.c` | none of its own: queue, TCB states, `current_thread` | `schedule_rm`, and the earlier `schedule_rm_org` | `Micros` |
| Context switch, `context_switch.s`, `save_*` of `kmain.c` | CPU registers, the frames on the stacks, TCB `sp` | `yield`, `dispatcher`, `dispatch_first_run` | `Micros`, `Frames` |
| Start of MICROS, `kmain.c`, `init.c`, `archive/kmain_memory_map.c` | descriptor table, memory counted, terminal | `kmain`, `encodeGdtEntry`, the walk over the memory map, `terminal_*` | `Micros`, `MemoryMap`, `Descriptors`, `Terminal` |
| Console and conversions, `helpers.c` | `csr_x`, `csr_y`; a string | `putc`, `puts`, `putint`, `itoa` | `Console`, `Itoa`, `MemoryMap` |
| FIFOS | circular list of TCBs, `done`, `counter` | `schedule`, `thread_create`, `exit_thread`, `yield`, timer handler | `Fifos`, `RoundRobin`, `Frames` |
| DEADOS | list of ready jobs by deadline, array of waiting threads, budgets, time | `schedule`, `check_waiting_threads`, `add_node`, `pop`, timer handler | `Deados`, `EarliestDeadline` |
| Interrupts of FIFOS-2 and DEADOS, `preemption.h`, `fifos.s` | PICs, PIT, IDT, interrupt flag | `PIC_remap`, `init_pit`, `set_IDT_C`, handlers, `PIC_sendEOI` | `Interrupts`, `Console`, `Descriptors` |
| Console and memory map of FIFOS and DEADOS, `helpers.h`, `memory.h` | as above | `putc`, `itoa`, `put_memory`, `printMemoryMap` | `Console`, `Itoa`, `MemoryMap` |
| MEMOS | memory counted, terminal | `init` | `MemoryMap`, `Itoa`, `Terminal` |

How the MICROS parts interact.  `kmain` fills the pool: each `thread_create`
takes the first idle TCB, writes a first frame on the stack it is given and
inserts the TCB into the heap.  `kmain` then makes TCB 0 current, without
removing it from the heap, and jumps into its frame.  A thread function that
returns falls into `exit_thread`, which finds its TCB through `curr_tid`, counts
the job, reinserts the TCB if jobs are left, calls `schedule_rm` and, if that
left a current thread, `dispatcher`.  `dispatcher` saves the stack pointer in the
TCB that is current *by now*, calls `schedule_rm` *again* and pops the frame of
whatever thread is current then.  There is no timer and no interrupt descriptor
table in MICROS, so threads run to completion or to a `yield`.

How the FIFOS parts interact.  The macro `FIFOS` (`defns.h:6`) selects one of two
programs.  `kmain` makes three threads of the one function `thread`, links their
TCBs into a doubly linked ring and jumps into the first.  Each thread takes a
number from the counter `thread_ids`, prints three lines, marks `done` under its
number and returns into `exit_thread`.  In FIFOS-1 it calls `yield` after each
line, with interrupts off.  In FIFOS-2 it never yields: a timer interrupt, which
may come at any instruction, saves the context in the current TCB, calls
`schedule`, which moves `current` along the ring or unlinks it if it is done,
and resumes the one found.  All state is shared between threads and handler, and
nothing is locked.

How the DEADOS parts interact.  It is FIFOS-2 with another `schedule`.  Every
thread has a period and a budget, in ticks.  The handler of each tick first
releases the waiting threads whose time has come into a list sorted by deadline
(`check_waiting_threads`, `add_node`), then charges the tick to the current
thread and, if its budget is used up, its deadline reached or an earlier one is at the
head of the list, pops the head, skipping jobs whose deadline has passed, and
puts the thread displaced among those that wait.  With nobody to run, a burner
thread has the CPU.  The deadline of a thread that waits is the release time of
its next job.

How interrupts and output interact.  `kmain` of FIFOS-2 and of DEADOS moves the
vectors of the two interrupt controllers, programs the timer, which enables
interrupts, and only then loads the descriptor table.  From then on a handler may
run between any two instructions; most print a message through the same `putc`,
and so on the same cursor, as the threads.

### What is hard about it

* Scheduling twice per exit: the thread picked first is replaced, and a frame
  saved in the middle of an exit goes into another thread's TCB.
* Two names for the running thread (`curr_tid`, `current_thread`), written by
  five functions in two languages.
* Stack pointers that outlive what they point to: a thread's `sp` is only
  written by `thread_create` and `dispatcher`, while its stack is reused.
* Failures that are reported on screen and ignored (`heap_insert` on a full
  queue) or not looked for (`schedule_rm` finding nobody).
* `schedule_rm` ends with `sti`, whatever its caller's flag was.
* Eight-bit priorities, `-1` and `0` as special job counts, a heap capacity
  that is not that of its array, and a size counted after the sift.
* In FIFOS, a handler that changes the ring, the current thread and the flags
  between any two instructions of threads that share all variables, and two
  names of a thread, its TCB's and the number it took itself.
* In DEADOS, one thread in one of three places, moved by loops that remove from
  the array or list they go through, with a NULL pointer read and a NULL current.
* Interrupts enabled before they can be handled, acknowledged to one controller
  of two, and a cursor incremented by threads and handlers.
* Arithmetic on 32-bit words: sums of memory, signs, and numbers turned into text
  by tables and swaps.

`PROJECT.json` lists each at its line under "hazards", with the properties that
watch it, or the reason why none does.

## 2. Modules

### `PriorityQueue` and `MinHeap`

`PriorityQueue` is what `heap.h` promises: a bag of at most `Capacity` nodes;
insertion succeeds exactly if there is room, removal returns *a* node of the
smallest priority and takes it out, a peek leaves it.

`MinHeap` is `heap.c`.  Its state is the array `data`, `size`, and, inside a
call, the loop (`pc`) and the index it has reached (`idx`).  Every iteration of
`sift_up` and `sift_down` is a step, so that the half-done states are seen;
`heap_insert` counts its node after `sift_up`, as in the code.  `heap_resize`
refuses everything, as in the code.  `heap_insert(NULL)` and NULL out
parameters are left out: no caller in the kernel makes such calls.  Cells beyond
the array exist only if the capacity claims them (`Cells`), to let `WithinArray`
see a write there.

### `Micros`

One module for threads, scheduler and context switch, because none of the
properties can be stated of one of them alone.  Steps are what happens between
two places where control can go elsewhere (an interrupt, another stack):

| Action | Code |
|---|---|
| `ThreadCreate` | one turn of the loop of `kmain`: `thread_create`, with `get_tcb` and `heap_insert` |
| `DispatchFirstRun` | end of `kmain`, `dispatch_first_run` |
| `ThreadStart`, `ThreadReturn`, `Yield` | a thread function: its `cli`, its `sti` and `ret`, a call of `yield` |
| `ExitThread` | `exit_thread` with its `schedule_rm`, up to the call of `dispatcher` or the halt |
| `Dispatcher` | `dispatcher` with the `save_*` helpers and its `schedule_rm` |
| `SpuriousInterrupt` | an interrupt with IF set: there is no IDT, control is lost |
| `Stopped` | the `hlt` loops |

*Frames.*  `sp[t]` holds what a switch to `t` would find: which stack, where the
`ret` leads, and IF.  A frame is `Garbage` once the CPU has run on its stack
again (`Overwritten`), since the code writes there from the first call on.
Popping `Garbage`, or a frame through a NULL `current_thread`, leads to the
state "wild", which nothing leaves: what such a CPU does is not determined by
the code.  `yield` is a `call` to the instruction that follows it, so its frame
resumes in `dispatcher` a second time (`ret` keeps where that one returns).

*The queue* is the set of cells, without their order: the order inside is the
business of `MinHeap`, and `IsBest` takes any of the threads of the smallest
priority, as `PriorityQueue` allows.  `schedule_rm`'s drain and refill is one
step: it is masked, and it is the only user of the heap meanwhile.

*`schedule_rm_org`*, the scheduler before `schedule_rm`, is kept in
`scheduler.c` and not called.  It is the function `ScheduleRmOrg`: of the
candidates in the queue and the calling thread, if that is ready, it takes the best
by `rm_cmp`, which looks at whole periods, and puts all candidates back, the one
chosen included.  `SchedulersAgree` compares its choice with each one `schedule_rm`
makes, when periods are different and fit a byte and the first thread has a job to do
(`Comparable`): without a job, `schedule_rm_org` would let it go on and `schedule_rm`
drops it.

*Left out*: `execution_time`, `remaining_time`, `next_arrival`, `bp`, `entry`,
`flag` and the list pointers of a TCB, which are written and never read; all
output.  `max_jobs`, `period` are the table `kmain` is built with, chosen at
`Init`.

*Abstractions on the safe side*: thread functions yield at any time if
`FuncYields`; an interrupt may come in any state with IF set if `TimerUnmasked`.

### `RoundRobin` and `Fifos`

`RoundRobin` is what FIFOS is meant to be: threads in a line, turns taken from
its head, a thread leaves at the head once it has finished and not before, the
last one stops the kernel.  `Fifos` is the kernel, both programs in one module
(`FIFOS` is chosen at `Init`).

| Action | Code (`fifos_a/CS552-FIFOS`) |
|---|---|
| `ThreadCreate`, `BuildRunqueue`, `SetCurrent` | the end of `kmain`, `thread_create` with `get_tcb`, `build_runqueue` |
| `LoadFirst`, `SwitchFirst` | `dispatch_first_run`, on either side of its load of the stack pointer |
| `LoadId`, `StoreId` | `thread_ids++` |
| `PrintLine`, `Yield` | ten numbers and the test of `FIFOS`; `yield`, `dispatcher` with its `schedule`, twice |
| `LoadCounter` to `Branch` | `++counter[id-1] == 3`, in the five steps a tick may separate |
| `SetDone`, `ExitDispatches`, `ExitWaits`, `ExitReturns` | `done[id-1] = TRUE`, `exit_thread` in its two versions, its `ret` after `hlt` |
| `Tick` | `timer_interrupt_asm`, masked, as one step: save, `schedule`, resume |

A saved stack pointer stands for the context whose frame it points to, `Stale`
once that frame is popped; following a `Stale` one is `Wild`.  `Unlink` is
written with the aliasing of the code: the case "down to last thread"
(`kentry.c:107`) compares a pointer that the first assignment has already
changed, so it is never taken, and is not needed.  The flags saved by `Tick` are
those `PIC_sendEOI_0` leaves (`fifos.s:208-216`), so `zf` is lost.  Here it is
kept for the one compare a ring or a thread's end depends on, that of `counter`;
the compares in `putc` and the printing loops are hit as well, with effects on the
screen only (for the cursor see `Interrupts`).  `HaltThere` is the `cli; hlt` of
`schedule` for the last thread; nothing runs after it.

*Left out*: output, the descriptor tables, PIC and PIT and the other handlers
(see `Interrupts`), `timer_interrupt` and
`context_switch`, which nothing calls, and the unused globals (`curr_tid`,
`next_tid`).  The TCBs at 0x500000 are taken to read as zero before first use.
`MAX_THREADS`, the rounds and the modulus of `counter` are constants, and
`TickAt` names the places a tick is taken at, so that a run can ask what
holds with ticks anywhere and what holds away from the critical instructions.

### `EarliestDeadline` and `Deados`

`EarliestDeadline` is what DEADOS promises, in sets: jobs are released when due,
at most a tick late; who is dispatched has the earliest deadline of those ready,
after all due jobs have been released; a job whose deadline passes before it ran
gives way to the next one.  `Deados` is the kernel.  Its handler runs masked, so
that its parts follow one another and only one is ever enabled; each turn of its
loops is a step, to see the list and the array half way.

| Action | Code (`fifos_a/CS552-FIFOS/deados`) |
|---|---|
| `ThreadCreate`, `BurnerCreate`, `LoadFirst`, `SwitchFirst` | `kmain`'s loop, `thread_create` with a TCB and without, `dispatch_first_run` |
| `Start` to `Exit` | `thread`, `exit_thread`: each `hlt` lasts until a tick |
| `Tick` | the stub's pushes, `save_prev_stack`, the acknowledgement |
| `Release`, `NotDue`, `Bubble` | a turn of `check_waiting_threads` with `add_node` and `shift_queue`; a turn of `swap` |
| `GoOn`, `ToBurner`, `Displace` | the conditions of `schedule` |
| `PopAgain`, `Pop` | `pop`, and the rest of `schedule` |
| `Switch` | `increase_time`, `save_next_stack`, the pops |

`heap_peak` may be NULL when its deadline is read (`kentry.c:196`).  What lies
at that address is not known, so the comparison may go either way (`MayGoOn`,
`MayMiss`); both ways then meet the other condition, so that `current` becomes
NULL only in `Pop` of an empty list, which `IInv` shows never to matter for the
places of the other threads: the CPU is `Wild`.  The horizon of a workload stops
the clock so that the state space is finite.

*Left out*: output (see `Interrupts`), the pointers `build_runqueue` writes and
nothing reads, `prev_deadline`, the memory at which nodes are allocated (their
number is kept).

### `Console` and `Interrupts`

`Console` is `putc`: the cursor, and each load and store of it as a step
(`Begin` to `StoreY`) by any number of threads; `PutcAt` is the same undisturbed, as
MICROS calls it.  A character is its effect on the cursor; the screen is left out.
`Interrupts` EXTENDS it with the set-up of FIFOS-2 and DEADOS, each in its order, and
all handlers.

| Action | Code (`preemption.h`, `fifos.s`, `kentry.c`) |
|---|---|
| `PIC_remap`, `InitPit`, `SetIdt`, `ReloadSegments`, `DispatchFirstRun` | `kmain` |
| `Raise`, `Deliver`, `Nmi` | external: devices, priorities of the controllers, `isr_stub_table` (`Stub`) |
| `PrintMessage`, `EndOfInterrupt` | the handler functions: the message, `PIC_sendEOI(0)`, the halt of faults |
| `Return` | the stub's `iret` |
| `Report` | what `schedule` of DEADOS prints in the timer's stub |
| `LastThreadHalts` | the `cli; hlt` of `schedule` of FIFOS, in the timer's stub, when the last thread is done |
| `Switch` | the rest of the timer's stub: the switch to any thread |

The CPU is lost when an interrupt is delivered before the table is loaded
(`place = "lidt"`).  It is lost, too, when a handler goes back to a FIFOS thread
that waits in the `hlt` of `exit_thread`: the thread wakes, and returns past the end of
its stack (`Back`).  `Fifos` shows that calm ticks never do that; here `schedule` may
take any thread, so the step is there.  In FIFOS the table is loaded while `cs` still holds the
boot loader's selector, which a handler's `iret` then pops: it may fault.

### `Itoa`, `Descriptors`, `Terminal` and `MemoryMap`

The sequential start of four programs, chosen at `Init` with a machine and the
entries of its memory map: `init` of MEMOS and the `init.c` of MICROS, `kmain`
of MICROS as archived at that stage, and `printMemoryMap` of FIFOS and DEADOS; and
`putint` of MICROS.  `Itoa` has the three versions of that function, a step for each
turn of their loops; `Descriptors` the bytes of segment descriptors and gates, and
what the processor makes of them; `Terminal` the terminal that begins again at the
top.  `MemoryMap` composes them.  A word has `WORD` values, so that signs and
overflow are those of the code at a smaller width.

### `Frames`

Stacks byte by byte, for `thread_create` of MICROS, of FIFOS, and the
`thread_create_org` that `thread.c` keeps: the first frame, the pushes and pops of
`dispatcher`, `yield`'s call into the next instruction, and a scheduler that
chooses anyone.  It is what `Micros`' and `Fifos`' abstract frames rest on.
Interrupts and exits are not in it: they are in those modules.

### `MicrosDemo`

`Micros` with the body of `thread_func` instead of functions that return any
time: `counter` and `done` at the one index that `thread_ids` = 1 selects.

### MC modules, `Micros_proofs`, `MinHeap_proofs`, `Fifos_proofs`, `Deados_proofs`, `Interrupts_proofs`, `Frames_proofs`, `MemoryMap_proofs`, `Lemmas`

Instances for TLC, and the theorems.  The inductive invariants are kept in the
modules they are about, where TLC can evaluate them; `Lemmas` has what several
proofs need of natural numbers, recursive functions, sums and folds.  The operators marked "Mutant" belong to
no behaviour: each is a broken version of the definition that follows it, with which
a named property fails.

## 3. Runs

| Run | Question | Result |
|---|---|---|
| `heap` | any calls on a heap with the capacity of its array (6 places, 4 threads, two of equal priority): ordered in each iteration, within the array, refines `PriorityQueue`, calls return | holds, 197 183 states |
| `micros` | 4 threads, any periods in {0, 5, 10} and job counts in {0, 1, 3}, and `kmain`'s four periods in any order with the same counts; functions that yield, stray interrupts | threads keep to their stacks and are queued once, no exit is resumed, the lost stay lost, and both schedulers agree; 898 032 states |
| `micros_demo` | `thread_func`, periods that grow with the thread as in `kmain`, 2 or 3 jobs each, an `int` of 16 values | every thread does its first job |
| `micros_finish` | `kmain`'s table | `AllThreadsFinish` violated: `dispatcher` goes on without a thread |
| `fifos` | both programs, 3 threads of 3 rounds, ticks outside the critical instructions (`Calm`), fairness | refines `RoundRobin`, no thread of FIFOS-1 prints two lines more than another, no thread done early or resumed after its exit, all finish; 21 896 states |
| `fifos_ticks` | both programs, 3 threads of 2 rounds, ticks anywhere | one ring, own stacks, unlinked for good, halted only when all threads have left their loops; 642 838 states |
| `fifos_unlink` | FIFOS-2, 2 threads, ticks in `thread_ids++` | `UnlinkedFinished` violated: two threads share a number |
| `deados` | `kmain`'s workload, one that can be met and one of more work than time; ticks anywhere | no thread lost or in two places, jobs within budget and period, one node per period, refines `EarliestDeadline`; with `kmain`'s workload all exit; 53 579 states |
| `deados_miss` | three threads that ask for 12 ticks of every 16 | `NoMiss` violated: a job displaced after 3 of its 5 ticks has had no more when its deadline comes |
| `interrupts` | FIFOS-2 and DEADOS, two printing threads, keyboard, two lines of the slave, with and without the timer | when the kernel can stop (FIFOS's own halt included), what stays in service, where the cursor ends, that the timer goes on until the kernel stops; 922 710 states |
| `memory_map` | the four programs on machines of 2 to 40 megabytes (of 256 bytes, in words of 12 bits), numbers at both ends and in the middle of the range | tables and MICROS's `putint` faithful; totals within their premises; ranges below a word (the archived kmain's: below half a word) shown by their true addresses; all loops end; 15 332 states |
| `frames` | three threads, the three versions of `thread_create` | registers, place and depth restored, return addresses of `thread_create` kept, no store of a thread outside its own stack; 22 827 states |

*Bounds.*  `MAX_THREADS` = 4 is MICROS's own constant, 3 that of FIFOS and DEADOS.
Six heap places give a tree of three levels with a node that has one child only, so
both loops iterate twice and take both branches; equal priorities occur.  The three
periods cover "no period", "shorter" and "longer"; the job counts cover "none", "the
first is the last" and "more to come".  For `Fifos`, unlinking from three, from two,
and the last one all occur.  `fifos` keeps the 3 rounds of the code.  `Wrap` is the
modulus of `counter`, 2^32 in the code; in `fifos` no counter passes `ROUNDS`, so any
modulus above it does.  In `fifos_ticks` counters can pass `ROUNDS` and wrap, two
rounds keep that run small, and the number of rounds is in none of its properties.
In `micros_demo` all threads but the first go round until the `int` of 16
values wraps, three whole turns in all.

In `Deados` time is bounded by the `horizon` of a workload: 96 ticks for `kmain`'s,
eight of its periods, enough for three threads to print three lines of `LINE` = 3
numbers each; 14 and 12 for the others, three or four of each period.  `Interrupts`
has two threads with one character each, three columns and a tab of two, so that
both ways to leave the last column occur, and the second thread can come in anywhere
in between; one `met` or `miss` is printed as one character.  Each line asks any
number of times, but for the keyboard, which nobody reads.  In `MemoryMap` words
have 12 bits and three hexadecimal digits; the sizes lie on both sides of half a
word (8 megabytes) and of a word (16), the tops kept by firmware on both sides of a
megabyte with the hole below the first.  In `Frames` a stack of 68 bytes is
filled by two words of the thread, a frame and the scheduler's calls, but for the
last word: `FramesAssumption` says that they fit, as they do in the code's larger
stacks, with a word to spare.  The word matters: `kmain` passes as a stack's top the address of its last
byte, so three bytes of MICROS's return addresses are in the row of the
next stack, or behind the array (`InStacks`), and survive only as long as that
row is not used to its last word.  `Own` has the array's own rows.

*Fairness.*  `Micros`: weak fairness of the kernel's own steps (one CPU that
executes instructions; nothing in MICROS blocks) and of `ThreadReturn` (the
functions given to `thread_create` return: an assumption on the caller, which
`thread_func` meets after going through an `int`: that is `MicrosDemo`, whose only
fairness is that the CPU executes).  None for `Yield` and
`SpuriousInterrupt`, which need never happen; liveness runs have neither.
`MinHeap`: a call that has started continues; no call need be made.
`Fifos`: weak fairness of `kmain` and of the timer, which goes on ticking, and
strong fairness of each thread's steps.  Strong, because a tick can take the CPU
from a thread again and again, so that its step is not enabled continuously; it
is fair because between two ticks (`preemption.h:193` asks for ten a second, the
divisor cut to sixteen bits gives about twenty-two) a CPU executes millions of
instructions, so a thread gets on in infinitely many of its turns.
`Deados`: weak fairness of the CPU, as one, and of ticks.  Run `deados` has
`kmain`'s workload tick in halts only, as a thread between two of them takes far less
than a tick.  `Interrupts`: weak fairness of the set-up, of delivery, of handlers and
of the timer's requests; the threads need not get on at all.  `MemoryMap`: the CPU
executes.

*What the runs say.*  MICROS is not correct as its comments have it.  The
double scheduling loses threads: none runs a second instance (`InstancesRun`),
and at the end `dispatcher` goes through NULL (`micros_finish`).  The safety
properties say that the fault is tame: a lost thread stays lost (`LostForever`) and
is never duplicated or revived; the frame saved in the wrong TCB is never
resumed (`OwnStack`, `NoReturnToExit`), because that TCB has left the queue by then (`IInv` is the reason
why); TCB 0, dispatched while queued, is not inserted
twice, only because the queue is full (`NoDoubleQueue`).  `FirstJobsRun` needs its premises: with
`max_jobs` = 1 every second thread is dropped without having run.  Rate-monotonic
order holds of periods that fit a byte and differ (`SchedulersAgree`) and of others
not (`RateMonotonic`).

For FIFOS the picture is the reverse: `RingOK`, `OwnContext`, `LeftForGood` and `HaltsWhenDone` hold
with a tick at any instruction, because `schedule` is only
called masked and only unlinks the thread it is called for.  What breaks under
badly placed ticks is the work: a lost `thread_ids++` gives two threads one
number (`fifos_unlink`), and a lost zero flag makes a thread miss its last round
(no text of the repository says how many rounds there are, so no run is about it).
Away from `Calm`'s exceptions (kmain's last two steps, the taking of a number,
the jump of the loop) the kernel is a round robin in which all finish, although
each `yield` goes round the queue twice.

DEADOS keeps its books: no thread is lost, none runs too long, each job is released
in time, and every dispatch is by earliest deadline.  What it does not keep is the
remainder of a job that another displaces: it is never given the rest of its
budget, even if the burner runs meanwhile, so deadlines are missed that can be met
(`NoMiss` is broken when a deadline has come and its job has not had its budget).
It takes a node of memory for each period of each thread, and no more.

The controllers are left in order by every way through the handlers
(`AllAcknowledged`), but only the master: a line of the slave interrupts once.
What stops a kernel is listed by `StopsOnlyFor`: the two windows of the start, an NMI,
FIFOS's own halt, and a finished FIFOS thread that is resumed past its `hlt`.  Until then the timer goes on
(`TimerGoesOn`).

### Counterexamples beside the runs

Three runs end in a counterexample, the findings of `PROJECT.json`.  Seven more
configurations, kept beside the runs, do so too; each contradicts one line of
the repository's text and is to fail as long as the code is as it is:

| Configuration | Module | Violated | What the text says, what the code does |
|---|---|---|---|
| `MicrosInstances.cfg` | `MCMicros` | `InstancesRun` | `thread.h:15`: `max_jobs` instances of a task; one is run, then the double scheduling loses the thread (`thread.c:70,75`), of the three `kmain.c:234` asks for |
| `MicrosInfinite.cfg` | `MCMicros` | `InfiniteGoesOn` | `defs.h:77`: -1 stands for infinite (and 0 for one-shot); `schedule_rm` (`scheduler.c:180`) drops such a thread before its first job |
| `MicrosSlots.cfg` | `MCMicros` | `FinishedFreesSlot` | `thread.c:28`: finished threads free their slot; they stay `THREAD_EXITED`, and `get_tcb` takes `THREAD_IDLE` only |
| `MicrosPeriods.cfg` | `MCMicros` | `RateMonotonic` | `defs.h:73`: a smaller period has the higher priority; periods are cut to eight bits (`thread.c:277`), and 260 goes before 10 |
| `MicrosRounds.cfg` | `MCMicrosDemo` | `ThreeRounds` | `thread.c:357`: a thread runs 3 times; all share one counter, so the second goes round until the `int` wraps |
| `FramesTop.cfg` | `Frames` | `InStacks` | `thread.c:18`: 4KB for each stack; the top `kmain.c:244` passes has `thread_create` (`thread.c:302`) store three bytes in the next stack, or behind the array |
| `MemoryRanges.cfg` | `MCMemoryMap` | `RangesInWord` | `memory.h:101` expects `[0xfffc0000:0xffffffff]`; the archived kmain prints absolute values |

### Other differences between text and code

Seen while modelling besides:

* heap capacity: `heap_create(0)` gives a capacity of 8 (`heap.c:26`, and
  `tests/test_heap.c:83` expects it) over an array of `MAX_THREADS` = 4 nodes
  (`heap.c:61`); run `heap` and theorem `NoOverrun` are for requests that fit, as
  the kernel's does;
* `heap_resize` refuses all requests, so the insertions of
  `tests/test_heap.c:224` beyond capacity 2 return -1 where 0 is asserted;
* `heap.h:13` says that a preempted thread is added to the heap; nothing in
  `yield` or `dispatcher` inserts the thread that gives up the CPU;
* `init.c:126` says that rounding up `guarantees' the total QEMU was given; it does
  under the premises of `MegabytesExact` only;
* `NULL` is -1 in the `types.h` of FIFOS and DEADOS;
* the workload DEADOS is built with takes 17 ticks of every 12;
* the archived `kmain_org.c` passes `thread_stacks[i]`, the low end of a stack, as
  its top.

## 4. Proofs

`Micros_proofs` proves for every `MAX_THREADS`, every set of tables, with or
without `yield` and stray interrupts, the properties of run `micros`.
Assumed is `MicrosAssumption` only (types of the constants, at least one
thread).

The inductive invariant `IInv` has a named part for each place the argument
needs something:

* `BootInv`: thread, stack, TCB and cell numbers agree while `kmain` fills them;
* `QueuedInv`, `QueuedReady`, `NoDoubleQueue`: a queued thread has a frame of
  its own stack from its first job, or `Garbage`, and no second job;
* `OwnStack`, `ThreadInv`: the running thread is the current one in both
  names, has not finished a job, has no frame, and is queued only if the queue
  is full (so that `exit_thread` cannot insert it twice);
* `DispatcherInv`: when `dispatcher` is called by `exit_thread`, the TCB it
  saves into is not in the queue, so that frame is lost with it;
* `StackInv`: no saved frame is on the stack in use, so saving never clobbers
  another thread.

`OneJob` is the other side of `InstancesRun`: no thread does a second job, for
any table.  None of `OneJobEach`, `NoReturnToExit` or `OwnStack` is inductive alone: that an
exit frame is not resumed needs `DispatcherInv`, which needs that
`schedule_rm` takes its choice out of a queue that holds no thread twice.
`SchedulersAgree` (theorem `Agreed`) needs `CallerInv` besides: whoever calls
`schedule_rm` is the current thread by both names, and ready only if it is TCB 0 and
still queued, so that the caller adds no candidate to those of the queue.  There
is a lemma per action; `ScheduleRmFacts`, `InsertCases` and `SavedFacts` state
once what `schedule_rm`, `heap_insert` and the saving of a frame do.

`MinHeap_proofs` proves for any array, capacity, set of threads and priorities
that the loops keep their invariants (`LoopInv`) and types, that the root is a
smallest node between calls, and that a heap whose capacity is at most that of
its array stays within it.  `RootFirst` is by the least index that precedes the
root, from `Lemmas!LeastElement`.  `HeapImplements` proves the refinement of
`PriorityQueue`: the bag of the heap counts the places that hold each node, by
cardinality, so the lemmas say what a store, a swap, an insertion at the end and
the removal of the last place do to that set of places.  A sift only swaps
two places and keeps the bag; `RootFirst` gives that what is handed out is smallest.

`Fifos_proofs` proves for any number of threads and rounds, either program and
ticks at any set of places, all properties of run `fifos_ticks`.  Assumed is
`FifosAssumption` only.  That the run queue is *one* ring is stated as "no proper part of it is closed under `next`", which needs no path or
induction: `UnlinkRing` shows that a part closed after unlinking is closed
before, with or without the thread taken out.  `RingOK` and `OwnContext` are not
inductive alone.  `IInv` adds `BootInv` (what `kmain` has built so far),
`KmainInv` (while `kmain` runs in place of thread 1, the stack pointer it has read
is that thread's or its own popped frame), `NumberOK` (a number is at most one
more than the count of those that have one, although updates are lost), and
`YieldInv`: in FIFOS-1 each thread's number is its TCB's, so that when
`exit_thread` dispatches without saving, `done` of the current thread is set and
`schedule` unlinks it, instead of going round to a context that was not saved.

`HaltsWhenDone` (theorem `HaltWhenAllDone`) is for ticks anywhere: the `done` flags
that are set are as many as the threads that have left their loop, or fewer, since two
threads can share a flag and none can set two; `schedule` halts when the flags of all TCBs are set.

What run `fifos` checks breaks with ticks in five of the eighteen places, so it is
not a theorem of FIFOS-2, and for calm ticks it stays with TLC.  FIFOS-1 yields with interrupts
off, and its theorems (`DoneAfterLastLine`, `LinesInStep`, `RoundRobinImplemented`; hypothesis
`Modes = {1}`) have no hypothesis on ticks: `YieldersCalm` proves that whatever `TickAt` is, every step
of FIFOS-1 is a `CalmStep`.  Their invariant `CalmAll` is kept by calm steps of either program, and adds to
`IInv`: `OnInv`, that boot is not
disturbed and no thread returns from `exit_thread`; `NumberInv`, that each thread takes its
number before the next one is started, so that numbers are those of the TCBs;
`WorkInv`, that a counter is its thread's own and compared at its last value;
`StepInv`, the shape of each round of FIFOS-1, in which every `yield` goes round twice; and
`LineInv`, that the ring is the line of turns.  `DoneIsDone` comes from `WorkInv`,
`InStep` from `StepInv`.  In the refinement the line is the ring
read along `next` from the current thread; a turn moves its head to the end or
takes it out, and `Lemmas` has the recursive function that reads it.

`Deados_proofs` proves for any number of threads, any workloads of positive periods
and ticks at any set of places the invariants of run `deados`, and that every
step implements one of `EarliestDeadline` or a stutter.  Assumed is `DeadosAssumption` only.  `Conserved` and `Sorted` hold in
each turn of each loop, `Sorted` but for the node at `pos`; `AddNode` and `Bubble`
have lemmas about sequences that both its callers use.  `WithinJob` and
`ReleasedOnTime` come from `DeadlineInv`, which says what each part of the handler has
established: after the check nobody who waits is due, after the pop the one chosen has
time left, and the clock moves in `Switch` only.  `CurrentInv` bounds what a
job has run until it is displaced.  `OwnContext` says that the TCB current is that of
the thread on the CPU, so that a tick saves where it should, and `KmainInv` what
`dispatch_first_run` can hold when a tick takes it for the burner.  In the
refinement `ThreadCreate` is `Enter`, `Release` is `Release`, `PopAgain` is `Forgo`,
`Pop` is `Dispatch` or `Idle`, `ToBurner` is `Idle`, `Switch` is `Pass`, and
everything else stutters; that a dispatch has the earliest deadline needs `Sorted`
with `pos` = 0.  `NodesTaken` has an invariant of its own, `NodesInv`: the
nodes taken are the sum over the threads of deadline divided by period, of which
a release adds one to one summand (`Lemmas` has sums of functions over finite sets).

`Interrupts_proofs` proves for any lines, any number of threads that print and any
screen the invariants of run `interrupts` and `SlaveShutOut`.  Assumed are
`InterruptsAssumption` and `ConsoleAssumption`.  The strengthening is `InService`:
only the handler that runs can have a line of the master in service, one, and only
before its acknowledgement; and nothing is in service before interrupts are enabled.
`Stops` goes through what each step can do to `stub` and `part`, FIFOS's halt
included; that a thread has printed its text stays true (`Finished`).
`CursorSettles` is inductive with the types: whoever stores a column off the screen
goes on to test it.

`Frames_proofs` proves for any number of threads, size of stack and bound of depth that
`FramesAssumption` allows (the frames fit, and the last word of a stack is not
used) the three properties of run `frames`.  The
invariant says of every thread off the CPU that each register of its frame is whole at
its offset, byte for byte (`Holds`), with the place it returns to above, at the end of
the thread's words (`SavedInv`), or, in `dispatcher`, with the way back on the stack; of
the one on the CPU that the stack pointer is at the end of its words (`RunningInv`).
A frame pushed is whole (`FrameMade`), stays so while bytes are written elsewhere
(`FrameKept`), and is what the pops read (`FramePopped`).  `ReturnsKept` and `OnOwnStack` are by
what each step writes (`WritesIn`): bytes between the bottom of the thread's row and its
own return address, and at most to the last word of the row, while the return
address of the thread below takes three bytes of that word.

`MemoryMap_proofs` proves the safety properties of run `memory_map` for words of any
number of hexadecimal digits, maps of any length, any screen and any size of a megabyte above two bytes
(`ItoaAssumption`, `TerminalAssumption`, `MemoryMapAssumption`).  Three arguments
meet in its `IInv`:

* *Conversions.*  `ItoaInv` is the invariant of the two loops of `itoa`: before the
  reversal the digits in the string, read from the right, and `value` times a power of
  the base make up the number; in the second the ends outside `low` and `ptr` have been
  exchanged.  It gives that the string reads back as the number
  (`PutIntReads`, the most negative number included), and, with the padding of
  `put_memory`, that a word is shown with all its digits (`HexShown`).  `RangesRead`
  adds that the ends of a range that lies in the first word are what the low words say (`LowWordsKept`, `EndsOfMap`).
* *Tables.*  A descriptor's fields are cut into bytes and put together again
  (`DescriptorReadsBack`, for any field values, not only the kernels' own);
  `TableInv` says that the part written so far is what was encoded.
* *Walks.*  `Place` and `UsableBytes` are sums over the first k entries; the walk
  is at some k (`Counting`), has the total (`Totalling`), has w characters of it on the
  screen (`Writing`), or has printed k ranges (`Printing`).

Two hypotheses are about what the firmware and the constants can be, and
`MCMemoryMap` has TLC evaluate both: `StructEntries`, that entries have the
size of a struct memory_map for the two programs that step by that size (the others
step by the size of each entry, and need no such thing), and, for `MegabytesRead` only,
`ScreenFits`, that the number of megabytes of a word fits on the screen it is read from.

`Micros_proofs` has `RoundsDone` besides, for `MicrosDemo`: it extends `IInv` by what
`counter` and `done` say of the rounds each thread did (`DemoInv`), for any number of
threads above one and any modulus of an `int` that `MicrosDemoAssumption` allows.

Model-checked only, and so for the bounds of the runs only, is all liveness, which is
outside what the prover handles: `CallsReturn`, `FirstJobsRun`, `AllFinish`,
`KmainsExit`, `TimerGoesOn`, `Ends`.  So are what run
`fifos` checks of FIFOS-2, and the violations, which are
counterexamples.  All other properties of the runs are theorems.

## 5. Not modelled

* `elf.h` and `memos-2-helpers/elf.h`: third-party headers, 4 120 lines of
  declarations; `multiboot.h` includes it for a type that nothing refers to.
* `dispatch.c`: an earlier `yield` and `dispatcher` that is not linked, and could not
  be beside `context_switch.s`.
* the rest of `archive/`: superseded versions that nothing builds.
* `tests/`: read for what they expect, see above.
* Functions nothing calls: `cleanup_thread_pool`,
  `timer_interrupt`, `timer_handler`, `irq_handler`, `context_switch` of FIFOS,
  `pop_old`; and those that only print.
* Colours, wording and the contents of the screen, but for the numbers and ranges of
  `MemoryMap`.
* Time between ticks: the timer's rate is in no property.

## 6. Plan

Done: every part that is built and keeps state is modelled, and every safety property,
action property and refinement the passing runs check is proved, but for FIFOS-2 with calm ticks.  What would add to it: that
`Micros` and `Fifos` implement the switching of `Frames`, whose contexts they
abstract; and `Frames` with interrupts and DEADOS's frame, in which the order of entry
and flags differs.
