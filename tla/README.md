# RiscZeto in TLA+

Specifications, model checking and proofs for the RISC-V core of this
repository (`vhdl_src/`), its memory, and the software that runs on it
(`c_src/`, `riscv-freertos/`).

## 1. The system

| Part | Source | State | Operations | What is hard | What makes it correct |
|---|---|---|---|---|---|
| CPU pipeline | `vhdl_src/src/RISC.vhd` and the four `*_BANK.vhd`, `BREG`, `REG`, `CSR_*` | pc, four banks, 32 registers, privilege mode and seven machine registers | one rising edge of the clock; a rising edge with `reset` | five instructions at once; stalls, deletions and traps meeting on one edge; values read early and used late | software cannot tell it from a machine that executes one instruction at a time |
| Arithmetic units | `ALU`, `COMPARATOR`, `MULDIV` | none (combinational) | one function per mode | signs, division by zero, overflow, 33-bit products | the laws of the instruction set |
| RAM, `IO_REG` | `RAM.vhd`, `IO_REG.vhd`, `B_RAM_0..3.vhd` | four byte banks, saved size and offset | fetch; load and store of byte, half, word | the answer is formatted a cycle after the request | a load returns the last bytes stored |
| `MTIMER` | `MTIMER.vhd` | `mtime`, `mtimecmp` (64 bits), saved register | count; read or write a 32-bit half; level interrupt | 64-bit values moved in two halves while one counts | the interrupt is raised when, and only when, the time asked for has come |
| System bus | `RISC_SOC.vhd` | none | connects the devices on one read bus | exactly one device may drive the bus | every address has at most one device |
| `PRINT_REG`, `test.vhd` | same | none; clock and reset | report a store; drive clock and reset | release of reset | the first instruction is executed once |
| Bare-metal example | `c_src/src` | `period`, the interrupted registers | set the period, enable, handle the timer interrupt, print | the handler interrupts anything | a tick every period |
| FreeRTOS tick | `port.c`, `portASM.S` | `ullNextTime`, the compare register | set up, serve the tick | three writes to move 64 bits under a running counter | ticks neither lost nor early |
| Context switch | `portASM.S`, `port.c`, `portmacro.h` | the stacks, mstatus and mepc, `uxCriticalNesting` of each task | start, trap, yield, enter and leave a critical section | interrupts between any two instructions; one mstatus for all tasks | a task resumes where it left, with its registers and its interrupt enable |
| `atomic.h` | same | a word | compare and swap, add, or, ... | read and write are two steps | no update of another is lost |
| FreeRTOS tasks | `tasks.c`, `list.c` | ready lists and their bit map, two delayed lists, pending, suspended and terminating lists, tick count, the fields of the TCBs | tick, context switch, delays, suspend, resume, abort, set priority, wait for an event, inherit a priority, create, delete, clean up | handlers between any two steps; the wrap of the tick count; calls about a task that is in the middle of another | the highest ready task runs; no task is lost, late or early; no memory is lost |
| Notifications | `tasks.c` | state and value of each task | take, wait, notify, give, clear | the value is looked at and the wait begun in two steps | none is slept over |
| FreeRTOS queues | `queue.c` | storage, two pointers, count, holder, two waiting lists, two lock counts | send, overwrite, receive, peek, take, give, reset, from tasks and from handlers | test and wait are two steps; a wait that times out as the item comes | no wakeup lost, no mutex with two holders, no priority inversion; first in, first out |
| Event groups | `event_groups.c` | bits, the tasks that wait for them | set, clear, wait, sync, delete | what woke a task is gone when it runs | a waiter returns the bits that woke it; a rendezvous waits for all |
| Timers | `timers.c` | two lists, `xLastTime`, the command queue | start, stop, reset, change, delete, deferred calls, the daemon | commands are carried out late, and across the wrap | no timer early or forgotten |
| Stream buffers | `stream_buffer.c` | ring, head, tail, who waits | send, receive, completed calls, reset, trigger level | no lock between the writer and the reader | bytes in order; neither sleeps over what it waits for, and both at once only below the trigger level |
| Heaps | `heap_1`, `2`, `4`, `5` | free list, counts of bytes | allocate, free, define the regions, statistics | sizes that overflow; joining on either side | blocks tile the heap; nothing is refused that fits |
| Co-routines | `croutine.c`, `queue.c` | ready, delayed and pending lists | schedule, delay, queue calls | handlers; ticks caught up several at a time | none lost, late or overtaken |
| FreeRTOS demo | `riscv-freertos/src` | a queue of length one, two counters | send and delay, receive | a send that does not wait | the receiver sees every value in order |
| Tests and tooling | `tests/`, `common/`, `vhdl_src/scripts` | none | assemble, load, simulate | | |

The core and the devices interact through the bus signals (`addr_data`,
`write_data`, `bus_we`, `bus_mode`, `data_bus`) and the two interrupt lines;
core and software through the instructions; the drivers and the timer through
its four memory words; tasks and kernel through calls, traps and the tick; the
services of the kernel (event groups, timers, streams) through the lists of
`tasks.c` and the notifications.

## 2. Modules

| Module | Contents |
|---|---|
| `Hart` | What an instruction and the machine registers are, and the combinational blocks, as constant operators with assumptions |
| `ISA` | The abstract specification: a machine that executes one instruction at a time |
| `Pipeline` | The circuit: one variable per register, one operator per signal, under the signal's name; actions `Clock` and `Reset` |
| `PipelineCorrect`, `PipelineProofs` | The refinement mapping and the properties; the theorems |
| `MCPipeline`, `MCData` | The instances TLC checks: an assembler and families of programs |
| `FuncUnits`, `UnitsCheck` | The arithmetic units and byte lanes; their laws over every pair of operands |
| `ByteLanes` | One memory word under any sequence of loads and stores |
| `MTimer` | The two 64-bit registers of the timer, and what a clock edge does to them under an access of the bus |
| `Ticker` | The abstract specification of a periodic tick |
| `TickTimer`, `TickTimerProofs` | `vPortSetupTimerInterrupt` and the tick handler of FreeRTOS, one bus access per step, against `MTimer`; the theorems |
| `MtimerDriver`, `MtimerDriverProofs` | The driver of the bare-metal example (`c_src/src/mtimer.c`) against `MTimer`; the theorem |
| `Lemmas` | What several proofs need of numbers, sequences and folds |
| `Port`, `PortProofs` | The trap handler, the start of the first task and critical sections, instruction by instruction where mstatus and mepc matter; the theorems, of `Atomic` too |
| `Atomic` | The operations of `atomic.h` on a word, over `Port` |
| `MCMachine` | All of the above on one instance: a behaviour is of one of them |
| `KernelList` | `list.c`: a list and its walking index |
| `Tasks` | `tasks.c`: each function as an operator from the kernel's state to the next |
| `Queues` | `queue.c`: what a queue does in one critical section or handler |
| `TasksProofs` | What each operator of `Tasks` and `Queues` does to the lists, to the bit map of the priorities and to who should run |
| `Kernel` | Tasks that call the kernel, one action per critical section, and the interrupts between them |
| `KernelCorrect`, `MCKernel` | What the kernel promises; the applications TLC runs |
| `KernelProofs` | The theorems of the kernel |
| `TaskLife` | `xTaskCreate`, `vTaskDelete` and the clean-up by the idle task, with the memory they use |
| `Notifications` | Task notifications, from tasks and handlers |
| `EventGroups`, `Timers`, `StreamBuffers` | Each of the three, over `Notifications` and `Kernel` |
| `Services`, `MCServices` | The kernel with all of them; the applications TLC runs |
| `ItemQueue` | The abstract specification of a queue: a sequence |
| `QueueStorage`, `QueueStorageProofs` | The ring of bytes a queue keeps its items in, with its two pointers; the theorems |
| `BlockHeap` | The four heaps: their free lists, and the sums that overflow |
| `CoRoutines` | The co-routines of `croutine.c` with a queue and handlers |
| `MCStorage` | The last three on one instance |

### From the code to the model

* A VHDL register is a variable, a concurrent assignment an operator, a rising
  edge the action `Clock` in which all registers change at once. The order of
  the `when ... else` arms is kept.
* The decode bank holds some twenty control bits that are functions of the
  instruction. The model keeps the instruction (a record of the decoder's
  fields) and computes them where they are used. A deleted slot holds
  `NopInstr`, which is what the zeroed control bits amount to.
* `db.valid` and `eb.valid` are not in the circuit. They tell a fetched
  instruction from a bubble, and only properties read them.
* The register file is written on the *falling* edge. Its value in the second
  half of the cycle, which decode reads, is `reg_file`.
* Words are numbers below `WordMod`. The units are constants of `Hart`: the
  proofs hold whatever they compute, TLC runs them with `FuncUnits`.
* The four mstatus bits and the two mie bits are moved next to each other so
  that they fit the small words of the instances. The bits the code reads as
  constants (12 repeats MPP, 21 is one) are left out.
* A definition whose comment starts with *slip* is not part of the model. It is
  its neighbour after a plausible mistake; every property has been shown to
  fail when one of them takes the neighbour's place.

### The sequential machine

`ISA` is written from what the core does to software, so it records the places
where the core goes its own way: interrupts are masked by MIE in user mode too,
`mret` is not privileged, a FENCE with a destination register clears it, mie
cannot be read, an unknown csr reads as zero and ignores writes, a misaligned
jump is checked before it is taken and mepc keeps the bits written to it.

`ImplementsISA` maps the pipeline onto it. The machine has executed what has
left the memory stage: its registers are `reg_file`, its pc is that of the
oldest instruction in the pipeline, or the fetch address if there is none
(`ResumePc`). Each edge is one instruction, one trap, a reset or a stutter.

### The timer and its software

The core executes a load or a store to the timer on one edge, so every step of
`TickTimer` and `MtimerDriver` is one edge of `MTimer` with one access, and
`Wait` is an edge without any: the instructions between two accesses take any
number of cycles. A 64-bit value is a record of its halves, `[h, l]`. The
answer to a read is formed in the cycle after the edge (`saved_ra`), which is
why a read sees `mtime'`. In the port the order of the accesses is that of the
assembly and of the `volatile` pointers, except for the one 64-bit store of
`vPortSetupTimerInterrupt`, which the compiler may split either way (`Arm`,
`ArmRest`); in `mtimer.c` nothing is volatile or narrower than 64 bits, so both
orders of every access are in the model.

`ImplementsTicker` maps the port onto `Ticker`: `now` is the counter, `asked`
the counter at the call of the set-up, `due` the tick the compare register is
set for. The first tick is due a period after some instant of the call, each
later one exactly a period after the one before, and none is served early.

### The context switch

`Port` has the privilege mode, mstatus, mepc and the cause of the processor, two
registers, and the stack frame of each task that does not run. An instruction
of a task is a place in its code, "a" or "b" after it, so that skipping the
ecall and repeating an interrupted instruction differ. While MIE is set, an
interrupt may be taken before any instruction, the kernel's and the handler's
among them. Which task `vTaskSwitchContext` chooses is left open. A trap sets
MPIE whatever MIE was, as the core does (`RISC.vhd:329`). `Atomic` adds a shared
word: every read and the write of an operation is an instruction.

### The kernel

`Tasks` and `Queues` are the functions of the kernel, under their names, from
one kernel state to the next; `Kernel` is who calls them and when. A task runs
the calls its application gives it in a loop, and its position in a call is in
`thread`. One action is one critical section, or one stretch of code with the
scheduler suspended that touches nothing a handler touches (the comment at
`tasks.c:390` says which lists those are). `xTaskResumeAll` is one critical
section and one action, with its two loops; `prvUnlockQueue` is two. Between any
two actions the tick or a handler may come. `portYIELD` is an `ecall`, taken at
once inside a critical section too, so a yield there is part of the action
(`YieldIf`); the yield after `xTaskResumeAll` is an action of its own.

`AppsAssumption` says what an application is: its tasks are created once each,
with priorities that exist; a call names a queue, a task, an item, a number of
ticks and a place to go on at when it fails, of the kinds it needs; a handler
does not send to a mutex. Nothing is said of the order of the calls.

A list is a sequence; the order of equal values and the position of the walking
index, which time slicing depends on, are those of the code. `wake` and
`eventValue` are the values of a task's two list items. The value of a state
item outside the delayed lists is never read and kept at 0. `due` is not in the
code: it is the absolute time at which a wait or a delay ends.

The configuration is that of `FreeRTOSConfig.h` and `portmacro.h`: preemption
and time slicing, the ready priorities in a bit map, mutexes, timers, aborted
delays, no queue sets, dynamic allocation only, `configASSERT` empty.

### The services

`Services` is one next-state relation over the state of `Kernel` and what the
services add to it; a call of a service is a sequence of actions like that of a
queue, cut at the ends of its critical sections and, with the scheduler
suspended, where a handler could see or change what it works on.

* `TaskLife`: the two allocations of `xTaskCreate` take a unit each of `memory`,
  with the scheduler suspended as in `pvPortMalloc`; between them, and between
  the two frees of the idle task, other tasks run. A failed allocation takes the
  path of the code (`tasks.c:783`); the hook of `main.c` for it, which stops the
  program, is left out.
* `Notifications`: one entry of `ulNotifiedValue`; all five actions.
* `EventGroups`: the event item of a task that waits for bits holds bits and the
  control flags, of one that waits for a queue its priority, as in the code;
  `EventValue` and `NothingRead` tell the two apart.
* `Timers`: the daemon is a task like the others, with its command queue, and
  reads the next expiry, the time and the queue in the steps of the code. It is
  assumed to run at least once in each turn of the tick count (`MCServices`
  chooses `TickMod` so), since `xLastTime` cannot tell two turns from one.
* `StreamBuffers`: bytes are copied in one or two parts, then the index is moved,
  then who waits is notified, each a step. Message lengths take `HeaderBytes`.
  `sent` is what a reader should find, for the properties.
  A sender notifies the reader only from the trigger level on
  (`stream_buffer.c:654`), and a writer waits for space without regard to it
  (`stream_buffer.c:611`). So with a level above one both can sleep at once: a
  reader of an empty stream of three bytes with level two, one byte sent, and a
  send of three bytes. Without a time-out neither wakes again. The run reaches
  that state (`BothSleepApps`), with and without a time-out, and `StreamWaiters`
  says that there is no other: the bytes are then fewer than the level, and at
  least one. `stream_buffer.h:92-102` describes the level so, and nothing in the
  repository says that this cannot happen; it is for the application to avoid.
  The level is changed by no application while a reader sleeps below it:
  `xStreamBufferSetTriggerLevel` wakes no one.

### The storage

`QueueStorage` keeps `pcWriteTo` and `pcReadFrom` as positions of a ring of
cells. `Promised` maps it onto `ItemQueue`: the items are the cells after
`pcReadFrom`, as many as are waiting. The numbers of items that the kernel
modules compute with are those of this sequence.

`BlockHeap` keeps the free list as the code does, by size in heap_2 and by
address in heap_4 and heap_5, and the blocks callers have, which the code
forgets; `size_t` counts modulo `SizeMod`, so that the sum of a request, the
header and the alignment overflows, and half of `SizeMod` is the bit of an
allocated block. A walk is a choice by position or a fold. `CoRoutines` runs
functions whose local state is their place (`uxState`), as co-routines have no
stack.

## 3. What the runs check

A property of a run may be a conjunction of several; its definition lists them,
and each part has its own comment.

| Run | Programs and environment | Shows |
|---|---|---|
| `core` | machine programs with two instructions of 13 (traps, jumps, csr accesses, mret) and two handlers, user programs with two of 12; interrupt inputs arbitrary at each edge | `ImplementsISA`, the refinement; `ResumePcValid`: an interrupt always saves the pc at which the program goes on; `CsrReadFresh`: csr values read early are still right; `UserLeavesByTrap`, `NoUserMpp`: user mode is left by traps only, and mret raises nothing |
| `data` | four instructions of 12 (producers, loads, stores, branches, csr); nine programs that trap, with interrupts, and resets at any edge and of any length | the refinement, also across resets; `OperandsFresh`: forwarded operands are those of program order; `Progress`: after the last reset instructions retire or trap for ever |
| `machine` | the FreeRTOS tick from any reset; the bare-metal driver, halves in any order; two tasks that yield and nest critical sections under interrupts; all pairs of 8-bit operands; loads and stores of every size on one word | `ImplementsTicker`, `CompareSound`: a periodic tick, and a compare register that is whole when interrupts are on and never too low while it is moved; `DriverPeriod`: the period is kept when no carry falls between the two reads, otherwise the error is below 2^32; `SwitchSound`, `InterruptsAsNested`: a switch is invisible to the task; `AtomicWhenMasked`: with interrupts off no update is lost; `UnitLaws`; `LoadsLastStored` |
| `kernel` | twenty-one applications of two or three tasks and the idle task | `ListsSound`: no task is lost or in two lists; `SchedulerSound`: the bit map is that of the lists, and the highest ready task runs; `TimeKept`, `DelaysExact`: nothing sleeps past its time or is woken before it, no wait is cut short, periods do not drift; `NoLostWakeup`; `MutexesSound`: one holder, and nobody gives what he does not hold; `NoInversion`: the holder is never less urgent than a task that waits, and loses what it inherits where the scheduler looks |
| `services` | applications that create and delete, notify, meet at event groups, use timers and stream bytes or messages | `ServicesSound`: each living task is in the lists of its state, a deleted one in none; `UrgentRuns`; `HandlersKeepOut`; `MemoryConserved`; `NoLostNotification`; `EventsSound`, `SyncBarrier`; `TimersKept`; `StreamInOrder`; `StreamWaiters`: nobody sleeps over what it waits for, and writer and reader sleep at once only over bytes below the trigger level |
| `storage` | queues of one to four items; five layouts of four heaps; three co-routines with a queue | `ImplementsItemQueue`, `RingSound`; `HeapSound`, `HeapServes`: the blocks tile the heap, a caller has the room it asked for and is refused only without; `CoRoutinesSound`, `CoRoutinesServed` |
| `jump_lost` | the sequence of `portASM.S:243-247` | **violated**: a jump between two csr instructions is lost |
| `trap_mpie` | an `ecall` with interrupts off | **violated**: it returns with them on |
| `driver_torn` | the bare-metal driver | **violated**: with a carry between the reads the interrupt is not a period away |
| `stale_ready_bit` | three tasks, two mutexes, a wait that times out | **violated**: the scheduler takes a task from an empty ready list |
| `heap_stats` | a heap allocated to its last byte | **violated**: the walk of the statistics passes the end marker |
| `atomic` | operations of `atomic.h` outside critical sections | **violated**: a handler's update is lost |

**Bounds.** Words have 8 bits, made of four 2-bit bytes: enough for a carry, a
sign and four byte lanes, and for addresses of the 16 instructions of a program
with both kinds of misalignment. Four registers: x0, two that every window
reads and writes, and one for the handlers. Five stages look at three
neighbours at most (decode, execution, memory), so windows of four instructions
put every pair and triple of the alphabet next to each other; windows of two
inside a frame that traps, returns and is interrupted at every edge do the same
for control. The unit laws do not depend on the width beyond the sign bit.

The timer has halves of eight values instead of 2^32 and stops counting when
its high half is `LastHigh`, 4 (3 in `driver_torn`): each run crosses several
carries, at each point of the set-up and of the handler, with periods of 3 and
5 that fall on different phases of the low half. The real counter needs half a
million years to wrap. The context switch has two tasks, one-bit registers and
a nesting of two, the least with which a section is left and another is not.

The kernel runs with four priorities and a tick count of four values, so that
`portMAX_DELAY` is 3 and delays of 1 to 3 ticks cross the wrap at every phase.
Each application has its bound on ticks (2 to 9) and on handlers (none to 2). The
applications differ in who waits for whom: delays of all lengths (two turns of
the tick count), and periodic ones; `main.c`; several receivers or senders,
peeking, a reset; mutexes, recursive too or two to a task, with waits of one to three ticks; a
counting semaphore; tasks that abort, suspend, resume and reprioritise each
other. Three tasks are what it takes for one to overtake another while the
third runs.

The services have a tick count of sixteen values, which starts a few ticks below
the wrap in the applications with timers; two bits and one group; two timers
of different periods, and a command queue of two; rings of four and
five bytes, so that every send of two wraps somewhere; memory for one task and
a half. Up to three handlers come in a behaviour.

Heap addresses are below 64 with an alignment and a header of two; the sizes
asked for are 0, 1, those that fill a heap or leave less than a block, one with
the allocated bit and one that overflows; regions touch, do not touch, and
start unaligned. A queue of four items has cells that are neither first, last
nor next to them. Co-routines have two priorities and a tick count of three.

`machine`, `kernel` and `services` check no deadlock: the bound on the counter,
or on ticks, stops the clock and at last everything.

**The exclusion.** The runs that check the refinement leave out the programs
with a csr instruction, a jump or branch, and a csr instruction in a row
(`JumpBetweenCsr`): on those the circuit loses the jump, which `jump_lost`
shows. Everything else of the alphabets is in. `PipelineImplementsISA` (section
4) proves that no other program has to be left out.

The tasks of `kernel` hold one mutex at a time, but for `BothApps`, where a task
holds two and one of its waiters gives up; two mutexes are given back in the
reverse order there; and no application changes the priority of a task that
waits. For others, the code does not keep what its comments say, and `MCKernel` has an application for each. `queue.c:904-925` does not look
at the answer of `prvCopyDataToQueue` when it wakes a receiver, so that a task
that gives its priority back may run on until the next tick, before a more urgent
one (`tasks.c:4211-4218`: "a context switch should occur when the last mutex is
returned whether a task is waiting on it or not"): `HighestReadyRuns`, a part of
`SchedulerSound`, fails with `Apps <- OrderApps` (two mutexes given back in the
order in which they were taken, a receiver waiting for the first), and with `Apps
<- LateApps` (a single mutex, whose holder has its priority from a task that has
timed out and not run yet). `stale_ready_bit` takes two mutexes
(`NestedApps`). With `Apps <- GiveUpApps`
`NoInheritanceGivenUp` fails, so that the assertion at `queue.c:1586` would; with
`Apps <- UrgencyApps` (a waiter made more urgent) `FirstIsMostUrgent` fails,
against the comment at `tasks.c:3188`. Only `NestedApps` has a run of its own.

mie has the same standing in the core: csr 0x304 is not in the read multiplexer
(`RISC.vhd:654`), so a `csrrs` on mie, which `csr.h:27` calls "Bitmask set mie",
clears the bits it does not set. `ISA` reads mie the same way. And
`InterruptsAsNested` leaves out the tasks that have yielded in a critical
section: because of `trap_mpie` they go on with interrupts enabled.

**Fairness.** `LiveSpec` is weak fairness of the clock edge (`Next`): the
process in `test.vhd` toggles the clock for ever. Nothing is assumed of the
interrupts, the program or the resets; `Progress` promises nothing to a hart
that is reset again and again. The kernel's promises of an end ("no wakeup is
lost", "the daemon does not sleep past a timer") are stated as invariants: in
every state, who waits has something still to come that wakes it. So they need
no fairness of the handlers or of the application.

## 4. What is proved

`PipelineProofs`, for all values of the constants that satisfy the four
assumptions of `Hart` (a word has at least 32 values and a multiple of four, the
instruction memory repeats a whole number of times through the addresses,
register 0 exists, programs are programs, the units return words):

| Theorem | States | Argument |
|---|---|---|
| `TypeCorrect` | `Spec => []TypeOK` | inductive; the addresses wrap, jump targets and mtvec are words after clearing bits |
| `UserMppCorrect` | `Spec => []NoUserMpp` | inductive with the types: traps leave user mode, mret leaves MPP at user, csr writes are refused in user mode |
| `UserExitCorrect` | `Spec => UserLeavesByTrap` | from `NoUserMpp`: mret in user mode stays there, so only a trap changes it |
| `CsrReadCorrect` | `Spec => []CsrReadFresh` | `csr_stop` keeps any two csr instructions apart; traps and mret delete what is behind them |
| `ForwardingCorrect` | `Spec => []OperandsFresh` | see below |
| `ResumePcCorrect` | `Spec /\ ~JumpBetweenCsr(prog) => []ResumePcValid` | `ProgramOrder`, see below |
| `PipelineImplementsISA` | `Spec /\ ~JumpBetweenCsr(prog) => ImplementsISA` | `ProgramOrder`, and one lemma for each kind of edge |

`OperandsFresh` is not inductive: it says that operands are right, not why. The
invariant that is (`ForwardInv`) says that the risk bits of the decode bank
describe exactly the writers in flight (`RiskExact`: "mem" iff the memory stage
writes the register, "wb" iff it does not and write back does, "none" iff
neither does and the banked value is the register's), that a "mem" risk never points to
a load, and that a bubble has no risk. The step is by cases on what decode saw.

`PipelineImplementsISA` is the correctness of the core: for every program without
the sequence of section 3, every interrupt and every reset, the circuit is the
machine of `ISA`. Its invariant, `ProgramOrder`, goes through the pipeline from
its young end: what is fetched is what the program has at the pc of its bank
(`FetchSound`); after an instruction in decode comes the next address
(`DecodeSound`); what the execution stage has put in its bank is what `ISA`
computes for that instruction in the state in which it will leave the memory
stage, and what comes behind it is where `ISA` goes (`ExecSound`, from
`OperandsFresh` and `CsrReadFresh`); and a bubble has the pc of what is behind it
(`PcChain`), but only when that pc may be wanted: after a trap the banks hold the
pcs of the deleted program, which is harmless because interrupts are off until
an instruction of the handler, with a right pc, has enabled them. `PcChain` is
what makes `ResumePcValid` inductive. The hypothesis is used in one place
(`BranchGoes`): a branch that leaves the execution stage finds the pc free to
move. Then an edge is a trap (`TrapRefines`), an mret (`MretRefines`), an
instruction that retires (`RetireRefines`), a bubble (`BubbleRefines`) or a reset
(`ResetRefines`). TLC checked the parts of `ProgramOrder` on the instances of
`core` and under resets before they were proved.

`TickTimerProofs`, for every width of a half, every period below it and every
bound `LastHigh` that is three below the last high half (so that the two ticks
ahead of the counter do not wrap):

| Theorem | States | Argument |
|---|---|---|
| `CompareCorrect` | `Spec => []CompareSound` | from the three theorems before it: `TickTypeCorrect` (nothing is more than two high halves ahead of the counter, `Ahead`, so no sum leaves its range), `TickArmed` (`Placed` says where the halves of `ullNextTime` and of the compare register are at each step) and `CompareAhead` (a sum is not below its terms) |
| `TickImplementsTicker` | `Spec => ImplementsTicker` | `Sampled`: if the high half is the same when it is read again, the two halves read are those of one instant of the call; then each step is one of `Ticker` or waits |

`TickInv` (`TypeOK`, `Ahead`, `Placed`) is inductive; the properties alone are
not, since they say nothing of the steps in which the registers are half
written. The arithmetic of carries is in `PlusFacts` and `ValueOrder`.

`PortProofs`, for any set of tasks and of register values and any depth of
nesting, whichever task the kernel chooses at each trap:

| Theorem | States | Argument |
|---|---|---|
| `HandlerAlone` | `PortSpec => []HandlerNotInterrupted` | of the mstatus on a stack, the handler and the first start shift MIE away (`Contexts`) |
| `SwitchTransparent` | `PortSpec => []SwitchSound` | `Whose` says which task each place of the handler works for; `Contexts` what is on the stack of each task that does not run |
| `NestingCorrect` | `PortSpec => []InterruptsAsNested` | `Nested`: what a stack has of MPIE is the nesting of its task, but for the yielded |

The invariant (`IInv`) also says what the code holds outside tasks: in `main`
(`MainRuns`), in tasks (`TaskRuns`) and in the handler (`HandlerRuns`); one lemma
for each action shows that it keeps all the parts.

`MaskedAtomic` (`AtomicSpec => []AtomicWhenMasked`, in `PortProofs` too) is of
`Atomic`, for any sets of tasks and of words and any depth of nesting. The
property is inductive beside `IInv`: the steps that could break it are those of a
handler or of another task between the read and the write, and `Nested` says
that interrupts are off then.

`MtimerDriverProofs`, for every width of a half and every bound on the counter,
and for every period that fits in the low half (`PeriodAssumption`; `main.c` asks for 2000; with a longer one the sum moves
the high half by more than the carry of the counter, and the bound of the error
is another):

| Theorem | States | Argument |
|---|---|---|
| `DriverPeriodKept` | `Spec => []DriverPeriod` | `DriverInv`: each half that has been read is that of an instant between the first read and the last, in whichever order the compiler reads them, and each half written is that of the sum; with the same high half at both ends the sum is a period after such an instant, otherwise the low half alone is wrong |

`QueueStorageProofs`, for every set of items and every bound on the length:

| Theorem | States | Argument |
|---|---|---|
| `StoragePointers` | `Spec => []RingSound` | inductive as it stands: the distance of the two pointers round the ring is the number of items |
| `StorageImplementsQueue` | `Spec => ImplementsItemQueue` | each call does to the cells after `pcReadFrom` what the sequence says; sending to the front, which moves `pcReadFrom`, renumbers them |

`TasksProofs` and `KernelProofs`, for every number of tasks, priorities, queues
and values of the tick count, and every set of applications that
`AppsAssumption` allows, with no bound on ticks and handlers but that of each
application:

| Theorem | States | Argument |
|---|---|---|
| `ListsKept` | `Spec /\ []GivenByHolder => []ListsSound` | see below |
| `ListsKeptWithoutMutexes` | `Spec => []ListsSound`, if the applications make no mutex | `GivenByHolder` is then empty |
| `RunningTaskKept` | `Spec /\ []GivenByHolder => [](SuspendedByRunning /\ RunningIsReady)` | the same invariant |
| `SchedulerKept` | `Spec /\ []GivenByHolder /\ []GivenAsTaken /\ []GivenToUrgent /\ []GivenUpQuietly => []SchedulerSound` | see below |
| `SchedulerKeptWithoutMutexes` | `Spec => []SchedulerSound`, if the applications make no mutex | the four hypotheses are then empty |
| `TimeIsKept` | `Spec /\ []GivenByHolder /\ []LookedAtInTime => []TimeKept` | see below |
| `DelaysAreExact` | `Spec /\ []GivenByHolder /\ []LookedAtInTime => DelaysExact`, if each task has one period | see below |
| `TimeIsKeptWithoutTimeouts` | `Spec => []TimeKept /\ DelaysExact`, if moreover no application makes a mutex and every call waits for ever or not at all | both hypotheses then hold (`NoneGiven`, `NoneLate`) |
| `MutexesKept` | `Spec => []MutexesSound`, if the programs give back the mutexes they take (`MutexesGivenBack`) and there are finitely many queues | see below |
| `ListsKeptWithMutexes` | `Spec => [](ListsSound /\ SuspendedByRunning /\ RunningIsReady)`, for the same applications | `MutexesSound` has `GivenByHolder` |
| `SchedulerKeptWithMutexes` | `Spec /\ []GivenToUrgent /\ []GivenUpQuietly => []SchedulerSound`, for the same | and `GivenAsTaken` |
| `TimeIsKeptWithMutexes` | `Spec /\ []LookedAtInTime => []TimeKept`, for the same; the hypothesis falls if every call waits for ever or not at all | as above |

`ListsSound` counts; the proofs use `Good` instead, which says the same with
sets: no list holds a task twice (`Shape`), and what a task is in one list for
excludes the others (`Placed`). Every function of `tasks.c` and `queue.c` takes
a good state to a good one. What else it does is one of two things: it *moves*
(`Moves`: no task is lost, none leaves its ready list, and another task runs
only if the scheduler is not suspended and that task is ready) or the running
task *goes to sleep* (`SleepsIn`: it is in one list, not a ready one, and the
others are where they were). Moves compose, so the loops of `xTaskIncrementTick`,
`xTaskResumeAll` and `prvUnlockQueue`, which are folds, move if each of their
steps does. That is an induction; the library's theorems for it cannot be
used, but it can be done with sets (`NatSetInduction`: a set of numbers with 0 and
every successor has them all), and with it what steps taken in turn keep (`ChainIn`, `ChainExists`).

That is not enough, since a function may count on where its caller is: a task
that goes to sleep twice, or that is put on an event list while it is on another,
would break `Good`. So `KernelInv` adds who is where: `SuspendedByRunning` (the
scheduler is suspended, once, exactly while the running task is at a place where
it has suspended it, and no other task is at such a place) and
`RunningIsReady` (the running task is in its ready list, and waits for nothing,
unless it is between going to sleep and its yield, `Leaving`). Neither is
inductive without the other. Each action of `Kernel` has a lemma
that it keeps `KernelInv`. TLC checked `KernelInv` on the applications of `kernel`
before it was proved.

The hypothesis `[]GivenByHolder` is two assertions of the code
(`tasks.c:4175-4176`, which `configASSERT` leaves out here): who gives a mutex
back has taken it. It is the duty of the application, and the theorem is false
without it: `xTaskPriorityDisinherit` takes the holder out of its state list and
puts it in a ready list, which for a holder that waits leaves it in the event
list too. `MutexesSound` checks it in the run `kernel`, and `MutexesKept` says for which
programs it holds.

`SchedulerSound` (types, an exact bit map, and the highest ready task runs) is
not inductive either: while the scheduler is suspended a task more urgent than
the running one may be ready. `Sched` says when: the bit map is `Exact`, always,
and the running task is a most urgent one of the ready tasks unless the scheduler
is suspended and a yield is pending, which `xTaskResumeAll` then makes. The
inductive invariant is `KernelInv /\ Sched(k) /\ NumbersTyped`; the last is the
types of what `Kernel` adds to the lists (counts, time-outs, recursion). Each
function of `tasks.c` and `queue.c` has a second lemma in `TasksProofs` for
`Sched`, and each action of `Kernel` one in `KernelProofs`. The hypotheses are what
the functions count on from the application:

* `GivenByHolder`, as above.
* `GivenAsTaken`: a recursive mutex is given as often as it is taken, or its count
  would pass zero (`queue.c:655-659`).
* `GivenToUrgent`: a task that loses an inherited priority by a give wakes one more
  urgent than it then is, or none. Otherwise it runs on before a more urgent task,
  as in `LateApps`.
* `GivenUpQuietly`: a task that gives up a wait takes an inherited priority back
  from a holder that is not alone in its ready list. Otherwise the bit of that
  list stays set: `stale_ready_bit`.

The run `kernel` checks the first two in `MutexesSound` and the others in
`NoInversion`: they hold of its applications, though not of all that hold one
mutex at a time (`LateApps`). The code does not keep `SchedulerSound` without the last two, as TLC finds
with the applications named.

The mutexes. The first two are about programs, and `GivesBack` says so without a
word on behaviours: for each mutex the calls of a task can be numbered with how
often the task has taken it when it comes there (`Tracks`), whichever way it comes,
also from a call that has failed; a plain take comes where that is
zero and a plain give where it is one; a give where it is zero fails for certain; one
mutex is not taken plainly here and recursively there; and no handler touches
one. All applications of `kernel` are such, and TLC evaluates it
(`GivesBackAssumption`). The calls are numbered for one mutex at a time, so where
another one is concerned a give counts as a call that may fail: a task that nests
two has to say where it goes on then with both counts right, as `BothApps` does, and
`NestedApps` and `OrderApps` of section 3 do not. `MutexesSound` is
not inductive: that a task that gives a mutex holds it depends on all it has done
before. `MutexInv` ties the kernel to the numbers: the holder of a mutex is
the task whose number is not zero, the count of a recursive mutex is that
number, and `uxMutexesHeld` is the count of the mutexes the task holds. One
part says where in its call a task can be: a call that cannot fail is over in one
step (`AtOnce`), so a holder is never in the middle of taking its mutex a second
time. Who takes an item is woken to look again and may find it gone; the number
changes when the item changes hands, and not when the task is woken. For the count
`TasksProofs` has what each function does to it, and that none adds a
task to an event list but where the running task goes to sleep (`Frees`).

The time. The kernel has it in two parts, the tick count and the number of its
turns, and of a sleeping task it keeps the tick at which to wake, and the turn only by
the list the task is in; `Now` and `WakesAt` put the parts together. `TimeKept` is about
what is in the lists, and not inductive, since the next entry comes from a call
that counts on what it has noted. The invariant (`TimeInv`) has three parts: the
lists are `Clocked` (in order, the first to come not before `xNextTaskUnblockTime`); a task
that sleeps wakes when the history variable `due` says; and each wait that has
begun ends then (`WaitKept`: when it began and what is left make `due`, however often the
wait was counted anew; where the call has just looked at the clock, it is counted
from now). A function of `tasks.c` does one of three things to the time
(`TasksProofs`): it wakes some tasks and lets the others sleep (`Wakes`), it lets time
pass (`Passes`: the loops of the tick and of `xTaskResumeAll`, by induction), or it
puts the running task to sleep (`Dozes`). Each action of `Kernel` then
keeps `TimeInv` and wakes none before its time (`InTime`), and from the second
`NoEarlyWake` follows. `NoDrift` takes one part more: the variable a periodic
task passes to `xTaskDelayUntil` is the time its last period began, in a turn
(`PeriodKept`); that the comparison of three ticks in `xTaskDelayUntil` decides rightly
across the wrap of any of them is arithmetic (`NextPeriod`).

`LookedAtInTime` is an assumption on real time, about a task that waits with a
time-out: before it looks at the clock again the tick count does not wrap twice. The
code cannot do without: `xTaskCheckForTimeOut` does not tell two wraps from one
(`tasks.c:3354`), and for a task that is kept from the processor for two turns a wait
can last a turn longer, as TLC finds as soon as an application with time-outs has
ticks for two turns. With a count of 32 bits and a thousand ticks a second
(`FreeRTOSConfig.h:51,57`) two turns are ninety-nine days. The applications of `kernel` stay below them where they have time-outs; `MCKernel`
assumes so, and TLC evaluates it.

Folds aside, the data the theorems speak of is not recursive. Only
model-checked are:

* `Progress`: liveness is out of the prover's reach.
* The unit laws and the lanes: products and quotients of variables, which the
  backends do not decide.
* Of the kernel, `NoLostWakeup` and `NoInversion`. The latter holds of the
  applications of the run and not of all that give back what they take (section 3).
* The services, the heaps and the co-routines.

## 5. What is not modelled

* `mcycle`: it counts edges, and would make every state new.
* Programs that write their own text. The pipeline fetches two instructions
  ahead and has no fence, so for them it does not implement `ISA`; instruction
  and data memory are separate here.
* Which device answers on the data bus, and addresses outside the RAM. In
  `Pipeline` all data addresses are RAM.
* Reset changing elsewhere than on a rising edge. The bench releases it on one
  (`test.vhd:45`); released between two edges, the word on the bus would be
  executed and fetched again.
* Software that writes the counter of the timer: `MTimer` has the accesses, no
  program of the repository makes them. The interrupt reaches the software of
  the timer models at once; that the pipeline takes it is part of `Pipeline`.
* External interrupts and exceptions under FreeRTOS: the handlers of
  `ext_int.c` and `portASM.S` stop the program. The start-up copy and clear loops
  of `start.S`.
* In the kernel: queue sets (configured out), static allocation, names but for
  `xTaskGetHandle`, thread local storage, run-time statistics and the trace
  getters; the hooks, which stop the program; `heap_3`, which wraps the C library;
  deleting a stream buffer, and clearing its bytes at a reset, which nobody reads.
* Tests, tooling, diagrams; the print device (no state).

## 6. Plan

1. *(done)* The core: `Hart`, `ISA`, `Pipeline`, `PipelineCorrect`, proofs, units, lanes.
2. *(done)* The timer and its software: `MTimer`, `Ticker`, `TickTimer`, proofs, `MtimerDriver`.
3. *(done)* The kernel: `KernelList`, `Tasks`, `Queues`, `Kernel`, `KernelCorrect`.
4. *(done)* The context switch: `Port`, proofs; `Atomic`.
5. *(done)* The services: `TaskLife`, `Notifications`, `EventGroups`, `Timers`,
   `StreamBuffers`, `Services`; storage: `QueueStorage`, proofs, `BlockHeap`,
   `CoRoutines`.
6. `Soc`: one device per address; the saved selection that drives the read bus;
   the lanes become part of it. `StartUp`: the copy and clear loops.
7. The links of a list as a refinement of the sequences used here; that a wait
   with a timeout always ends, under fairness of the tick.
8. *(done)* Proofs: the pipeline implements `ISA`; the timers, the context switch
   with `Atomic`, the storage of a queue, and the lists, the scheduler, the time and the
   mutexes of the kernel.
9. Proofs: `NoLostWakeup` for any number of tasks and queues; the free lists of
   `BlockHeap`; the lists under the calls of the services, from the lemmas of
   `TasksProofs`.
