-------------------------------- MODULE Port --------------------------------
(***************************************************************************)
(* The RISC-V port of FreeRTOS on this processor: the trap handler and the *)
(* start of the first task (portASM.S), the stack of a new task, critical  *)
(* sections (tasks.c with portmacro.h) and the start of the scheduler      *)
(* (port.c), instruction by instruction where mstatus and mepc matter.     *)
(*                                                                         *)
(* An interrupt may be taken before any instruction while mstatus.MIE is   *)
(* set.  Which task vTaskSwitchContext chooses is left open: Kernel says.  *)
(* Code is a few addresses, of which "b" follows "a"; the registers are    *)
(* two, which trap handlers and the kernel overwrite.                      *)
(***************************************************************************)
EXTENDS Integers

CONSTANTS
  Task,
  NoTask,        \* who runs main and the trap handler
  Word,          \* the values of a register
  MaxNesting     \* bound: the depth of critical sections

ASSUME PortAssumption ==
  /\ NoTask \notin Task
  /\ Word # {}
  /\ MaxNesting \in Nat

VARIABLES
  mode,               \* machine mode, not user mode
  mie, mpie, mpp,     \* mstatus
  mepc, ecall,        \* mepc, and whether mcause is the ecall
  code,               \* the program counter: whose code, and where in it
  regs,
  pxCurrentTCB,
  frame,              \* the context on the stack of each task that does not run
  uxCriticalNesting,  \* of each task
  \* What the properties remember:
  own,                \* where each task is in its code, and its registers
  yielded             \* the tasks that have yielded in their critical section

mstatus == <<mie, mpie, mpp>>
hart == <<mode, mstatus, mepc, ecall, code, regs>>
ghosts == <<own, yielded>>
portVars == <<hart, pxCurrentTCB, frame, uxCriticalNesting, ghosts>>

Registers == [first : Word, second : Word]
Cleared == CHOOSE r \in Registers : r.first = r.second

At(t, where) == [of |-> t, at |-> where]

InHandler == code.at \in {"save", "save_mepc", "handle", "mepc", "mstatus", "mret"}
Runs(t) == code.of = t

NoFrame == [pc |-> At(NoTask, "none")]
Created == {t \in Task : frame[t] # NoFrame}

PortInit ==
  /\ mode = TRUE /\ mie = FALSE /\ mpie = FALSE /\ mpp = TRUE
  /\ code = At(NoTask, "main") /\ mepc = code /\ ecall = FALSE
  /\ regs = Cleared
  /\ pxCurrentTCB = NoTask
  /\ frame = [t \in Task |-> NoFrame]
  /\ uxCriticalNesting = [t \in Task |-> 0]
  /\ own = [t \in Task |-> [at |-> "a", regs |-> Cleared]]
  /\ yielded = {}

-----------------------------------------------------------------------------
(* The processor (modelled in full in Pipeline).                           *)

\* MPIE is set whatever MIE was.
Trap(isEcall) ==
  /\ mie' = FALSE /\ mpie' = TRUE /\ mpp' = mode
  /\ mode' = TRUE
  /\ mepc' = code /\ ecall' = isEcall
  /\ code' = At(NoTask, "save")
  /\ UNCHANGED regs

Interrupt ==
  /\ mie
  /\ Trap(FALSE)
  /\ UNCHANGED <<pxCurrentTCB, frame, uxCriticalNesting, ghosts>>

Mret ==
  /\ code.at = "mret"
  /\ mie' = mpie /\ mpie' = TRUE /\ mpp' = FALSE
  /\ mode' = mpp
  /\ code' = mepc
  /\ UNCHANGED <<mepc, ecall, regs, pxCurrentTCB, frame, uxCriticalNesting, ghosts>>

-----------------------------------------------------------------------------
(* freertos_risc_v_trap_handler.                                           *)

HandlerGoesOn(from, to) == code.at = from /\ code' = [code EXCEPT !.at = to]

\* The registers and mstatus go to the stack of the task, its pointer to the TCB.
Save ==
  /\ HandlerGoesOn("save", "save_mepc")
  /\ frame' = [frame EXCEPT ![pxCurrentTCB] =
                 [@ EXCEPT !.regs = regs, !.mie = mie, !.mpie = mpie, !.mpp = mpp]]
  /\ UNCHANGED <<mode, mstatus, mepc, ecall, regs, pxCurrentTCB, uxCriticalNesting, ghosts>>

\* The address after the ecall, or the address that was interrupted.
SaveMepc ==
  /\ HandlerGoesOn("save_mepc", "handle")
  /\ frame' = [frame EXCEPT ![pxCurrentTCB].pc =
                 IF ecall THEN [mepc EXCEPT !.at = "b"] ELSE mepc]
  /\ UNCHANGED <<mode, mstatus, mepc, ecall, regs, pxCurrentTCB, uxCriticalNesting, ghosts>>

\* vTaskSwitchContext, always after an ecall, and when an interrupt asks for it.
Handle ==
  /\ HandlerGoesOn("handle", "mepc")
  /\ pxCurrentTCB' \in Created
  /\ regs' = Cleared
  /\ UNCHANGED <<mode, mstatus, mepc, ecall, frame, uxCriticalNesting, ghosts>>

RestoreMepc ==
  /\ HandlerGoesOn("mepc", "mstatus")
  /\ mepc' = frame[pxCurrentTCB].pc
  /\ UNCHANGED <<mode, mstatus, ecall, regs, pxCurrentTCB, frame, uxCriticalNesting, ghosts>>

RestoreMstatus ==
  LET f == frame[pxCurrentTCB]
  IN /\ HandlerGoesOn("mstatus", "mret")
     /\ mie' = f.mie /\ mpie' = f.mpie /\ mpp' = f.mpp
     /\ regs' = f.regs
     /\ UNCHANGED <<mode, mepc, ecall, pxCurrentTCB, frame, uxCriticalNesting, ghosts>>

-----------------------------------------------------------------------------
(* Tasks are made and started.                                             *)

\* slip: mstatus goes to the stack as it is
InitialiseStackAsIs(t) ==
  [pc |-> At(t, "a"), regs |-> Cleared, mie |-> mie, mpie |-> TRUE, mpp |-> TRUE]

\* Interrupts off until the mret of the trap handler, and machine mode.
pxPortInitialiseStack(t) ==
  [pc |-> At(t, "a"), regs |-> Cleared, mie |-> FALSE, mpie |-> TRUE, mpp |-> TRUE]

\* main and tasks call it; the first task made is the current one for now.
Create(t) ==
  /\ code.at \in {"main", "a", "b"}
  /\ frame[t] = NoFrame
  /\ frame' = [frame EXCEPT ![t] = pxPortInitialiseStack(t)]
  /\ pxCurrentTCB' \in IF code.at = "main" THEN Created \cup {t} ELSE {pxCurrentTCB}
  /\ UNCHANGED <<hart, uxCriticalNesting, ghosts>>

\* slip: the first task gets mstatus as it is on its stack
StartAsIs ==
  LET f == frame[pxCurrentTCB]
  IN /\ code.at = "main" /\ pxCurrentTCB # NoTask
     /\ mie' = f.mie /\ mpie' = f.mpie /\ mpp' = f.mpp
     /\ code' = At(pxCurrentTCB, "ret")
     /\ own' = [own EXCEPT ![pxCurrentTCB].at = "ret"]
     /\ UNCHANGED <<mode, mepc, ecall, regs, pxCurrentTCB, frame, uxCriticalNesting, yielded>>

(***************************************************************************)
(* vTaskStartScheduler and xPortStartScheduler, with interrupts off, up to *)
(* the instruction of xPortStartFirstTask that sets MIE: it returns to the *)
(* first instruction of the task with ret, which leaves mstatus alone.     *)
(***************************************************************************)
xPortStartScheduler ==
  LET f == frame[pxCurrentTCB]
  IN /\ code.at = "main" /\ pxCurrentTCB # NoTask
     /\ mie' = TRUE /\ mpie' = f.mpie /\ mpp' = f.mpp
     /\ code' = At(pxCurrentTCB, "ret")
     /\ own' = [own EXCEPT ![pxCurrentTCB].at = "ret"]
     /\ UNCHANGED <<mode, mepc, ecall, regs, pxCurrentTCB, frame, uxCriticalNesting, yielded>>

-----------------------------------------------------------------------------
(* What a task does.                                                       *)

\* t goes from its code at one of from to the address to, with registers r.
TaskGoesOn(t, from, to, r) ==
  /\ Runs(t) /\ code.at \in from
  /\ code' = At(t, to) /\ regs' = r
  /\ own' = [own EXCEPT ![t] = [at |-> to, regs |-> r]]
  /\ UNCHANGED <<mode, mepc, ecall, pxCurrentTCB, frame>>

Execute(t) ==
  /\ \/ TaskGoesOn(t, {"ret", "b"}, "a", regs)
     \/ TaskGoesOn(t, {"a"}, "b", regs)
  /\ UNCHANGED <<mstatus, uxCriticalNesting, yielded>>

\* csrc mstatus, 8 and then the count.
vTaskEnterCritical(t) ==
  /\ uxCriticalNesting[t] < MaxNesting
  /\ TaskGoesOn(t, {"a"}, "b", regs)
  /\ mie' = FALSE
  /\ uxCriticalNesting' = [uxCriticalNesting EXCEPT ![t] = @ + 1]
  /\ UNCHANGED <<mpie, mpp, yielded>>

\* slip: interrupts are enabled at each exit
ExitEnables(t) ==
  /\ uxCriticalNesting[t] > 0
  /\ TaskGoesOn(t, {"a"}, "b", regs)
  /\ uxCriticalNesting' = [uxCriticalNesting EXCEPT ![t] = @ - 1]
  /\ mie' = TRUE
  /\ yielded' = IF uxCriticalNesting[t] = 1 THEN yielded \ {t} ELSE yielded
  /\ UNCHANGED <<mpie, mpp>>

vTaskExitCritical(t) ==
  /\ uxCriticalNesting[t] > 0
  /\ TaskGoesOn(t, {"a"}, "b", regs)
  /\ uxCriticalNesting' = [uxCriticalNesting EXCEPT ![t] = @ - 1]
  /\ mie' = (mie \/ uxCriticalNesting[t] = 1)
  /\ yielded' = IF uxCriticalNesting[t] = 1 THEN yielded \ {t} ELSE yielded
  /\ UNCHANGED <<mpie, mpp>>

\* portYIELD is an ecall, in a critical section too.
portYIELD(t) ==
  /\ Runs(t) /\ code.at = "a"
  /\ Trap(TRUE)
  /\ own' = [own EXCEPT ![t].at = "b"]
  /\ yielded' = IF uxCriticalNesting[t] > 0 THEN yielded \cup {t} ELSE yielded
  /\ UNCHANGED <<pxCurrentTCB, frame, uxCriticalNesting>>

-----------------------------------------------------------------------------
TrapHandler == Save \/ SaveMepc \/ Handle \/ RestoreMepc \/ RestoreMstatus \/ Mret

PortNext ==
  \/ Interrupt \/ TrapHandler \/ xPortStartScheduler
  \/ \E t \in Task :
       \/ Create(t) \/ Execute(t)
       \/ vTaskEnterCritical(t) \/ vTaskExitCritical(t) \/ portYIELD(t)

PortSpec == PortInit /\ [][PortNext]_portVars

-----------------------------------------------------------------------------
PortTypeOK ==
  /\ {mode, mie, mpie, mpp, ecall} \subseteq BOOLEAN
  /\ pxCurrentTCB \in Task \cup {NoTask}
  /\ regs \in Registers
  /\ uxCriticalNesting \in [Task -> 0..MaxNesting]

(***************************************************************************)
(* portASM.S saves mepc and mstatus on one stack and restores them from    *)
(* another, once: no interrupt can be taken before the mret, though the    *)
(* handler writes mstatus before it, for a task that was interrupted, that *)
(* yielded or that is new.                                                 *)
(***************************************************************************)
HandlerNotInterrupted == InHandler => ~mie

(***************************************************************************)
(* Whatever traps it took and whichever tasks ran in between, a task goes  *)
(* on in its own code, where it left (after its ecall), with its own       *)
(* registers and in machine mode, where alone it can access the csrs.      *)
(***************************************************************************)
ResumesWhereItLeft ==
  code.of \in Task =>
    /\ code.of = pxCurrentTCB /\ mode
    /\ own[code.of] = [at |-> code.at, regs |-> regs]

(***************************************************************************)
(* Though mstatus is the hart's and the nesting count is each task's, a    *)
(* task runs with interrupts off in its critical sections and on outside   *)
(* of them (task.h:195-196), unless it has yielded in the critical         *)
(* section: the trap of this processor forgets that MIE was clear.         *)
(***************************************************************************)
InterruptsAsNested ==
  code.of \in Task /\ code.of \notin yielded => (mie <=> uxCriticalNesting[code.of] = 0)

(***************************************************************************)
(* The context switch of portASM.S: nothing comes between what it restores *)
(* and its mret, and no task can tell that it was ever taken from the      *)
(* processor.                                                              *)
(***************************************************************************)
SwitchSound == PortTypeOK /\ HandlerNotInterrupted /\ ResumesWhereItLeft
=============================================================================
