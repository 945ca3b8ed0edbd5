----------------------------- MODULE MCMachine -----------------------------
(***************************************************************************)
(* What the kernel stands on: MTIMER under either of the two programs that *)
(* use it, the FreeRTOS port or the driver of the bare-metal example; the  *)
(* context switch of the port, with the operations of atomic.h; and, on    *)
(* words of four bytes of two bits, the units of the processor and the     *)
(* byte lanes of its memory.  A behaviour is of one of them, the others    *)
(* stay as they are before their first step.                               *)
(***************************************************************************)
EXTENDS TickTimer, Atomic, MtimerDriver

VARIABLES
  kind,    \* what the behaviour is of
  op1, op2,                                               \* the operands of the units
  ram, lanes, saved_mode, saved_byte, bytes, before       \* the memory

exampleVars == <<at, inIrq, left, count, first, last>>
unitVars    == <<op1, op2>>
laneVars    == <<ram, lanes, saved_mode, saved_byte, bytes, before>>
allVars     == <<kind, vars, atomicVars, exampleVars, unitVars, laneVars>>

Units == INSTANCE UnitsCheck WITH ByteBits <- 2

\* The words that are stored: 3 2 1 0, 0 1 2 3 and 1 3 0 2, from the top byte down.
Memory == INSTANCE ByteLanes WITH ByteBits <- 2, Samples <- {228, 27, 114}

MCInit ==
  /\ Init /\ AtomicInit /\ DriverInit /\ Units!Init /\ Memory!Init
  /\ kind \in {"tick", "example", "port", "units", "lanes"}
  /\ kind # "units" => op2 = 0

TickStep ==
  /\ kind = "tick" /\ Next
  /\ UNCHANGED <<kind, atomicVars, exampleVars, unitVars, laneVars>>

ExampleStep ==
  /\ kind = "example" /\ DriverNext
  /\ UNCHANGED <<kind, pc, time, next, began, due, atomicVars, unitVars, laneVars>>

PortStep ==
  /\ kind = "port" /\ AtomicNext
  /\ UNCHANGED <<kind, vars, exampleVars, unitVars, laneVars>>

UnitStep ==
  /\ kind = "units" /\ Units!Next
  /\ UNCHANGED <<kind, vars, atomicVars, exampleVars, laneVars>>

LaneStep ==
  /\ kind = "lanes" /\ Memory!Next
  /\ UNCHANGED <<kind, vars, atomicVars, exampleVars, unitVars>>

MCNext == TickStep \/ ExampleStep \/ PortStep \/ UnitStep \/ LaneStep

MCSpec == MCInit /\ [][MCNext]_allVars

-----------------------------------------------------------------------------
(***************************************************************************)
(* The laws of UnitsCheck: quotients and remainders, the halves of         *)
(* products, the orders of ALU_RISC and COMPARATOR_RISC, and the logical   *)
(* and shift operations agree with each other on every pair of operands.   *)
(***************************************************************************)
UnitLaws == kind = "units" => Units!UnitLaws

(***************************************************************************)
(* The word on the bus after an access to RAM_RISC or an IO_REG is made of *)
(* the last bytes stored before it, whatever mix of sizes stored them.     *)
(***************************************************************************)
LoadsLastStored == kind = "lanes" => Memory!TypeOK /\ Memory!LoadsLastStored
=============================================================================
