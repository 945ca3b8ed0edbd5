--------------------------------- MODULE ISA ---------------------------------
(***************************************************************************)
(* What the core promises to software: a machine that executes one         *)
(* instruction at a time, takes an exception on the instruction that       *)
(* raises it and an interrupt between two instructions.  No stage, stall,  *)
(* bubble or forwarding path exists here.  Pipeline.tla is the circuit and *)
(* is shown to implement this specification.                               *)
(***************************************************************************)
EXTENDS Hart

VARIABLES
  prog,   \* the instruction memory (no program here writes its own text)
  pc,     \* the next instruction to execute
  regs,   \* the integer registers
  csr,    \* the privilege mode and the machine-mode registers
  mem,    \* data memory, one word per word address
  irq     \* the interrupt inputs

arch == <<pc, regs, csr, mem>>
vars == <<prog, pc, regs, csr, mem, irq>>

-----------------------------------------------------------------------------
I == Fetch(prog, pc)

Address(i) == Alu(0, regs[i.rs1], Imm(i))

Taken(i) ==
  \/ IsJump(i)
  \/ i.op = "BRANCH" /\ Comp(i.f3, regs[i.rs1], regs[i.rs2])

Target(i) == Even(Alu(0, IF i.op = "JALR" THEN regs[i.rs1] ELSE pc, Imm(i)))

CsrOperand(i) == CsrOp(i.f3, regs[i.rs1], Imm(i), CsrRead(csr, i.csr))

\* The causes of the synchronous exceptions of an instruction.
Exceptions(i) ==
  {c \in {0, 2, 3, 4, 6, 8, 11} :
    \/ c = 2  /\ (i.op = "BAD" \/ (IsZicsr(i) /\ csr.mode = "U"))
    \/ c = 3  /\ IsBreak(i)
    \/ c = 8  /\ IsEcall(i) /\ csr.mode = "U"
    \/ c = 11 /\ IsEcall(i) /\ csr.mode = "M"
    \/ c = 0  /\ Taken(i) /\ Target(i) % 4 # 0
    \/ c = 4  /\ i.op = "LOAD"  /\ MisalignedAccess(i.f3, Address(i))
    \/ c = 6  /\ i.op = "STORE" /\ MisalignedAccess(i.f3, Address(i))}

Interrupts ==
  IF TimerPending(csr, irq) THEN {IrqCause(7)}
  ELSE IF ExternalPending(csr, irq) THEN {IrqCause(11)} ELSE {}

\* The word a load reads, and the memory after a store.
Loaded(i) == LoadLane(i.f3, Address(i) % 4, mem[Address(i) \div 4])

Stored(i) ==
  [mem EXCEPT ![Address(i) \div 4] =
     StoreLane(i.f3 % 4, Address(i) % 4, @, regs[i.rs2])]

(***************************************************************************)
(* The value an instruction leaves in rd, when it has a destination.  A    *)
(* FENCE with a destination clears it: it is executed as an operation on   *)
(* two zeros.                                                              *)
(***************************************************************************)
Result(i) ==
  CASE i.op = "AUIPC"   -> Alu(0, pc, Imm(i))
    [] IsJump(i)        -> Plus4(pc)
    [] i.op = "LOAD"    -> Loaded(i)
    [] i.op = "OPIMM"   -> Alu(AluMode(i), regs[i.rs1], Imm(i))
    [] i.op = "OP"      -> IF IsMulDiv(i)
                           THEN MulDiv(i.f3, regs[i.rs1], regs[i.rs2])
                           ELSE Alu(AluMode(i), regs[i.rs1], regs[i.rs2])
    [] IsZicsr(i)       -> CsrRead(csr, i.csr)
    [] OTHER            -> Alu(AluMode(i), 0, Imm(i))

-----------------------------------------------------------------------------
Init ==
  /\ prog \in [Slots -> Instr]
  /\ pc = 0
  /\ regs = [r \in Regs |-> 0]
  /\ csr = CsrReset
  /\ mem = [a \in 0 .. (WordMod \div 4 - 1) |-> 0]
  /\ irq \in IrqLines

\* Entering the handler: mode M, interrupts off, the interrupted pc saved.
Trap(cause) ==
  /\ pc' = csr.mtvec
  /\ csr' = [csr EXCEPT !.mode = "M", !.MIE = FALSE, !.MPIE = TRUE,
                        !.MPP = csr.mode, !.mepc = pc, !.mcause = cause]
  /\ UNCHANGED <<regs, mem>>

TakeInterrupt == \E c \in Interrupts : Trap(c)

TakeException ==
  /\ Interrupts = {}
  /\ \E c \in Exceptions(I) : Trap(c)

Mret ==
  /\ Interrupts = {}
  /\ IsMret(I)
  /\ pc' = csr.mepc
  /\ csr' = [csr EXCEPT !.mode = csr.MPP, !.MIE = csr.MPIE, !.MPIE = TRUE,
                        !.MPP = "U", !.MPRV = csr.MPP = "M" /\ csr.MPRV]
  /\ UNCHANGED <<regs, mem>>

Retire ==
  /\ Interrupts = {}
  /\ Exceptions(I) = {}
  /\ ~IsMret(I)
  /\ pc' = IF Taken(I) THEN Target(I) ELSE Plus4(pc)
  /\ regs' = IF WritesRd(I) THEN [regs EXCEPT ![I.rd] = Result(I)] ELSE regs
  /\ csr' = IF IsZicsr(I) THEN CsrWrite(csr, I.csr, CsrOperand(I)) ELSE csr
  /\ mem' = IF I.op = "STORE" THEN Stored(I) ELSE mem

\* Nothing is executed: the pipeline refills, or waits.
Idle == UNCHANGED arch

(***************************************************************************)
(* A reset clears everything but the memory, which a store already on the  *)
(* bus still writes.                                                       *)
(***************************************************************************)
Reset ==
  /\ pc' = 0
  /\ regs' = [r \in Regs |-> 0]
  /\ csr' = CsrReset
  /\ \/ UNCHANGED mem
     \/ /\ Interrupts = {}
        /\ Exceptions(I) = {}
        /\ I.op = "STORE"
        /\ mem' = Stored(I)

Next ==
  /\ \/ TakeInterrupt
     \/ TakeException
     \/ Mret
     \/ Retire
     \/ Idle
     \/ Reset
  /\ irq' \in IrqLines
  /\ UNCHANGED prog

Spec == Init /\ [][Next]_vars
=============================================================================
