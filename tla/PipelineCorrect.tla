--------------------------- MODULE PipelineCorrect ---------------------------
(***************************************************************************)
(* What makes the pipeline correct: the state of the sequential machine it *)
(* stands for, and the properties that relate its stages.                  *)
(***************************************************************************)
EXTENDS Pipeline

TypeOK ==
  /\ prog \in [Slots -> Instr]
  /\ irq \in IrqLines
  /\ pc \in Word
  /\ inst \in Instr
  /\ fb \in FetchBank
  /\ db \in DecodeBank
  /\ eb \in ExecBank
  /\ mb \in MemBank
  /\ bus \in Word
  /\ regs \in [Regs -> Word]
  /\ csr \in CsrState
  /\ mem \in [0 .. (WordMod \div 4 - 1) -> Word]
  /\ inReset \in BOOLEAN

-----------------------------------------------------------------------------
(***************************************************************************)
(* The refinement mapping.  The sequential machine has executed what has   *)
(* left the memory stage: its registers are the register bank with the     *)
(* write in progress, and its pc is the address of the oldest instruction  *)
(* still in the pipeline, or the fetch address when there is none.         *)
(***************************************************************************)
ResumePc ==
  CASE eb.valid                           -> eb.pc
    [] ~eb.valid /\ db.valid              -> db.pc
    [] ~eb.valid /\ ~db.valid /\ fetched  -> fb.pc
    [] OTHER                              -> pc

Arch == INSTANCE ISA WITH pc <- ResumePc, regs <- reg_file

(***************************************************************************)
(* A csr instruction, then a jump or branch, then a csr instruction: the   *)
(* sequence on which the pipeline loses the jump.  The circuit is shown to *)
(* implement the sequential machine on the programs that do without it.    *)
(***************************************************************************)
JumpBetweenCsr(p) ==
  \E k \in Slots :
    LET jump == p[(k + 1) % RamWords] IN
    /\ IsZicsr(p[k])
    /\ IsJump(jump) \/ jump.op = "BRANCH"
    /\ IsZicsr(p[(k + 2) % RamWords])

(***************************************************************************)
(* The circuit implements the sequential machine: stalls, deleted          *)
(* instructions, forwarded operands and traps taken in the memory stage    *)
(* are never seen by software (RISC.vhd as a whole).                       *)
(***************************************************************************)
ImplementsISA == Arch!Spec

(***************************************************************************)
(* "When an instruction is deleted from pipeline must get a valid pc":     *)
(* whenever an interrupt may be taken, the pc in the memory stage, which   *)
(* is what mepc receives, is the pc at which the program goes on, be it    *)
(* the pc of an instruction or of a bubble.                                *)
(***************************************************************************)
ResumePcValid == csr.MIE => eb.pc = ResumePc

(***************************************************************************)
(* Forwarding.  The value register r will have when the instruction in the *)
(* execution stage is the next to retire.                                  *)
(***************************************************************************)
OlderWrites(r) == r # 0 /\ WritesRd(eb.i) /\ eb.i.rd = r

Newest(r) == IF OlderWrites(r) THEN eb.res ELSE reg_file[r]

OperandFresh(used, r, operand) ==
  used => operand = Newest(r) /\ ~(OlderWrites(r) /\ eb.i.op = "LOAD")

(***************************************************************************)
(* The operands in the execution stage are those of program order, whether *)
(* they were read from the bank, forwarded from the memory stage or from   *)
(* write back, and none waits for a load that has not answered (the risk   *)
(* multiplexers and load_use).                                             *)
(***************************************************************************)
OperandsFresh ==
  /\ OperandFresh(UsesRs1(db.i), db.i.rs1, rs1_exe)
  /\ OperandFresh(UsesRs2(db.i), db.i.rs2, rs2_exe)

(***************************************************************************)
(* csr values are read in decode and not forwarded.  Until the instruction *)
(* that read one retires the value stays the one in the register, although *)
(* traps, mret and other csr instructions write those registers (csr_stop  *)
(* and the deletions).                                                     *)
(***************************************************************************)
CsrReadFresh ==
  /\ IsZicsr(db.i) => db.csr_val = CsrRead(csr, db.i.csr) /\ ~IsZicsr(eb.i)
  /\ IsZicsr(eb.i) => eb.res = CsrRead(csr, eb.i.csr)

(***************************************************************************)
(* mret is executed in any mode.  It never raises the privilege of user    *)
(* code, because no path leaves MPP at machine in user mode.               *)
(***************************************************************************)
NoUserMpp == csr.mode = "U" => csr.MPP = "U"

(***************************************************************************)
(* User mode is left only by a trap or a reset: machine mode starts at     *)
(* mtvec, with interrupts off and the pipeline empty.                      *)
(***************************************************************************)
UserLeavesByTrap ==
  [][csr.mode = "U" /\ csr'.mode = "M" /\ ~inReset' =>
       /\ pc' = csr.mtvec
       /\ ~csr'.MIE
       /\ ~eb'.valid /\ ~db'.valid /\ fb'.noped]_vars

(***************************************************************************)
(* No stall, deletion or trap loop stops the hart: after the last reset,   *)
(* instructions reach the memory stage for ever (load_use, csr_stop and    *)
(* the write enables).                                                     *)
(***************************************************************************)
Progress == <>[]~inReset => []<>eb.valid

-----------------------------------------------------------------------------
(***************************************************************************)
(* What the code says of itself and does not do.                           *)
(***************************************************************************)

(***************************************************************************)
(* A jump in the execution stage that nothing deletes moves the pc to its  *)
(* target (branch_mode "01", "inconditional jump").                        *)
(***************************************************************************)
TakenJumpRedirects ==
  [][branch /\ ~take_trap /\ ~mret_mem /\ ~inReset' => pc' = target]_vars

(***************************************************************************)
(* A trap saves the interrupt enable in MPIE ("Machine prior interrupt     *)
(* enable") so that mret restores it.                                      *)
(***************************************************************************)
TrapSavesInterruptEnable ==
  [][take_trap /\ ~inReset' => csr'.MPIE = csr.MIE]_vars
=============================================================================
