------------------------------ MODULE Pipeline ------------------------------
(***************************************************************************)
(* The five-stage pipeline of RISC.vhd.  The variables are the registers   *)
(* of the circuit, the operators its combinational signals (with their     *)
(* names), and the action Clock one rising edge of the clock, on which     *)
(* every register takes its next value at once.                            *)
(*                                                                         *)
(*   fetch       pc, inst     the address and the word the RAM returned    *)
(*   decode      fb           FETCH_BANK_RISC                              *)
(*   execution   db           DECODE_BANK_RISC                             *)
(*   memory      eb           EXEC_BANK_RISC                               *)
(*   write back  mb, bus      MEM_BANK_RISC and the word the bus returned  *)
(*                                                                         *)
(* The banks keep the decoded instruction in place of the control signals  *)
(* that are functions of it.  An instruction "deleted" from the pipeline   *)
(* is a bubble: NopInstr with the pc at which the hart would resume.       *)
(* db.valid and eb.valid are not in the circuit: they tell an instruction  *)
(* that was fetched from a bubble, and nothing in the model reads them     *)
(* but the properties.                                                     *)
(***************************************************************************)
EXTENDS Hart

VARIABLES
  prog,     \* the instruction memory
  irq,      \* tim_irq and ext_irq
  pc,       \* addr_inst
  inst,     \* fetch_bus
  fb,       \* FETCH_BANK: noped, pc, pc4
  db,       \* DECODE_BANK: instruction, pcs, register and csr values, risks
  eb,       \* EXEC_BANK: instruction, pc, results
  mb,       \* MEM_BANK: res, rd, rd_we, rd_mux
  bus,      \* data_bus, when a load is in write back
  regs,     \* BREG_RISC
  csr,      \* MMODE, MSTATUS, MIE, MTVEC, MSCRATCH, MEPC and MCAUSE
  mem,      \* data memory
  inReset   \* reset is high until the next rising edge

vars == <<prog, irq, pc, inst, fb, db, eb, mb, bus, regs, csr, mem, inReset>>

Short == {"none", "mem", "wb"}

FetchBank == [noped : BOOLEAN, pc : Word, pc4 : Word]

DecodeBank == [valid : BOOLEAN, i : Instr, pc : Word, pc4 : Word,
               rs1 : Word, rs2 : Word, rs1_risk : Short, rs2_risk : Short,
               csr_val : Word]

ExecBank == [valid : BOOLEAN, i : Instr, pc : Word, res : Word, rs2 : Word,
             csr_result : Word, bad_jump : BOOLEAN]

MemBank == [res : Word, rd : Regs, rd_we : BOOLEAN, rd_mux : BOOLEAN]

(***************************************************************************)
(* A definition whose comment starts with "slip" is not part of the model: *)
(* it is what its neighbour would be after a plausible mistake, and the    *)
(* properties are shown to tell the two apart.                             *)
(***************************************************************************)

\* What the banks hold after a nop (or a reset): only the pc is kept.
DecodeBubble(p) ==
  [valid |-> FALSE, i |-> NopInstr, pc |-> p, pc4 |-> 0, rs1 |-> 0, rs2 |-> 0,
   rs1_risk |-> "none", rs2_risk |-> "none", csr_val |-> 0]

ExecBubble(p) ==
  [valid |-> FALSE, i |-> NopInstr, pc |-> p, res |-> 0, rs2 |-> 0,
   csr_result |-> 0, bad_jump |-> FALSE]

MemEmpty == [res |-> 0, rd |-> 0, rd_we |-> FALSE, rd_mux |-> FALSE]

-----------------------------------------------------------------------------
(***************************************************************************)
(* Memory stage: traps, csr writes, the bus.                               *)
(***************************************************************************)
misaligned == MisalignedAccess(eb.i.f3, eb.res)

mret_mem == IsMret(eb.i)

privileged == IsZicsr(eb.i) /\ csr.mode = "U"

except ==
  \/ privileged
  \/ eb.i.op = "BAD"
  \/ eb.bad_jump
  \/ IsEcall(eb.i)
  \/ IsBreak(eb.i)
  \/ eb.i.op \in {"LOAD", "STORE"} /\ misaligned

mem_cause ==
  CASE TimerPending(csr, irq)                 -> IrqCause(7)
    [] ~TimerPending(csr, irq) /\ ExternalPending(csr, irq) -> IrqCause(11)
    [] ~TimerPending(csr, irq) /\ ~ExternalPending(csr, irq) ->
         IF IsBreak(eb.i) THEN 3
         ELSE IF privileged \/ eb.i.op = "BAD" THEN 2
         ELSE IF eb.bad_jump THEN 0
         ELSE IF IsEcall(eb.i) THEN IF csr.mode = "U" THEN 8 ELSE 11
         ELSE IF eb.i.op = "LOAD" THEN 4 ELSE 6

take_trap == TimerPending(csr, irq) \/ ExternalPending(csr, irq) \/ except

mem_we_trapped == eb.i.op = "STORE"   \* slip: a trapped store still writes
mem_we == eb.i.op = "STORE" /\ ~take_trap

csr_sw == IsZicsr(eb.i) /\ ~take_trap

\* MPIE is set whatever MIE was.
TrapCsr ==
  [csr EXCEPT !.mode = "M", !.MIE = FALSE, !.MPIE = TRUE, !.MPP = csr.mode,
              !.mepc = eb.pc, !.mcause = mem_cause]

\* slip: MPP takes the mode, as in a trap
MretCsrModeKept ==
  [csr EXCEPT !.mode = csr.MPP, !.MIE = csr.MPIE, !.MPIE = TRUE,
              !.MPP = csr.mode, !.MPRV = csr.MPP = "M" /\ csr.MPRV]
MretCsr ==
  [csr EXCEPT !.mode = csr.MPP, !.MIE = csr.MPIE, !.MPIE = TRUE,
              !.MPP = "U", !.MPRV = csr.MPP = "M" /\ csr.MPRV]

CsrNext ==
  IF take_trap THEN TrapCsr
  ELSE IF mret_mem THEN MretCsr
  ELSE IF csr_sw THEN CsrWrite(csr, eb.i.csr, eb.csr_result)
  ELSE csr

addr_data == eb.res \div 4

MemNext ==
  IF mem_we
  THEN [mem EXCEPT ![addr_data] = StoreLane(eb.i.f3 % 4, eb.res % 4, @, eb.rs2)]
  ELSE mem

\* Between two loads the word on the bus is not selected; the model leaves it 0.
BusNext ==
  IF eb.i.op = "LOAD" THEN LoadLane(eb.i.f3, eb.res % 4, mem[addr_data]) ELSE 0

MemBankNext ==
  [res |-> eb.res, rd |-> eb.i.rd, rd_we |-> WritesRd(eb.i) /\ ~take_trap,
   rd_mux |-> eb.i.op \in {"LOAD", "STORE"}]

(***************************************************************************)
(* Write back.  The register bank is written on the falling edge: decode   *)
(* reads, in the second half of the cycle, the value written in the first. *)
(***************************************************************************)
data_wb == IF mb.rd_mux THEN bus ELSE mb.res

reg_file ==
  [r \in Regs |-> IF r # 0 /\ mb.rd_we /\ mb.rd = r THEN data_wb ELSE regs[r]]

-----------------------------------------------------------------------------
(***************************************************************************)
(* Execution stage.                                                        *)
(***************************************************************************)
Shorted(risk, banked) ==
  CASE risk = "none" -> banked
    [] risk = "mem"  -> eb.res
    [] OTHER         -> data_wb

rs1_exe == Shorted(db.rs1_risk, db.rs1)
rs2_exe == Shorted(db.rs2_risk, db.rs2)

op1_exe ==
  CASE db.i.op \in {"OPIMM", "OP", "LOAD", "STORE", "JALR"} -> rs1_exe
    [] db.i.op \in {"AUIPC", "JAL", "BRANCH"}              -> db.pc
    [] OTHER                                               -> 0

op2_exe == IF db.i.op = "OP" THEN rs2_exe ELSE Imm(db.i)

alu_res == Alu(AluMode(db.i), op1_exe, op2_exe)

branch ==
  \/ IsJump(db.i)
  \/ db.i.op = "BRANCH" /\ Comp(db.i.f3, rs1_exe, rs2_exe)

target == Even(alu_res)

bad_jump_exe == branch /\ Bit(alu_res, 1)

result ==
  CASE IsMulDiv(db.i)              -> MulDiv(db.i.f3, op1_exe, op2_exe)
    [] IsZicsr(db.i)               -> db.csr_val
    [] IsJump(db.i) \/ db.i.op = "BRANCH" -> db.pc4
    [] OTHER                       -> alu_res

ExecBankNext ==
  IF take_trap \/ mret_mem
  THEN ExecBubble(IF mret_mem THEN csr.mepc ELSE db.pc)
  ELSE [valid |-> db.valid, i |-> db.i, pc |-> db.pc, res |-> result,
        rs2 |-> rs2_exe,
        csr_result |-> CsrOp(db.i.f3, rs1_exe, Imm(db.i), db.csr_val),
        bad_jump |-> bad_jump_exe]

-----------------------------------------------------------------------------
(***************************************************************************)
(* Decode stage: what is decoded, and the hazards it sees ahead of it.     *)
(***************************************************************************)
fetched == ~fb.noped /\ ~inReset

instr_dec == IF fetched THEN inst ELSE NopInstr

UsesRs1(i) ==
  \/ i.op \in {"OPIMM", "OP", "LOAD", "STORE", "JALR", "BRANCH"}
  \/ IsZicsr(i) /\ i.f3 < 4

UsesRs2(i) == i.op \in {"OP", "STORE", "BRANCH"}

RiskExe(r, used) == used /\ r # 0 /\ db.i.rd = r /\ WritesRd(db.i)
RiskMem(r, used) == used /\ r # 0 /\ eb.i.rd = r /\ WritesRd(eb.i)

\* slip: the older producer is preferred
RiskSelOlder(r, used) ==
  CASE RiskMem(r, used)                        -> "wb"
    [] RiskExe(r, used) /\ ~RiskMem(r, used)   -> "mem"
    [] OTHER                                   -> "none"
RiskSel(r, used) ==
  CASE RiskExe(r, used)                        -> "mem"
    [] ~RiskExe(r, used) /\ RiskMem(r, used)   -> "wb"
    [] OTHER                                   -> "none"

\* slip: the second operand is forgotten
load_use_rs1 ==
  db.i.op = "LOAD" /\ RiskExe(instr_dec.rs1, UsesRs1(instr_dec))
load_use ==
  /\ db.i.op = "LOAD"
  /\ \/ RiskExe(instr_dec.rs1, UsesRs1(instr_dec))
     \/ RiskExe(instr_dec.rs2, UsesRs2(instr_dec))

csr_stop_exe == IsZicsr(instr_dec) /\ IsZicsr(db.i)   \* slip: memory stage forgotten
csr_stop_self == IsZicsr(instr_dec)   \* slip: waits whatever is ahead
csr_stop == IsZicsr(instr_dec) /\ (IsZicsr(db.i) \/ IsZicsr(eb.i))

stall == load_use \/ csr_stop

\* The pc a deleted instruction is given, here and in the fetch bank below.
pc_dec_bank_no_branch == IF mret_mem THEN csr.mepc ELSE fb.pc   \* slip
pc_dec_bank ==
  IF mret_mem THEN csr.mepc ELSE IF branch THEN target ELSE fb.pc

DecodeBankNext ==
  IF stall \/ branch \/ take_trap \/ mret_mem
  THEN DecodeBubble(pc_dec_bank)
  ELSE [valid |-> fetched, i |-> instr_dec, pc |-> pc_dec_bank, pc4 |-> fb.pc4,
        rs1 |-> reg_file[instr_dec.rs1], rs2 |-> reg_file[instr_dec.rs2],
        rs1_risk |-> RiskSel(instr_dec.rs1, UsesRs1(instr_dec)),
        rs2_risk |-> RiskSel(instr_dec.rs2, UsesRs2(instr_dec)),
        csr_val |-> CsrRead(csr, instr_dec.csr)]

-----------------------------------------------------------------------------
(***************************************************************************)
(* Fetch stage.  The write enable of the pc has take_trap and mret_mem in  *)
(* it and not branch.                                                      *)
(***************************************************************************)
pc_we == ~stall \/ take_trap \/ mret_mem

PcNext ==
  IF ~pc_we THEN pc
  ELSE IF take_trap THEN csr.mtvec
  ELSE IF mret_mem THEN csr.mepc
  ELSE IF branch THEN target
  ELSE Plus4(pc)

bank_pc_in ==
  IF mret_mem THEN csr.mepc
  ELSE IF branch THEN target
  ELSE IF inReset THEN 0
  ELSE pc

\* slip: a trap leaves the fetched instruction
FetchBankKept ==
  IF branch \/ mret_mem
  THEN [noped |-> TRUE, pc |-> bank_pc_in, pc4 |-> 0]
  ELSE IF ~stall THEN [noped |-> FALSE, pc |-> bank_pc_in, pc4 |-> Plus4(pc)]
  ELSE fb
FetchBankNext ==
  IF take_trap \/ branch \/ mret_mem
  THEN [noped |-> TRUE, pc |-> bank_pc_in, pc4 |-> 0]
  ELSE IF ~stall THEN [noped |-> FALSE, pc |-> bank_pc_in, pc4 |-> Plus4(pc)]
  ELSE fb

\* The RAM answers a fetch at the next edge, and holds its answer in a stall.
InstNext == IF ~stall THEN Fetch(prog, pc) ELSE inst

-----------------------------------------------------------------------------
\* The state a reset of two edges or more leaves, after power-up.
Init ==
  /\ prog \in Programs
  /\ irq \in IrqLines
  /\ pc = 0
  /\ inst = Fetch(prog, 0)
  /\ fb = [noped |-> FALSE, pc |-> 0, pc4 |-> 0]
  /\ db = DecodeBubble(0)
  /\ eb = ExecBubble(0)
  /\ mb = MemEmpty
  /\ bus = 0
  /\ regs = [r \in Regs |-> 0]
  /\ csr = CsrReset
  /\ mem = [a \in 0 .. (WordMod \div 4 - 1) |-> 0]
  /\ inReset = TRUE

Clock ==
  /\ pc' = PcNext
  /\ inst' = InstNext
  /\ fb' = FetchBankNext
  /\ db' = DecodeBankNext
  /\ eb' = ExecBankNext
  /\ mb' = MemBankNext
  /\ bus' = BusNext
  /\ regs' = reg_file
  /\ csr' = CsrNext
  /\ mem' = MemNext
  /\ inReset' = FALSE
  /\ irq' \in IrqLines
  /\ UNCHANGED prog

(***************************************************************************)
(* A rising edge with reset high.  The RAM has no reset: it fetches, reads *)
(* and writes as on any other edge.                                        *)
(***************************************************************************)
Reset ==
  /\ pc' = 0
  /\ inst' = InstNext
  /\ fb' = [noped |-> FALSE, pc |-> IF mret_mem \/ branch THEN bank_pc_in ELSE 0,
            pc4 |-> 0]
  /\ db' = DecodeBubble(0)
  /\ eb' = ExecBubble(0)
  /\ mb' = MemEmpty
  /\ bus' = 0
  /\ regs' = [r \in Regs |-> 0]
  /\ csr' = CsrReset
  /\ mem' = MemNext
  /\ inReset' = TRUE
  /\ irq' \in IrqLines
  /\ UNCHANGED prog

Next == Clock \/ Reset

Spec == Init /\ [][Next]_vars

\* The hart after its last reset.
Running == Init /\ [][Clock]_vars

\* The clock does not stop.
LiveSpec == Spec /\ WF_vars(Next)
=============================================================================
