----------------------------- MODULE MCPipeline -----------------------------
(***************************************************************************)
(* The instances of the pipeline TLC checks: 8-bit words made of four      *)
(* 2-bit bytes, four registers, sixteen instructions of memory, and        *)
(* families of programs, each a fixed frame around a window that ranges    *)
(* over every sequence of an alphabet of instructions.                     *)
(***************************************************************************)
EXTENDS PipelineCorrect, Sequences

Units == INSTANCE FuncUnits WITH ByteBits <- 2

MCAlu(m, a, b)    == Units!AluRisc(m, a, b)
MCComp(m, a, b)   == Units!ComparatorRisc(m, a, b)
MCMulDiv(m, a, b) == Units!MulDivRisc(m, a, b)
MCOr(a, b)        == Units!OrBits(a, b)
MCClear(a, b)     == Units!ClearBits(a, b)
MCLoad(m, b, w)   == Units!LoadWord(m, b, w)
MCStore(m, b, w, d) == Units!StoreWord(m, b, w, d)

\* No interrupt, the timer's, the external one and both.
Quiet    == {[tim |-> FALSE, ext |-> FALSE]}
TimOnly  == Quiet \cup {[tim |-> TRUE, ext |-> FALSE]}
AllLines == [tim : BOOLEAN, ext : BOOLEAN]

-----------------------------------------------------------------------------
(***************************************************************************)
(* An assembler.                                                           *)
(***************************************************************************)
Asm(op, rd, rs1, rs2, f3, imm) ==
  [NopInstr EXCEPT !.op = op, !.rd = rd, !.rs1 = rs1, !.rs2 = rs2, !.f3 = f3,
                   !.imm = imm]

Neg(k) == WordMod - k

ADDI(rd, rs1, imm)    == Asm("OPIMM", rd, rs1, 0, 0, imm)
ADD(rd, rs1, rs2)     == Asm("OP", rd, rs1, rs2, 0, 0)
MULHSU(rd, rs1, rs2)  == [Asm("OP", rd, rs1, rs2, 2, 0) EXCEPT !.f7 = "mul"]
SUB(rd, rs1, rs2)     == [Asm("OP", rd, rs1, rs2, 0, 0) EXCEPT !.f7 = "alt"]
LUI(rd, imm)          == Asm("LUI", rd, 0, 0, 0, imm)
AUIPC(rd, imm)        == Asm("AUIPC", rd, 0, 0, 0, imm)
LW(rd, rs1, imm)      == Asm("LOAD", rd, rs1, 0, 2, imm)
LB(rd, rs1, imm)      == Asm("LOAD", rd, rs1, 0, 0, imm)
SW(rs2, rs1, imm)     == Asm("STORE", 0, rs1, rs2, 2, imm)
SB(rs2, rs1, imm)     == Asm("STORE", 0, rs1, rs2, 0, imm)
BEQ(rs1, rs2, imm)    == Asm("BRANCH", 0, rs1, rs2, 0, imm)
BLT(rs1, rs2, imm)    == Asm("BRANCH", 0, rs1, rs2, 4, imm)
XORI(rd, rs1, imm)    == Asm("OPIMM", rd, rs1, 0, 4, imm)
JAL(rd, imm)          == Asm("JAL", rd, 0, 0, 0, imm)
JALR(rd, rs1, imm)    == Asm("JALR", rd, rs1, 0, 0, imm)
FENCE                 == Asm("FENCE", 0, 0, 0, 0, 0)
ILLEGAL               == Asm("BAD", 0, 0, 0, 0, 0)
CSRRW(rd, n, rs1)     == [Asm("SYSTEM", rd, rs1, 0, 1, 0) EXCEPT !.csr = n]
CSRRS(rd, n, rs1)     == [Asm("SYSTEM", rd, rs1, 0, 2, 0) EXCEPT !.csr = n]
CSRRWI(rd, n, imm)    == [Asm("SYSTEM", rd, imm, 0, 5, 0) EXCEPT !.csr = n]
CSRRSI(rd, n, imm)    == [Asm("SYSTEM", rd, imm, 0, 6, 0) EXCEPT !.csr = n]
CSRRCI(rd, n, imm)    == [Asm("SYSTEM", rd, imm, 0, 7, 0) EXCEPT !.csr = n]
MRET                  == [Asm("SYSTEM", 0, 0, 0, 0, 0) EXCEPT !.csr = "mret"]
ECALL                 == [Asm("SYSTEM", 0, 0, 0, 0, 0) EXCEPT !.csr = "ecall"]
EBREAK                == [Asm("SYSTEM", 0, 0, 0, 0, 0) EXCEPT !.csr = "ebreak"]
SPIN                  == JAL(0, 0)

\* The sequence s in memory from slot 0, and nothing (spins) after it.
Image(s) == [k \in Slots |-> IF k < Len(s) THEN s[k + 1] ELSE SPIN]

\* The programs on which no jump is lost.
Sound(ps) == {p \in ps : ~JumpBetweenCsr(p)}

-----------------------------------------------------------------------------
(***************************************************************************)
(* Traps: interrupts on, a window of instructions that trap, jump and      *)
(* touch the machine registers, and a handler at slot 8.                   *)
(***************************************************************************)
TrapAlphabet ==
  {XORI(1, 1, 1), LW(1, 1, 0), SW(1, 2, 0), BEQ(1, 2, 8), JAL(2, Neg(4)),
   JALR(1, 1, 2), ECALL, EBREAK, ILLEGAL, MRET,
   CSRRCI(1, "mstatus", 1), CSRRSI(2, "mstatus", 1), CSRRW(1, "mepc", 1)}

\* Interrupts return to the instruction, exceptions step over it.
SkipHandler ==
  <<CSRRS(2, "mcause", 0), CSRRS(3, "mepc", 0), BLT(2, 0, 12), ADDI(3, 3, 4),
    CSRRW(0, "mepc", 3), MRET>>

BackHandler == <<CSRRW(2, "mcause", 2), FENCE, MRET>>

TrapProgram(w, handler) ==
  Image(<<ADDI(1, 0, 32), CSRRW(0, "mtvec", 1), CSRRWI(0, "mie", 3),
          CSRRSI(0, "mstatus", 1)>> \o w \o <<SPIN, SPIN>> \o handler)

TrapPrograms ==
  Sound({TrapProgram(<<a, b>>, h) :
          a \in TrapAlphabet, b \in TrapAlphabet,
          h \in {SkipHandler, BackHandler}})

\* A few of them, for resets at any time and for liveness.
FewPrograms ==
  Sound({TrapProgram(<<a, b>>, BackHandler) :
          a \in {SW(1, 1, 4), CSRRSI(2, "mstatus", 1), MRET},
          b \in {BEQ(1, 2, 8), ECALL, LW(1, 1, 4)}})

(***************************************************************************)
(* User mode: machine code that enters slot 7 in user mode, a window of    *)
(* two user instructions, and the handler at slot 10.                      *)
(***************************************************************************)
UserAlphabet ==
  {XORI(1, 1, 2), LW(2, 1, 0), ECALL, MRET, ILLEGAL, BEQ(1, 2, 8), AUIPC(1, 4),
   CSRRW(1, "mstatus", 1), CSRRS(2, "mepc", 0), CSRRWI(1, "mtvec", 3),
   JAL(1, Neg(8)), LUI(1, 64)}

UserProgram(w) ==
  Image(<<ADDI(1, 0, 40), CSRRW(0, "mtvec", 1), CSRRWI(0, "mie", 3),
          ADDI(1, 0, 28), CSRRW(0, "mepc", 1), CSRRWI(0, "mstatus", 2), MRET>>
        \o w \o <<SPIN>> \o SkipHandler)

UserPrograms ==
  Sound({UserProgram(<<a, b>>) : a \in UserAlphabet, b \in UserAlphabet})

\* Both, under every interrupt.
CorePrograms == TrapPrograms \cup UserPrograms

(***************************************************************************)
(* One program for each disagreement.                                      *)
(***************************************************************************)
\* The order of portASM.S:243-247.
JumpPrograms ==
  {Image(<<CSRRS(1, "mstatus", 0), JAL(0, 12), CSRRS(2, "mcause", 0), SPIN>>)}

\* A system call with interrupts off, as portYIELD in a critical section.
SyscallPrograms ==
  {Image(<<ADDI(1, 0, 36), CSRRW(0, "mtvec", 1), CSRRWI(0, "mie", 3), ECALL>>)}
=============================================================================
