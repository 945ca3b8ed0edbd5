-------------------------------- MODULE Hart --------------------------------
(***************************************************************************)
(* The vocabulary shared by the two descriptions of the RISC-V hart of     *)
(* vhdl_src: what an instruction is, what the machine-mode registers are,  *)
(* and the combinational blocks both descriptions call.                    *)
(*                                                                         *)
(* Data is abstract.  A word is a number below WordMod; an instruction is  *)
(* a record of the fields the decoder extracts from the 32 bits; the       *)
(* arithmetic units and the byte lanes of the bus are constant operators,  *)
(* so that what is proved of the pipeline holds whatever they compute      *)
(* (module FuncUnits gives the operators of ALU.vhd, COMPARATOR.vhd,       *)
(* MULDIV.vhd and RAM.vhd, with which TLC runs the models).                *)
(***************************************************************************)
EXTENDS Integers

CONSTANTS
  Regs,             \* register numbers; 0 is x0
  WordMod,          \* 2^width of a register
  RamWords,         \* instruction words in the RAM (8192 in B_RAM_*.vhd)
  Programs,         \* the memory images the hart may be started with
  IrqLines,         \* the levels of the two interrupt inputs
  Misa,             \* the constant read from csr 0x301
  Alu(_, _, _),     \* ALU_RISC:        mode, op1, op2
  Comp(_, _, _),    \* COMPARATOR_RISC: mode, op1, op2
  MulDiv(_, _, _),  \* MULDIV_RISC:     mode, op1, op2
  BitOr(_, _),      \* a or b
  BitClear(_, _),   \* (not a) and b
  LoadLane(_, _, _),     \* bus read:  mode, byte offset, stored word
  StoreLane(_, _, _, _)  \* bus write: size, byte offset, stored word, data

Word == 0 .. (WordMod - 1)

Slots == 0 .. (RamWords - 1)

Opcodes == {"LUI", "AUIPC", "JAL", "JALR", "BRANCH", "LOAD", "STORE",
            "OPIMM", "OP", "FENCE", "SYSTEM", "BAD"}

\* Bits 31..20 of a SYSTEM instruction, by the name of what they select.
CsrNames == {"mstatus", "misa", "mie", "mtvec", "mscratch", "mepc", "mcause",
             "mret", "ecall", "ebreak", "other"}

Instr == [op  : Opcodes, rd : Regs, rs1 : Regs, rs2 : Regs, f3 : 0 .. 7,
          f7  : {"base", "alt", "mul"}, imm : Word, csr : CsrNames]

\* x"00000013", the instruction the decoder sees in place of a deleted one.
NopInstr == [op |-> "OPIMM", rd |-> 0, rs1 |-> 0, rs2 |-> 0, f3 |-> 0,
             f7 |-> "base", imm |-> 0, csr |-> "other"]

Modes == {"M", "U"}

CsrState == [mode : Modes, MIE : BOOLEAN, MPIE : BOOLEAN, MPP : Modes,
             MPRV : BOOLEAN, MTIE : BOOLEAN, MEIE : BOOLEAN,
             mtvec : Word, mscratch : Word, mepc : Word, mcause : Word]

CsrReset == [mode |-> "M", MIE |-> FALSE, MPIE |-> FALSE, MPP |-> "M",
             MPRV |-> FALSE, MTIE |-> FALSE, MEIE |-> FALSE,
             mtvec |-> 0, mscratch |-> 0, mepc |-> 0, mcause |-> 0]

Irq == [tim : BOOLEAN, ext : BOOLEAN]

\* mcause of an interrupt has its top bit set.
IrqCauseOneBitUp(code) == WordMod + code   \* slip: one bit too high
IrqCause(code) == (WordMod \div 2) + code

ASSUME WordAssumption ==
  /\ WordMod \in Nat
  /\ WordMod >= 32
  /\ WordMod % 4 = 0
  /\ RamWords \in Nat \ {0}
  /\ (WordMod \div 4) % RamWords = 0   \* the RAM repeats through the addresses

ASSUME HartAssumption ==
  /\ Regs \subseteq Word
  /\ 0 \in Regs
  /\ Misa \in Word
  /\ IrqLines \subseteq Irq
  /\ \A p \in Programs : p \in [Slots -> Instr]

\* Every combinational block returns a word (a bit, for the comparator).
ASSUME UnitsAssumption ==
  \A a, b \in Word :
    /\ \A m \in 0 .. 9 : Alu(m, a, b) \in Word
    /\ \A m \in 0 .. 7 : MulDiv(m, a, b) \in Word
    /\ \A m \in 0 .. 7 : Comp(m, a, b) \in BOOLEAN
    /\ BitOr(a, b) \in Word
    /\ BitClear(a, b) \in Word

ASSUME LanesAssumption ==
  \A b \in 0 .. 3, w \in Word :
    /\ \A m \in 0 .. 7 : LoadLane(m, b, w) \in Word
    /\ \A m \in 0 .. 3, d \in Word : StoreLane(m, b, w, d) \in Word

-----------------------------------------------------------------------------

Bit(w, k) == (w \div 2^k) % 2 = 1

\* A jump target has bit 0 cleared, mtvec its two low bits.
Even(w)    == w - (w % 2)
Aligned(w) == w - (w % 4)

\* The next sequential address, on the width of a word.
Plus4(a) == (a + 4) % WordMod

\* The instruction memory decodes the low bits of the word address only.
Fetch(prog, a) == prog[(a \div 4) % RamWords]

Weight(b, w) == IF b THEN w ELSE 0

\* mstatus as software reads it: bits 3, 7, 11 and 17, here bits 0 to 3.
MstatusWord(c) ==
  Weight(c.MIE, 1) + Weight(c.MPIE, 2) + Weight(c.MPP = "M", 4) + Weight(c.MPRV, 8)

(***************************************************************************)
(* The value a CSR instruction reads.  mie (0x304) is not in the read      *)
(* multiplexer and reads as zero.                                          *)
(***************************************************************************)
CsrRead(c, n) ==
  CASE n = "mstatus"  -> MstatusWord(c)
    [] n = "misa"     -> Misa
    [] n = "mtvec"    -> c.mtvec
    [] n = "mscratch" -> c.mscratch
    [] n = "mepc"     -> c.mepc
    [] n = "mcause"   -> c.mcause
    [] OTHER          -> 0

(***************************************************************************)
(* The value a CSR instruction writes, from the operand and the value      *)
(* read: rw, rs, rc and their immediate forms.                             *)
(***************************************************************************)
CsrOp(f3, reg, imm, val) ==
  CASE f3 = 1 -> reg
    [] f3 = 2 -> BitOr(reg, val)
    [] f3 = 3 -> BitClear(reg, val)
    [] f3 = 5 -> imm
    [] f3 = 6 -> BitOr(imm, val)
    [] f3 = 7 -> BitClear(imm, val)
    [] OTHER  -> 0

(***************************************************************************)
(* The register a CSR instruction writes.  misa and the names the demul-   *)
(* tiplexer does not know are not written.                                 *)
(***************************************************************************)
CsrWrite(c, n, v) ==
  CASE n = "mstatus"  -> [c EXCEPT !.MIE = Bit(v, 0), !.MPIE = Bit(v, 1),
                           !.MPP = IF Bit(v, 2) THEN "M" ELSE "U",
                           !.MPRV = Bit(v, 3)]
    [] n = "mie"      -> [c EXCEPT !.MTIE = Bit(v, 0), !.MEIE = Bit(v, 1)]
    [] n = "mtvec"    -> [c EXCEPT !.mtvec = Aligned(v)]
    [] n = "mscratch" -> [c EXCEPT !.mscratch = v]
    [] n = "mepc"     -> [c EXCEPT !.mepc = v]
    [] n = "mcause"   -> [c EXCEPT !.mcause = v]
    [] OTHER          -> c

-----------------------------------------------------------------------------
(***************************************************************************)
(* Decoding.  The four SYSTEM instructions that are no csr access are      *)
(* recognised by all their bits; everything else in SYSTEM is Zicsr.       *)
(***************************************************************************)
IsSystem(i, n) == i.op = "SYSTEM" /\ i.f3 = 0 /\ i.csr = n /\ i.rd = 0 /\ i.rs1 = 0

IsMret(i)  == IsSystem(i, "mret")
IsEcall(i) == IsSystem(i, "ecall")
IsBreak(i) == IsSystem(i, "ebreak")
IsZicsr(i) == i.op = "SYSTEM" /\ ~IsMret(i) /\ ~IsEcall(i) /\ ~IsBreak(i)
IsJump(i)  == i.op \in {"JAL", "JALR"}
IsMulDiv(i) == i.op = "OP" /\ i.f7 = "mul"

\* rd_we_dec
WritesRd(i) == i.rd # 0 /\ i.op \notin {"BRANCH", "STORE"}

\* The immediate; for the immediate csr forms it is the rs1 field itself.
Imm(i) ==
  CASE i.op = "SYSTEM"                 -> IF i.f3 >= 4 THEN i.rs1 ELSE 0
    [] i.op \in {"OP", "FENCE", "BAD"} -> 0
    [] OTHER                           -> i.imm

AluMode(i) ==
  IF i.f3 = 5 /\ i.f7 = "alt" /\ i.op \in {"OP", "OPIMM"} THEN 8
  ELSE IF i.f3 = 0 /\ i.f7 = "alt" /\ i.op = "OP" THEN 9
  ELSE IF i.op \in {"OP", "OPIMM", "FENCE", "SYSTEM", "BAD"} THEN i.f3
  ELSE 0

\* A half access to an odd address, a word access to one that is no multiple of 4.
MisalignedAccess(f3, a) ==
  \/ f3 % 4 = 1 /\ a % 2 # 0
  \/ f3 % 4 = 2 /\ a % 4 # 0

\* The interrupts that are raised and enabled.
TimerPending(c, i)    == i.tim /\ c.MTIE /\ c.MIE
ExternalPending(c, i) == i.ext /\ c.MEIE /\ c.MIE
=============================================================================
