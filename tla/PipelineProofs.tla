--------------------------- MODULE PipelineProofs ---------------------------
(***************************************************************************)
(* Theorems about the pipeline, for every word width, memory, program and  *)
(* arithmetic unit that satisfies the assumptions of Hart.tla.             *)
(***************************************************************************)
EXTENDS PipelineCorrect, TLAPS

\* Words are integers between bounds that hold the constants of the circuit.
LEMMA WordFacts ==
  /\ WordMod \in Nat
  /\ WordMod >= 32
  /\ \A k \in 0 .. 31 : k \in Word
  /\ IrqCause(7) \in Word
  /\ IrqCause(11) \in Word
  BY WordAssumption DEF Word, IrqCause

\* Clearing low bits and decoding an address stay in range.
LEMMA RoundingFacts ==
  ASSUME NEW m \in Nat, m >= 4, m % 4 = 0, NEW w \in 0 .. (m - 1)
  PROVE  /\ w - (w % 2) \in 0 .. (m - 1)
         /\ w - (w % 4) \in 0 .. (m - 1)
         /\ w \div 4 \in 0 .. (m \div 4 - 1)
         /\ w % 4 \in 0 .. 3
<1>1. w - (w % 2) \in 0 .. (m - 1)
  OBVIOUS
<1>2. w - (w % 4) \in 0 .. (m - 1)
  OBVIOUS
<1>3. w \div 4 \in 0 .. (m \div 4 - 1)
  OBVIOUS
<1>4. w % 4 \in 0 .. 3
  OBVIOUS
<1> QED
  BY <1>1, <1>2, <1>3, <1>4

\* The adders and the address decoders of Hart.tla stay in range.
LEMMA AddressFacts ==
  ASSUME NEW w \in Word
  PROVE  /\ Even(w) \in Word
         /\ Aligned(w) \in Word
         /\ Plus4(w) \in Word
         /\ (w \div 4) % RamWords \in Slots
<1>1. WordMod \in Nat /\ WordMod >= 4 /\ WordMod % 4 = 0
  BY WordAssumption
<1>2. Even(w) \in Word /\ Aligned(w) \in Word
  BY <1>1, RoundingFacts DEF Word, Even, Aligned
<1>3. Plus4(w) \in Word
  BY <1>1 DEF Word, Plus4
<1>4. w \div 4 \in Nat
  BY <1>1 DEF Word
<1>5. (w \div 4) % RamWords \in Slots
  BY <1>4, WordAssumption DEF Slots
<1> QED
  BY <1>2, <1>3, <1>5

\* Counting up from n, on the remainders of n.
LEMMA RemainderStep ==
  ASSUME NEW m \in Nat \ {0}, NEW n \in Nat
  PROVE  (n + 1) % m = ((n % m) + 1) % m
<1> DEFINE q == n \div m
           r == n % m
<1>1. q \in Nat /\ r \in 0 .. (m - 1) /\ n = m * q + r
  OBVIOUS
<1> HIDE DEF q, r
<1>2. CASE r + 1 < m
  <2>1. n + 1 = m * q + (r + 1)
    BY <1>1
  <2>2. (m * q + (r + 1)) % m = r + 1
    BY <1>1, <1>2, Z3
  <2>3. (r + 1) % m = r + 1
    BY <1>1, <1>2
  <2> QED
    BY <2>1, <2>2, <2>3 DEF r
<1>3. CASE r + 1 = m
  <2>1. n + 1 = m * (q + 1)
    BY <1>1, <1>3
  <2>2. (m * (q + 1)) % m = 0
    BY <1>1
  <2>3. (r + 1) % m = 0
    BY <1>1, <1>3
  <2> QED
    BY <2>1, <2>2, <2>3 DEF r
<1> QED
  BY <1>1, <1>2, <1>3

\* The next word of an address space of w bytes.
LEMMA WordStep ==
  ASSUME NEW w \in Nat, w % 4 = 0, w >= 4, NEW a \in 0 .. (w - 1)
  PROVE  /\ a \div 4 \in Nat
         /\ \/ ((a + 4) % w) \div 4 = a \div 4 + 1
            \/ ((a + 4) % w) \div 4 = 0 /\ a \div 4 + 1 = w \div 4
<1>1. CASE a + 4 < w
  <2>1. (a + 4) % w = a + 4
    BY <1>1
  <2> QED
    BY <2>1
<1>2. CASE a + 4 >= w
  <2>1. (a + 4) % w = a + 4 - w
    BY <1>2
  <2> QED
    BY <1>2, <2>1
<1> QED
  BY <1>1, <1>2

(***************************************************************************)
(* Addresses four bytes apart decode to slots that follow each other, also *)
(* where the address or the memory wraps.                                  *)
(***************************************************************************)
LEMMA NextSlot ==
  ASSUME NEW a \in Word
  PROVE  (Plus4(a) \div 4) % RamWords = (((a \div 4) % RamWords) + 1) % RamWords
<1>1. /\ WordMod \in Nat /\ WordMod % 4 = 0 /\ WordMod >= 4
      /\ RamWords \in Nat \ {0}
      /\ (WordMod \div 4) % RamWords = 0
      /\ a \in 0 .. (WordMod - 1)
  BY WordAssumption DEF Word
<1>2. /\ a \div 4 \in Nat
      /\ \/ Plus4(a) \div 4 = a \div 4 + 1
         \/ Plus4(a) \div 4 = 0 /\ a \div 4 + 1 = WordMod \div 4
  BY <1>1, WordStep DEF Plus4
<1>3. (a \div 4 + 1) % RamWords = (((a \div 4) % RamWords) + 1) % RamWords
  BY <1>1, <1>2, RemainderStep
<1>4. 0 % RamWords = 0
  BY <1>1
<1> QED
  BY <1>1, <1>2, <1>3, <1>4

\* A program without a jump between two csr instructions, seen by addresses.
LEMMA NoJumpBetween ==
  ASSUME NEW p, ~JumpBetweenCsr(p), NEW a \in Word,
         IsZicsr(Fetch(p, a)),
         IsZicsr(Fetch(p, Plus4(Plus4(a))))
  PROVE  LET jump == Fetch(p, Plus4(a))
         IN ~IsJump(jump) /\ jump.op # "BRANCH"
<1> DEFINE k == (a \div 4) % RamWords
<1>1. k \in Slots /\ k \in Nat /\ k + 1 \in Nat /\ RamWords \in Nat \ {0}
  BY AddressFacts, WordAssumption DEF Slots
<1>2. Fetch(p, Plus4(a)) = p[(k + 1) % RamWords]
  BY NextSlot DEF Fetch
<1>3. Fetch(p, Plus4(Plus4(a))) = p[(k + 2) % RamWords]
  <2>1. Plus4(a) \in Word
    BY AddressFacts
  <2>2. (Plus4(Plus4(a)) \div 4) % RamWords = (((k + 1) % RamWords) + 1) % RamWords
    BY <2>1, NextSlot
  <2>3. (((k + 1) % RamWords) + 1) % RamWords = (k + 1 + 1) % RamWords
    BY <1>1, RemainderStep
  <2>4. k + 1 + 1 = k + 2
    BY <1>1
  <2> QED
    BY <2>2, <2>3, <2>4 DEF Fetch
<1>4. Fetch(p, a) = p[k]
  BY DEF Fetch
<1> HIDE DEF k
<1> QED
  BY <1>1, <1>2, <1>3, <1>4 DEF JumpBetweenCsr

LEMMA FetchType ==
  ASSUME NEW p \in [Slots -> Instr], NEW w \in Word
  PROVE  Fetch(p, w) \in Instr
  BY AddressFacts DEF Fetch

LEMMA NopType == NopInstr \in Instr
  BY HartAssumption, WordFacts DEF NopInstr, Instr, Opcodes, CsrNames

LEMMA ImmType ==
  ASSUME NEW i \in Instr
  PROVE  /\ Imm(i) \in Word
         /\ AluMode(i) \in 0 .. 9
         /\ i.f3 \in 0 .. 7
         /\ i.f3 % 4 \in 0 .. 3
  BY HartAssumption, WordFacts DEF Imm, AluMode, Instr

\* The two multiplexers of the csr registers.
LEMMA CsrReadType ==
  ASSUME NEW c \in CsrState, NEW n \in CsrNames
  PROVE  CsrRead(c, n) \in Word
<1>1. MstatusWord(c) \in 0 .. 15
  BY DEF MstatusWord, Weight
<1>2. MstatusWord(c) \in Word
  BY <1>1, WordFacts
<1> QED
  BY <1>2, WordFacts, HartAssumption DEF CsrRead, CsrState

LEMMA CsrWriteType ==
  ASSUME NEW c \in CsrState, NEW n \in CsrNames, NEW v \in Word
  PROVE  CsrWrite(c, n, v) \in CsrState
  BY AddressFacts DEF CsrWrite, CsrState, Modes, Bit

LEMMA CsrOpType ==
  ASSUME NEW f3 \in 0 .. 7, NEW a \in Word, NEW b \in Word, NEW v \in Word
  PROVE  CsrOp(f3, a, b, v) \in Word
  BY UnitsAssumption, WordFacts DEF CsrOp

-----------------------------------------------------------------------------
(***************************************************************************)
(* The signals of each stage carry words.                                  *)
(***************************************************************************)
LEMMA WriteBackType ==
  ASSUME TypeOK
  PROVE  data_wb \in Word /\ reg_file \in [Regs -> Word]
<1>1. data_wb \in Word
  BY DEF TypeOK, MemBank, data_wb
<1> QED
  BY <1>1 DEF TypeOK, reg_file

LEMMA OperandType ==
  ASSUME TypeOK
  PROVE  /\ rs1_exe \in Word /\ rs2_exe \in Word
         /\ op1_exe \in Word /\ op2_exe \in Word
         /\ alu_res \in Word /\ target \in Word
         /\ result \in Word
<1>1. db \in DecodeBank /\ eb \in ExecBank
  BY DEF TypeOK
<1>2. rs1_exe \in Word /\ rs2_exe \in Word
  BY <1>1, WriteBackType DEF rs1_exe, rs2_exe, Shorted, DecodeBank, ExecBank
<1>3. db.i \in Instr /\ db.pc \in Word /\ db.pc4 \in Word /\ db.csr_val \in Word
  BY <1>1 DEF DecodeBank
<1>4. op1_exe \in Word
  BY <1>2, <1>3, WordFacts DEF op1_exe
<1>5. op2_exe \in Word
  BY <1>2, <1>3, ImmType DEF op2_exe
<1>6. alu_res \in Word
  BY <1>3, <1>4, <1>5, ImmType, UnitsAssumption DEF alu_res
<1>7. target \in Word
  BY <1>6, AddressFacts DEF target
<1>8. MulDiv(db.i.f3, op1_exe, op2_exe) \in Word
  BY <1>3, <1>4, <1>5, ImmType, UnitsAssumption
<1>9. result \in Word
  BY <1>3, <1>6, <1>8 DEF result
<1> QED
  BY <1>2, <1>4, <1>5, <1>6, <1>7, <1>9

LEMMA BubbleType ==
  ASSUME NEW p \in Word
  PROVE  DecodeBubble(p) \in DecodeBank /\ ExecBubble(p) \in ExecBank
  BY NopType, WordFacts
  DEF DecodeBubble, ExecBubble, DecodeBank, ExecBank, Short

LEMMA CsrNextType ==
  ASSUME TypeOK
  PROVE  CsrNext \in CsrState
<1> USE DEF CsrState, Modes
<1>1. csr \in CsrState /\ eb \in ExecBank
  BY DEF TypeOK
<1>2. mem_cause \in Word
  BY WordFacts DEF mem_cause
<1>3. TrapCsr \in CsrState
  BY <1>1, <1>2 DEF TrapCsr, ExecBank
<1>4. MretCsr \in CsrState
  BY <1>1 DEF MretCsr
<1>5. CsrWrite(csr, eb.i.csr, eb.csr_result) \in CsrState
  BY <1>1, CsrWriteType DEF ExecBank, Instr
<1> QED
  BY <1>1, <1>3, <1>4, <1>5 DEF CsrNext

LEMMA ExecBankType ==
  ASSUME TypeOK
  PROVE  ExecBankNext \in ExecBank
<1>1. db \in DecodeBank /\ csr \in CsrState
  BY DEF TypeOK
<1>2. CASE take_trap \/ mret_mem
  BY <1>1, <1>2, BubbleType DEF ExecBankNext, DecodeBank, CsrState
<1>3. CASE ~(take_trap \/ mret_mem)
  <2>1. db.i \in Instr /\ db.csr_val \in Word /\ db.pc \in Word /\ db.valid \in BOOLEAN
    BY <1>1 DEF DecodeBank
  <2>2. CsrOp(db.i.f3, rs1_exe, Imm(db.i), db.csr_val) \in Word
    BY <2>1, OperandType, ImmType, CsrOpType
  <2>3. bad_jump_exe \in BOOLEAN
    BY DEF bad_jump_exe, Bit
  <2> QED
    BY <1>3, <2>1, <2>2, <2>3, OperandType DEF ExecBankNext, ExecBank
<1> QED
  BY <1>2, <1>3

LEMMA DecodedType ==
  ASSUME TypeOK
  PROVE  instr_dec \in Instr
  BY NopType DEF TypeOK, instr_dec

LEMMA DecodeBankType ==
  ASSUME TypeOK
  PROVE  DecodeBankNext \in DecodeBank
<1>1. pc_dec_bank \in Word
  BY OperandType DEF TypeOK, pc_dec_bank, CsrState, FetchBank
<1>2. CASE stall \/ branch \/ take_trap \/ mret_mem
  BY <1>1, <1>2, BubbleType DEF DecodeBankNext
<1>3. CASE ~(stall \/ branch \/ take_trap \/ mret_mem)
  <2>1. fb.pc4 \in Word
    BY DEF TypeOK, FetchBank
  <2>2. reg_file[instr_dec.rs1] \in Word /\ reg_file[instr_dec.rs2] \in Word
    BY DecodedType, WriteBackType DEF Instr
  <2>3. CsrRead(csr, instr_dec.csr) \in Word
    BY DecodedType, CsrReadType DEF TypeOK, Instr
  <2>4. \A r, used : RiskSel(r, used) \in Short
    BY DEF RiskSel, Short
  <2>5. fetched \in BOOLEAN
    BY DEF fetched
  <2> QED
    BY <1>1, <1>3, <2>1, <2>2, <2>3, <2>4, <2>5, DecodedType
    DEF DecodeBankNext, DecodeBank
<1> QED
  BY <1>2, <1>3

LEMMA FetchBankType ==
  ASSUME TypeOK
  PROVE  FetchBankNext \in FetchBank /\ bank_pc_in \in Word
<1>0. csr.mepc \in Word /\ pc \in Word /\ 0 \in Word
  BY WordFacts DEF TypeOK, CsrState
<1>1. bank_pc_in \in Word
  BY <1>0, OperandType DEF bank_pc_in
<1>2. Plus4(pc) \in Word
  BY AddressFacts DEF TypeOK
<1> QED
  BY <1>1, <1>2, WordFacts DEF TypeOK, FetchBankNext, FetchBank

LEMMA PcType ==
  ASSUME TypeOK
  PROVE  PcNext \in Word
  BY OperandType, AddressFacts DEF TypeOK, PcNext, CsrState

LEMMA InstType ==
  ASSUME TypeOK
  PROVE  InstNext \in Instr
  BY FetchType DEF TypeOK, InstNext

LEMMA MemType ==
  ASSUME TypeOK
  PROVE  /\ MemNext \in [0 .. (WordMod \div 4 - 1) -> Word]
         /\ BusNext \in Word
         /\ MemBankNext \in MemBank
<1> USE DEF TypeOK
<1>1. eb.res \in Word /\ eb.rs2 \in Word /\ eb.i \in Instr
  BY DEF ExecBank
<1>2. addr_data \in 0 .. (WordMod \div 4 - 1) /\ eb.res % 4 \in 0 .. 3
  <2>1. WordMod \in Nat /\ WordMod >= 4 /\ WordMod % 4 = 0
    BY WordAssumption
  <2>2. eb.res \in 0 .. (WordMod - 1)
    BY <1>1 DEF Word
  <2> HIDE DEF TypeOK
  <2> QED
    BY <2>1, <2>2, RoundingFacts DEF addr_data
<1>3. mem[addr_data] \in Word
  BY <1>2
<1>4. /\ StoreLane(eb.i.f3 % 4, eb.res % 4, mem[addr_data], eb.rs2) \in Word
      /\ LoadLane(eb.i.f3, eb.res % 4, mem[addr_data]) \in Word
  BY <1>1, <1>2, <1>3, ImmType, LanesAssumption
<1>5. MemNext \in [0 .. (WordMod \div 4 - 1) -> Word]
  BY <1>4 DEF MemNext
<1>6. BusNext \in Word
  BY <1>4, WordFacts DEF BusNext
<1>7. MemBankNext \in MemBank
  BY <1>1 DEF MemBankNext, MemBank, WritesRd, Instr
<1> QED
  BY <1>5, <1>6, <1>7

-----------------------------------------------------------------------------
LEMMA InitTypeOK == Init => TypeOK
<1> SUFFICES ASSUME Init PROVE TypeOK
  OBVIOUS
<1>1. prog \in [Slots -> Instr] /\ 0 \in Word
  BY HartAssumption, WordFacts DEF Init
<1>2. inst \in Instr
  BY <1>1, FetchType DEF Init
<1>3. db \in DecodeBank /\ eb \in ExecBank
  BY <1>1, BubbleType DEF Init
<1>4. fb \in FetchBank /\ mb \in MemBank /\ csr \in CsrState
  BY <1>1, HartAssumption
  DEF Init, FetchBank, MemBank, MemEmpty, CsrState, CsrReset, Modes
<1> QED
  BY <1>1, <1>2, <1>3, <1>4 DEF Init, TypeOK

LEMMA NextTypeOK == TypeOK /\ [Next]_vars => TypeOK'
<1> SUFFICES ASSUME TypeOK, [Next]_vars PROVE TypeOK'
  OBVIOUS
<1>1. CASE Clock
  BY <1>1, PcType, InstType, FetchBankType, DecodeBankType, ExecBankType,
     MemType, WriteBackType, CsrNextType
  DEF Clock, TypeOK
<1>2. CASE Reset
  <2>1. 0 \in Word
    BY WordFacts
  <2>2. db' \in DecodeBank /\ eb' \in ExecBank
    BY <1>2, <2>1, BubbleType DEF Reset
  <2>3. fb' \in FetchBank
    BY <1>2, <2>1, FetchBankType DEF Reset, FetchBank
  <2>4. mb' \in MemBank /\ csr' \in CsrState
    BY <1>2, <2>1, HartAssumption
    DEF Reset, MemBank, MemEmpty, CsrState, CsrReset, Modes
  <2> QED
    BY <1>2, <2>1, <2>2, <2>3, <2>4, InstType, MemType DEF Reset, TypeOK
<1>3. CASE UNCHANGED vars
  BY <1>3 DEF vars, TypeOK
<1> QED
  BY <1>1, <1>2, <1>3 DEF Next

(***************************************************************************)
(* Every register of the circuit keeps its type, whatever the program does *)
(* and whatever the interrupt lines do.                                    *)
(***************************************************************************)
THEOREM TypeCorrect == Spec => []TypeOK
  BY InitTypeOK, NextTypeOK, PTL DEF Spec

-----------------------------------------------------------------------------
(***************************************************************************)
(* Privilege.  A csr instruction in user mode traps, so mstatus is written *)
(* in machine mode only, and mret leaves MPP at user.                      *)
(***************************************************************************)
LEMMA CsrWriteMode ==
  ASSUME NEW c \in CsrState, NEW n, NEW v
  PROVE  CsrWrite(c, n, v).mode = c.mode
  BY DEF CsrWrite, CsrState

LEMMA ClockPrivilege ==
  ASSUME TypeOK, NoUserMpp, Clock
  PROVE  /\ NoUserMpp'
         /\ csr.mode = "U" /\ csr'.mode = "M" => take_trap
<1>1. csr \in CsrState /\ csr' = CsrNext
  BY DEF TypeOK, Clock
<1>2. CASE take_trap
  BY <1>1, <1>2 DEF CsrNext, TrapCsr, NoUserMpp, CsrState
<1>3. CASE ~take_trap /\ mret_mem
  BY <1>1, <1>3 DEF CsrNext, MretCsr, NoUserMpp, CsrState
<1>4. CASE ~take_trap /\ ~mret_mem /\ csr_sw
  <2>1. csr.mode # "U"
    BY <1>4 DEF csr_sw, take_trap, except, privileged
  <2>2. csr'.mode = csr.mode
    BY <1>1, <1>4, CsrWriteMode DEF CsrNext
  <2> QED
    BY <2>1, <2>2 DEF NoUserMpp
<1>5. CASE ~take_trap /\ ~mret_mem /\ ~csr_sw
  BY <1>1, <1>5 DEF CsrNext, NoUserMpp
<1> QED
  BY <1>2, <1>3, <1>4, <1>5

LEMMA NextNoUserMpp == TypeOK /\ NoUserMpp /\ [Next]_vars => NoUserMpp'
<1> SUFFICES ASSUME TypeOK, NoUserMpp, [Next]_vars PROVE NoUserMpp'
  OBVIOUS
<1>1. CASE Clock
  BY <1>1, ClockPrivilege
<1>2. CASE Reset
  BY <1>2 DEF Reset, CsrReset, NoUserMpp
<1>3. CASE UNCHANGED vars
  BY <1>3 DEF vars, NoUserMpp
<1> QED
  BY <1>1, <1>2, <1>3 DEF Next

(***************************************************************************)
(* In user mode MPP is user: an mret that user code executes stays in user *)
(* mode.                                                                   *)
(***************************************************************************)
THEOREM UserMppCorrect == Spec => []NoUserMpp
<1>1. Init => NoUserMpp
  BY DEF Init, CsrReset, NoUserMpp
<1> QED
  BY <1>1, TypeCorrect, NextNoUserMpp, PTL DEF Spec

\* A trap redirects the pc, deletes what is in flight and masks interrupts.
LEMMA TrapEntry ==
  ASSUME TypeOK, Clock, take_trap
  PROVE  /\ pc' = csr.mtvec
         /\ ~csr'.MIE
         /\ ~eb'.valid /\ ~db'.valid /\ fb'.noped
<1>1. pc' = csr.mtvec
  BY DEF Clock, PcNext, pc_we
<1>2. ~csr'.MIE
  BY DEF Clock, TypeOK, CsrNext, TrapCsr, CsrState
<1>3. ~eb'.valid /\ ~db'.valid
  BY DEF Clock, ExecBankNext, DecodeBankNext, ExecBubble, DecodeBubble
<1>4. fb'.noped
  BY DEF Clock, FetchBankNext
<1> QED
  BY <1>1, <1>2, <1>3, <1>4

(***************************************************************************)
(* User mode is left for machine mode through mtvec only, with interrupts  *)
(* off and nothing of the user program left in the pipeline.               *)
(***************************************************************************)
THEOREM UserExitCorrect == Spec => UserLeavesByTrap
<1> DEFINE Exit == csr.mode = "U" /\ csr'.mode = "M" /\ ~inReset' =>
                     /\ pc' = csr.mtvec
                     /\ ~csr'.MIE
                     /\ ~eb'.valid /\ ~db'.valid /\ fb'.noped
<1>1. TypeOK /\ NoUserMpp /\ [Next]_vars => [Exit]_vars
  <2> SUFFICES ASSUME TypeOK, NoUserMpp, Next PROVE Exit
    OBVIOUS
  <2>1. CASE Clock
    BY <2>1, ClockPrivilege, TrapEntry
  <2>2. CASE Reset
    BY <2>2 DEF Reset
  <2> QED
    BY <2>1, <2>2 DEF Next
<1> QED
  BY <1>1, TypeCorrect, UserMppCorrect, PTL DEF Spec, UserLeavesByTrap

-----------------------------------------------------------------------------
(***************************************************************************)
(* Csr values.  CsrReadFresh is inductive: csr_stop keeps a second csr     *)
(* instruction in decode until the first has left the memory stage, and    *)
(* whatever else writes the registers deletes the reader.                  *)
(***************************************************************************)
LEMMA NopIsNoCsr == \A p : ~IsZicsr(DecodeBubble(p).i) /\ ~IsZicsr(ExecBubble(p).i)
  BY DEF DecodeBubble, ExecBubble, NopInstr, IsZicsr

LEMMA ClockCsrFresh ==
  ASSUME CsrReadFresh, Clock
  PROVE  CsrReadFresh'
<1>1. /\ db' = DecodeBankNext
      /\ eb' = ExecBankNext
      /\ csr' = CsrNext
  BY DEF Clock
<1>2. CASE take_trap \/ mret_mem
  BY <1>1, <1>2, NopIsNoCsr DEF DecodeBankNext, ExecBankNext, CsrReadFresh
<1>3. CASE ~(take_trap \/ mret_mem)
  <2>1. /\ eb'.i = db.i
        /\ eb'.res = result
    BY <1>1, <1>3 DEF ExecBankNext
  <2>2. ASSUME IsZicsr(eb'.i)
        PROVE  eb'.res = CsrRead(csr', eb'.i.csr)
    <3>1. ~IsZicsr(eb.i) /\ db.csr_val = CsrRead(csr, db.i.csr)
      BY <2>1, <2>2 DEF CsrReadFresh
    <3>2. csr' = csr
      BY <1>1, <1>3, <3>1 DEF CsrNext, csr_sw
    <3>3. result = db.csr_val
      BY <2>1, <2>2 DEF result, IsZicsr, IsMulDiv, IsJump
    <3> QED
      BY <2>1, <3>1, <3>2, <3>3
  <2>3. ASSUME IsZicsr(db'.i)
        PROVE  db'.csr_val = CsrRead(csr', db'.i.csr) /\ ~IsZicsr(eb'.i)
    <3>1. ~(stall \/ branch \/ take_trap \/ mret_mem)
      BY <1>1, <2>3, NopIsNoCsr DEF DecodeBankNext
    <3>2. db'.i = instr_dec /\ db'.csr_val = CsrRead(csr, instr_dec.csr)
      BY <1>1, <3>1 DEF DecodeBankNext
    <3>3. ~IsZicsr(db.i) /\ ~IsZicsr(eb.i)
      BY <2>3, <3>1, <3>2 DEF stall, csr_stop
    <3>4. csr' = csr
      BY <1>1, <1>3, <3>3 DEF CsrNext, csr_sw
    <3> QED
      BY <2>1, <3>2, <3>3, <3>4
  <2> QED
    BY <2>2, <2>3 DEF CsrReadFresh
<1> QED
  BY <1>2, <1>3

(***************************************************************************)
(* A csr instruction reads, two stages before it writes, the value it      *)
(* would read if it were alone in the hart.                                *)
(***************************************************************************)
THEOREM CsrReadCorrect == Spec => []CsrReadFresh
<1>1. Init => CsrReadFresh
  BY NopIsNoCsr DEF Init, CsrReadFresh
<1>2. CsrReadFresh /\ [Next]_vars => CsrReadFresh'
  <2> SUFFICES ASSUME CsrReadFresh, [Next]_vars PROVE CsrReadFresh'
    OBVIOUS
  <2>1. CASE Clock
    BY <2>1, ClockCsrFresh
  <2>2. CASE Reset
    <3>1. db' = DecodeBubble(0) /\ eb' = ExecBubble(0)
      BY <2>2 DEF Reset
    <3>2. ~IsZicsr(db'.i) /\ ~IsZicsr(eb'.i)
      BY <3>1, NopIsNoCsr
    <3> QED
      BY <3>2 DEF CsrReadFresh
  <2>3. CASE UNCHANGED vars
    BY <2>3 DEF vars, CsrReadFresh
  <2> QED
    BY <2>1, <2>2, <2>3 DEF Next
<1> QED
  BY <1>1, <1>2, PTL DEF Spec

-----------------------------------------------------------------------------
(***************************************************************************)
(* Forwarding.  OperandsFresh is not inductive: it says nothing of where   *)
(* an operand is forwarded from.  RiskExact says that the choice made in   *)
(* decode is the right one a cycle later, when the producers have moved.   *)
(***************************************************************************)
RiskExact(used, r, risk, banked) ==
  used =>
    \/ risk = "mem" /\ OlderWrites(r) /\ eb.i.op # "LOAD"
    \/ risk = "wb" /\ ~OlderWrites(r) /\ r # 0 /\ mb.rd_we /\ mb.rd = r
    \/ risk = "none" /\ ~OlderWrites(r) /\ banked = reg_file[r]

ForwardInv ==
  /\ regs[0] = 0
  /\ RiskExact(UsesRs1(db.i), db.i.rs1, db.rs1_risk, db.rs1)
  /\ RiskExact(UsesRs2(db.i), db.i.rs2, db.rs2_risk, db.rs2)

LEMMA ForwardImpliesFresh ==
  ASSUME TypeOK, ForwardInv
  PROVE  OperandsFresh
<1>1. \A r \in Regs : r # 0 /\ mb.rd_we /\ mb.rd = r => data_wb = reg_file[r]
  BY DEF reg_file
<1>2. db.i.rs1 \in Regs /\ db.i.rs2 \in Regs
  BY DEF TypeOK, DecodeBank, Instr
<1>3. OperandFresh(UsesRs1(db.i), db.i.rs1, rs1_exe)
  BY <1>1, <1>2 DEF ForwardInv, RiskExact, OperandFresh, Newest, rs1_exe, Shorted
<1>4. OperandFresh(UsesRs2(db.i), db.i.rs2, rs2_exe)
  BY <1>1, <1>2 DEF ForwardInv, RiskExact, OperandFresh, Newest, rs2_exe, Shorted
<1> QED
  BY <1>3, <1>4 DEF OperandsFresh

\* A bubble reads x0 only.
LEMMA BubbleForward ==
  ASSUME TypeOK', regs'[0] = 0, NEW p, db' = DecodeBubble(p)
  PROVE  ForwardInv'
<1>1. /\ db'.i.rs1 = 0 /\ db'.rs1 = 0 /\ db'.rs1_risk = "none"
      /\ db'.i.rs2 = 0 /\ db'.rs2 = 0 /\ db'.rs2_risk = "none"
  BY DEF DecodeBubble, NopInstr
<1>2. (reg_file[0])' = 0 /\ ~OlderWrites(0)'
  BY HartAssumption DEF TypeOK, reg_file, OlderWrites
<1> QED
  BY <1>1, <1>2 DEF ForwardInv, RiskExact

(***************************************************************************)
(* An instruction that leaves decode with the multiplexer set by RiskSel.  *)
(* On this edge the producer in execution goes to memory and the one in    *)
(* memory to write back.                                                   *)
(***************************************************************************)
LEMMA ChosenRisk ==
  ASSUME TypeOK, TypeOK', Clock, ~take_trap, ~mret_mem,
         NEW r \in Regs, NEW used \in BOOLEAN, used,
         ~(db.i.op = "LOAD" /\ RiskExe(r, used))
  PROVE  \/ RiskSel(r, used) = "mem" /\ OlderWrites(r)' /\ eb'.i.op # "LOAD"
         \/ /\ RiskSel(r, used) = "wb" /\ ~OlderWrites(r)'
            /\ r # 0 /\ mb'.rd_we /\ mb'.rd = r
         \/ /\ RiskSel(r, used) = "none" /\ ~OlderWrites(r)'
            /\ reg_file[r] = reg_file'[r]
<1>1. eb'.i = db.i
  BY DEF Clock, ExecBankNext
<1>2. mb'.rd_we = WritesRd(eb.i) /\ mb'.rd = eb.i.rd
  BY DEF Clock, MemBankNext, WritesRd
<1>3. OlderWrites(r)' <=> RiskExe(r, used)
  BY <1>1 DEF OlderWrites, RiskExe
<1>4. CASE RiskExe(r, used)
  BY <1>1, <1>3, <1>4 DEF RiskSel
<1>5. CASE ~RiskExe(r, used) /\ RiskMem(r, used)
  BY <1>2, <1>3, <1>5 DEF RiskSel, RiskMem
<1>6. CASE ~RiskExe(r, used) /\ ~RiskMem(r, used)
  <2>1. RiskSel(r, used) = "none"
    BY <1>6 DEF RiskSel
  <2>2. ~(r # 0 /\ mb'.rd_we /\ mb'.rd = r)
    BY <1>2, <1>6 DEF RiskMem
  <2>3. reg_file'[r] = regs'[r]
    BY <2>2 DEF reg_file
  <2>4. regs' = reg_file
    BY DEF Clock
  <2> QED
    BY <1>3, <1>6, <2>1, <2>3, <2>4
<1> QED
  BY <1>4, <1>5, <1>6

LEMMA ClockForward ==
  ASSUME TypeOK, TypeOK', ForwardInv, Clock
  PROVE  ForwardInv'
<1>1. regs'[0] = 0
  BY HartAssumption DEF Clock, ForwardInv, reg_file
<1>2. CASE stall \/ branch \/ take_trap \/ mret_mem
  <2>1. db' = DecodeBubble(pc_dec_bank)
    BY <1>2 DEF Clock, DecodeBankNext
  <2> QED
    BY <1>1, <2>1, BubbleForward
<1>3. CASE ~(stall \/ branch \/ take_trap \/ mret_mem)
  <2> DEFINE d == instr_dec
  <2>1. /\ db'.i = d
        /\ db'.rs1 = reg_file[d.rs1] /\ db'.rs1_risk = RiskSel(d.rs1, UsesRs1(d))
        /\ db'.rs2 = reg_file[d.rs2] /\ db'.rs2_risk = RiskSel(d.rs2, UsesRs2(d))
    BY <1>3 DEF Clock, DecodeBankNext
  <2>2. d.rs1 \in Regs /\ d.rs2 \in Regs
    BY DecodedType DEF Instr
  <2>3. UsesRs1(d) \in BOOLEAN /\ UsesRs2(d) \in BOOLEAN
    BY DEF UsesRs1, UsesRs2
  <2>4. /\ ~(db.i.op = "LOAD" /\ RiskExe(d.rs1, UsesRs1(d)))
        /\ ~(db.i.op = "LOAD" /\ RiskExe(d.rs2, UsesRs2(d)))
    BY <1>3 DEF stall, load_use
  <2> HIDE DEF d
  <2>5. RiskExact(UsesRs1(db.i), db.i.rs1, db.rs1_risk, db.rs1)'
    BY <1>3, <2>1, <2>2, <2>3, <2>4, ChosenRisk DEF RiskExact
  <2>6. RiskExact(UsesRs2(db.i), db.i.rs2, db.rs2_risk, db.rs2)'
    BY <1>3, <2>1, <2>2, <2>3, <2>4, ChosenRisk DEF RiskExact
  <2> QED
    BY <1>1, <2>5, <2>6 DEF ForwardInv
<1> QED
  BY <1>2, <1>3

(***************************************************************************)
(* The instruction in the execution stage computes with the registers as   *)
(* all the instructions before it leave them.                              *)
(***************************************************************************)
THEOREM ForwardingCorrect == Spec => []OperandsFresh
<1>1. Init => ForwardInv
  <2> SUFFICES ASSUME Init PROVE ForwardInv
    OBVIOUS
  <2>1. /\ regs[0] = 0 /\ reg_file[0] = 0
        /\ ~OlderWrites(0)
    BY HartAssumption DEF Init, reg_file, OlderWrites
  <2>2. /\ db.i.rs1 = 0 /\ db.rs1 = 0 /\ db.rs1_risk = "none"
        /\ db.i.rs2 = 0 /\ db.rs2 = 0 /\ db.rs2_risk = "none"
    BY DEF Init, DecodeBubble, NopInstr
  <2> QED
    BY <2>1, <2>2 DEF ForwardInv, RiskExact
<1>2. TypeOK /\ TypeOK' /\ ForwardInv /\ [Next]_vars => ForwardInv'
  <2> SUFFICES ASSUME TypeOK, TypeOK', ForwardInv, [Next]_vars PROVE ForwardInv'
    OBVIOUS
  <2>1. CASE Clock
    BY <2>1, ClockForward
  <2>2. CASE Reset
    BY <2>2, BubbleForward, HartAssumption DEF Reset
  <2>3. CASE UNCHANGED vars
    BY <2>3 DEF vars, ForwardInv, RiskExact, OlderWrites, reg_file, data_wb
  <2> QED
    BY <2>1, <2>2, <2>3 DEF Next
<1>3. TypeOK /\ ForwardInv => OperandsFresh
  BY ForwardImpliesFresh
<1> QED
  BY <1>1, <1>2, <1>3, TypeCorrect, PTL DEF Spec

-----------------------------------------------------------------------------
(***************************************************************************)
(* The circuit implements the sequential machine.  Both descriptions are   *)
(* written with the vocabulary of Hart, and mean the same by it.           *)
(***************************************************************************)
LEMMA SameFetch ==
  /\ \A p, a : Arch!Fetch(p, a) = Fetch(p, a)
  /\ \A a : Arch!Plus4(a) = Plus4(a) /\ Arch!Even(a) = Even(a)
  /\ \A k : Arch!IrqCause(k) = IrqCause(k)
  BY DEF Arch!Fetch, Fetch, Arch!Plus4, Plus4, Arch!Even, Even,
         Arch!IrqCause, IrqCause

LEMMA SameDecoding ==
  ASSUME NEW i
  PROVE  /\ Arch!IsMret(i) <=> IsMret(i)
         /\ Arch!IsEcall(i) <=> IsEcall(i)
         /\ Arch!IsBreak(i) <=> IsBreak(i)
         /\ Arch!IsZicsr(i) <=> IsZicsr(i)
         /\ Arch!IsJump(i) <=> IsJump(i)
         /\ Arch!IsMulDiv(i) <=> IsMulDiv(i)
         /\ Arch!WritesRd(i) <=> WritesRd(i)
         /\ Arch!Imm(i) = Imm(i)
         /\ Arch!AluMode(i) = AluMode(i)
  BY DEF Arch!IsMret, IsMret, Arch!IsEcall, IsEcall, Arch!IsBreak, IsBreak,
         Arch!IsZicsr, IsZicsr, Arch!IsSystem, IsSystem, Arch!IsJump, IsJump,
         Arch!IsMulDiv, IsMulDiv, Arch!WritesRd, WritesRd, Arch!Imm, Imm,
         Arch!AluMode, AluMode

LEMMA SameUnits ==
  /\ \A f3, a : Arch!MisalignedAccess(f3, a) <=> MisalignedAccess(f3, a)
  /\ \A c, n : Arch!CsrRead(c, n) = CsrRead(c, n)
  /\ \A c, n, v : Arch!CsrWrite(c, n, v) = CsrWrite(c, n, v)
  /\ \A f3, r, m, v : Arch!CsrOp(f3, r, m, v) = CsrOp(f3, r, m, v)
<1>1. \A f3, a : Arch!MisalignedAccess(f3, a) <=> MisalignedAccess(f3, a)
  BY DEF Arch!MisalignedAccess, MisalignedAccess
<1>2. \A c, n : Arch!CsrRead(c, n) = CsrRead(c, n)
  BY DEF Arch!CsrRead, CsrRead, Arch!MstatusWord, MstatusWord, Arch!Weight, Weight
<1>3. \A c, n, v : Arch!CsrWrite(c, n, v) = CsrWrite(c, n, v)
  BY DEF Arch!CsrWrite, CsrWrite, Arch!Bit, Bit, Arch!Aligned, Aligned
<1>4. \A f3, r, m, v : Arch!CsrOp(f3, r, m, v) = CsrOp(f3, r, m, v)
  BY DEF Arch!CsrOp, CsrOp
<1> QED
  BY <1>1, <1>2, <1>3, <1>4

LEMMA SameInterrupts ==
  /\ TimerPending(csr, irq) => Arch!Interrupts = {IrqCause(7)}
  /\ ~TimerPending(csr, irq) /\ ExternalPending(csr, irq) =>
       Arch!Interrupts = {IrqCause(11)}
  /\ ~TimerPending(csr, irq) /\ ~ExternalPending(csr, irq) =>
       Arch!Interrupts = {}
  BY SameFetch DEF Arch!Interrupts, Arch!TimerPending, TimerPending,
     Arch!ExternalPending, ExternalPending

(***************************************************************************)
(* What the sequential machine computes, in the words of the circuit.      *)
(***************************************************************************)
LEMMA MeaningOfControl ==
  ASSUME NEW i
  PROVE  /\ Arch!Taken(i) <=>
              \/ IsJump(i)
              \/ i.op = "BRANCH" /\ Comp(i.f3, reg_file[i.rs1], reg_file[i.rs2])
         /\ Arch!Target(i) =
              Even(Alu(0, IF i.op = "JALR" THEN reg_file[i.rs1] ELSE ResumePc,
                       Imm(i)))
         /\ Arch!Address(i) = Alu(0, reg_file[i.rs1], Imm(i))
         /\ Arch!CsrOperand(i) =
              CsrOp(i.f3, reg_file[i.rs1], Imm(i), CsrRead(csr, i.csr))
  BY SameFetch, SameDecoding, SameUnits
  DEF Arch!Taken, Arch!Target, Arch!Address, Arch!CsrOperand

LEMMA MeaningOfResult ==
  ASSUME NEW i, i.op # "LOAD"
  PROVE  Arch!Result(i) =
           CASE i.op = "AUIPC"   -> Alu(0, ResumePc, Imm(i))
             [] IsJump(i)        -> Plus4(ResumePc)
             [] i.op = "OPIMM"   -> Alu(AluMode(i), reg_file[i.rs1], Imm(i))
             [] i.op = "OP"      ->
                  IF IsMulDiv(i)
                  THEN MulDiv(i.f3, reg_file[i.rs1], reg_file[i.rs2])
                  ELSE Alu(AluMode(i), reg_file[i.rs1], reg_file[i.rs2])
             [] IsZicsr(i)       -> CsrRead(csr, i.csr)
             [] OTHER            -> Alu(AluMode(i), 0, Imm(i))
  BY SameFetch, SameDecoding, SameUnits DEF Arch!Result

-----------------------------------------------------------------------------
(***************************************************************************)
(* The inductive invariant.  Where the program goes on after the decode    *)
(* stage and after the execution stage, as ResumePc after the memory       *)
(* stage.                                                                  *)
(***************************************************************************)
AfterDecode == IF fetched THEN fb.pc ELSE pc
AfterExecution == IF db.valid THEN db.pc ELSE AfterDecode

FetchSound ==
  /\ inReset => pc = 0 /\ ~db.valid /\ ~eb.valid /\ ~csr.MIE
  /\ fetched => /\ inst = Fetch(prog, fb.pc)
                /\ fb.pc4 = Plus4(fb.pc)
                /\ pc = Plus4(fb.pc)

DecodeSound ==
  IF db.valid
  THEN /\ db.i = Fetch(prog, db.pc)
       /\ db.pc4 = Plus4(db.pc)
       /\ AfterDecode = Plus4(db.pc)
  ELSE db.i = NopInstr

\* What the execution stage has computed is what the sequential machine
\* computes in the state in which the instruction leaves the memory stage.
ExecSound ==
  IF eb.valid
  THEN /\ eb.i = Fetch(prog, eb.pc)
       /\ AfterExecution =
            IF Arch!Taken(eb.i) THEN Arch!Target(eb.i) ELSE Plus4(eb.pc)
       /\ eb.bad_jump <=> (Arch!Taken(eb.i) /\ Arch!Target(eb.i) % 4 # 0)
       /\ eb.i.op \in {"LOAD", "STORE"} => eb.res = Arch!Address(eb.i)
       /\ WritesRd(eb.i) /\ eb.i.op # "LOAD" => eb.res = Arch!Result(eb.i)
       /\ eb.i.op = "STORE" => eb.rs2 = reg_file[eb.i.rs2]
       /\ IsZicsr(eb.i) => eb.csr_result = Arch!CsrOperand(eb.i)
  ELSE eb.i = NopInstr /\ ~eb.bad_jump

\* A bubble has the pc of what follows it, when its pc may still be wanted.
PcChain ==
  /\ csr.MIE => eb.pc = ResumePc
  /\ csr.MIE \/ eb.valid => db.pc = AfterExecution
  /\ csr.MIE \/ eb.valid \/ db.valid => fb.pc = AfterDecode

ProgramOrder ==
  /\ ~JumpBetweenCsr(prog)
  /\ FetchSound
  /\ DecodeSound
  /\ ExecSound
  /\ PcChain

LEMMA NopDecoded ==
  /\ ~IsZicsr(NopInstr) /\ ~IsMret(NopInstr) /\ ~IsEcall(NopInstr)
  /\ ~IsBreak(NopInstr) /\ ~IsJump(NopInstr) /\ ~WritesRd(NopInstr)
  /\ NopInstr.op = "OPIMM"
  BY DEF NopInstr, IsZicsr, IsMret, IsEcall, IsBreak, IsSystem, IsJump, WritesRd

\* The decode stage waits for an instruction it has.
LEMMA StallFetched == stall => fetched
<1> SUFFICES ASSUME ~fetched PROVE ~stall
  OBVIOUS
<1>1. instr_dec = NopInstr
  BY DEF instr_dec
<1>2. ~csr_stop
  BY <1>1, NopDecoded DEF csr_stop
<1>3. ~load_use
  BY <1>1 DEF load_use, RiskExe, UsesRs2, NopInstr
<1> QED
  BY <1>2, <1>3 DEF stall

\* A bubble does not branch.
LEMMA BubbleStays == DecodeSound => (branch => db.valid)
  BY NopDecoded DEF DecodeSound, branch

\* A jump that follows a csr instruction is not followed by one.
LEMMA BranchGoes ==
  ASSUME TypeOK, ProgramOrder, branch
  PROVE  ~stall
<1>1. db.valid /\ (IsJump(db.i) \/ db.i.op = "BRANCH")
  BY BubbleStays DEF ProgramOrder, branch
<1>2. ~load_use /\ ~IsZicsr(db.i)
  BY <1>1 DEF load_use, IsZicsr, IsJump
<1>3. SUFFICES ASSUME IsZicsr(instr_dec), IsZicsr(eb.i) PROVE FALSE
  BY <1>2 DEF stall, csr_stop
<1>4. fetched /\ IsZicsr(inst) /\ eb.valid
  BY <1>3, NopDecoded DEF instr_dec, ProgramOrder, ExecSound
<1>5. ~Arch!Taken(eb.i)
  BY <1>3, MeaningOfControl DEF IsZicsr, IsJump
<1>6. /\ eb.i = Fetch(prog, eb.pc)
      /\ db.pc = Plus4(eb.pc)
  BY <1>1, <1>4, <1>5 DEF ProgramOrder, ExecSound, AfterExecution
<1>7. /\ db.i = Fetch(prog, db.pc)
      /\ fb.pc = Plus4(db.pc)
      /\ inst = Fetch(prog, fb.pc)
  BY <1>1, <1>4 DEF ProgramOrder, DecodeSound, FetchSound, AfterDecode
<1>8. eb.pc \in Word
  BY DEF TypeOK, ExecBank
<1> QED
  BY <1>1, <1>3, <1>4, <1>6, <1>7, <1>8, NoJumpBetween DEF ProgramOrder

-----------------------------------------------------------------------------
(***************************************************************************)
(* The order of the program is kept.                                       *)
(***************************************************************************)
LEMMA FetchStep ==
  ASSUME TypeOK, ProgramOrder, Clock
  PROVE  FetchSound'
<1>1. /\ ~inReset' /\ prog' = prog
      /\ fb' = FetchBankNext
      /\ inst' = InstNext
      /\ pc' = PcNext
  BY DEF Clock
<1>2. SUFFICES ASSUME fetched'
               PROVE  /\ inst' = Fetch(prog', fb'.pc)
                      /\ fb'.pc4 = Plus4(fb'.pc)
                      /\ pc' = Plus4(fb'.pc)
  BY <1>1 DEF FetchSound
<1>3. ~fb'.noped
  BY <1>2 DEF fetched
<1>4. ~(take_trap \/ branch \/ mret_mem)
  BY <1>1, <1>3 DEF FetchBankNext
<1>5. CASE ~stall
  <2>1. fb' = [noped |-> FALSE, pc |-> pc, pc4 |-> Plus4(pc)]
    BY <1>1, <1>4, <1>5 DEF FetchBankNext, bank_pc_in, ProgramOrder, FetchSound
  <2>2. inst' = Fetch(prog, pc) /\ pc' = Plus4(pc)
    BY <1>1, <1>4, <1>5 DEF InstNext, PcNext, pc_we
  <2> QED
    BY <1>1, <2>1, <2>2
<1>6. CASE stall
  <2>1. fb' = fb /\ inst' = inst /\ pc' = pc
    BY <1>1, <1>4, <1>6 DEF FetchBankNext, InstNext, PcNext, pc_we
  <2> QED
    BY <1>1, <1>6, <2>1, StallFetched DEF ProgramOrder, FetchSound
<1> QED
  BY <1>5, <1>6

\* What leaves decode when nothing deletes it.
LEMMA Decoded ==
  ASSUME TypeOK, ProgramOrder, Clock, ~(stall \/ branch \/ take_trap \/ mret_mem)
  PROVE  /\ db'.valid = fetched
         /\ db'.i = IF fetched THEN Fetch(prog, fb.pc) ELSE NopInstr
         /\ db'.pc = fb.pc
         /\ db'.pc4 = fb.pc4
         /\ ~fb'.noped /\ fb'.pc = pc
         /\ pc' = Plus4(pc)
<1>1. /\ db' = DecodeBankNext
      /\ fb' = FetchBankNext
      /\ pc' = PcNext
  BY DEF Clock
<1>2. pc_dec_bank = fb.pc
  BY DEF pc_dec_bank
<1>3. instr_dec = IF fetched THEN Fetch(prog, fb.pc) ELSE NopInstr
  BY DEF instr_dec, ProgramOrder, FetchSound
<1>4. bank_pc_in = pc
  BY DEF bank_pc_in, ProgramOrder, FetchSound
<1> QED
  BY <1>1, <1>2, <1>3, <1>4 DEF DecodeBankNext, FetchBankNext, PcNext, pc_we

\* What a stall, a branch, a trap or an mret puts in the execution stage.
LEMMA Deleted ==
  ASSUME Clock, stall \/ branch \/ take_trap \/ mret_mem
  PROVE  ~db'.valid /\ db'.i = NopInstr /\ db'.pc = pc_dec_bank
  BY DEF Clock, DecodeBankNext, DecodeBubble

LEMMA DecodeStep ==
  ASSUME TypeOK, ProgramOrder, Clock
  PROVE  DecodeSound'
<1>1. prog' = prog /\ ~inReset'
  BY DEF Clock
<1>2. CASE stall \/ branch \/ take_trap \/ mret_mem
  BY <1>2, Deleted DEF DecodeSound
<1>3. CASE ~(stall \/ branch \/ take_trap \/ mret_mem)
  <2>1. SUFFICES ASSUME db'.valid
                 PROVE  /\ db'.i = Fetch(prog, db'.pc)
                        /\ db'.pc4 = Plus4(db'.pc)
                        /\ AfterDecode' = Plus4(db'.pc)
    BY <1>1, <1>3, Decoded DEF DecodeSound
  <2>2. fetched
    BY <1>3, <2>1, Decoded
  <2>3. AfterDecode' = pc
    BY <1>1, <1>3, Decoded DEF AfterDecode, fetched
  <2> QED
    BY <1>3, <2>2, <2>3, Decoded DEF ProgramOrder, FetchSound
<1> QED
  BY <1>2, <1>3

\* Where a branch in the execution stage, or the lack of one, leads.
LEMMA BranchPath ==
  ASSUME TypeOK, ProgramOrder, Clock, ~take_trap, ~mret_mem, branch
  PROVE  /\ ~db'.valid /\ db'.pc = target
         /\ fb'.noped /\ fb'.pc = target
         /\ pc' = target
         /\ AfterDecode' = target
         /\ AfterExecution' = target
<1>1. ~db'.valid /\ db'.pc = target
  BY Deleted DEF pc_dec_bank
<1>2. fb'.noped /\ fb'.pc = target
  BY DEF Clock, FetchBankNext, bank_pc_in
<1>3. pc' = target
  BY BranchGoes DEF Clock, PcNext, pc_we
<1> QED
  BY <1>1, <1>2, <1>3 DEF AfterDecode, AfterExecution, fetched

LEMMA StraightPath ==
  ASSUME TypeOK, ProgramOrder, Clock, ~take_trap, ~mret_mem, ~branch
  PROVE  /\ ~fb'.noped /\ fetched'
         /\ AfterDecode' = fb'.pc
         /\ AfterExecution' = AfterDecode
<1>1. ~inReset' /\ fb' = FetchBankNext
  BY DEF Clock
<1>2. CASE stall
  <2>1. fetched /\ fb' = fb
    BY <1>1, <1>2, StallFetched DEF FetchBankNext
  <2>2. ~db'.valid
    BY <1>2, Deleted
  <2> QED
    BY <1>1, <2>1, <2>2 DEF AfterDecode, AfterExecution, fetched
<1>3. CASE ~stall
  BY <1>1, <1>3, Decoded DEF AfterDecode, AfterExecution, fetched
<1> QED
  BY <1>2, <1>3

LEMMA MretPath ==
  ASSUME Clock, mret_mem
  PROVE  /\ ~eb'.valid /\ eb'.pc = csr.mepc
         /\ ~db'.valid /\ db'.pc = csr.mepc
         /\ fb'.noped /\ fb'.pc = csr.mepc
         /\ pc' = IF take_trap THEN csr.mtvec ELSE csr.mepc
<1>1. ~db'.valid /\ db'.pc = csr.mepc
  BY Deleted DEF pc_dec_bank
<1> QED
  BY <1>1 DEF Clock, ExecBankNext, ExecBubble, FetchBankNext, bank_pc_in,
     PcNext, pc_we

LEMMA TrapPath ==
  ASSUME Clock, take_trap
  PROVE  /\ ~eb'.valid /\ ~db'.valid /\ fb'.noped
         /\ pc' = csr.mtvec
         /\ ~csr'.MIE
<1>1. ~db'.valid
  BY Deleted
<1>2. eb' = ExecBubble(eb'.pc) /\ fb'.noped /\ pc' = csr.mtvec
  BY DEF Clock, ExecBankNext, ExecBubble, FetchBankNext, PcNext, pc_we
<1>3. ~csr'.MIE
  BY DEF Clock, CsrNext, TrapCsr
<1> QED
  BY <1>1, <1>2, <1>3 DEF ExecBubble

(***************************************************************************)
(* Where the program goes on after an edge.                                *)
(***************************************************************************)
LEMMA ResumeStep ==
  ASSUME TypeOK, ProgramOrder, Clock
  PROVE  ResumePc' = IF take_trap THEN csr.mtvec
                     ELSE IF mret_mem THEN csr.mepc
                     ELSE AfterExecution
<1>1. ResumePc' = IF eb'.valid THEN eb'.pc ELSE AfterExecution'
  BY DEF ResumePc, AfterExecution, AfterDecode
<1>2. CASE take_trap
  BY <1>1, <1>2, TrapPath DEF AfterExecution, AfterDecode, fetched
<1>3. CASE ~take_trap /\ mret_mem
  BY <1>1, <1>3, MretPath DEF AfterExecution, AfterDecode, fetched
<1>4. CASE ~take_trap /\ ~mret_mem
  <2>1. eb'.valid = db.valid /\ eb'.pc = db.pc
    BY <1>4 DEF Clock, ExecBankNext
  <2>2. CASE db.valid
    BY <1>1, <1>4, <2>1, <2>2 DEF AfterExecution
  <2>3. CASE ~db.valid
    <3>1. ~branch
      BY <2>3, BubbleStays DEF ProgramOrder
    <3>2. AfterExecution' = AfterDecode
      BY <1>4, <3>1, StraightPath
    <3> QED
      BY <1>1, <1>4, <2>1, <2>3, <3>2 DEF AfterExecution, TypeOK, DecodeBank
  <2> QED
    BY <2>2, <2>3
<1> QED
  BY <1>2, <1>3, <1>4

LEMMA PcChainStep ==
  ASSUME TypeOK, ProgramOrder, Clock
  PROVE  PcChain'
<1>1. CASE take_trap
  BY <1>1, TrapPath DEF PcChain
<1>2. CASE ~take_trap /\ mret_mem
  <2>1. ResumePc' = csr.mepc
    BY <1>2, ResumeStep
  <2>2. AfterDecode' = csr.mepc /\ AfterExecution' = csr.mepc
    BY <1>2, MretPath DEF AfterExecution, AfterDecode, fetched
  <2> QED
    BY <1>2, <2>1, <2>2, MretPath DEF PcChain
<1>3. CASE ~take_trap /\ ~mret_mem
  <2>1. eb'.valid = db.valid /\ eb'.pc = db.pc
    BY <1>3 DEF Clock, ExecBankNext
  <2>2. csr'.MIE => csr.MIE \/ eb.valid
    BY <1>3, NopDecoded DEF Clock, CsrNext, csr_sw, ProgramOrder, ExecSound
  <2>3. csr'.MIE => eb'.pc = ResumePc'
    BY <1>3, <2>1, <2>2, ResumeStep DEF ProgramOrder, PcChain
  <2>4. csr'.MIE \/ eb'.valid \/ db'.valid => fb'.pc = AfterDecode'
    BY <1>3, BranchPath, StraightPath
  <2>5. ASSUME csr'.MIE \/ eb'.valid
        PROVE  db'.pc = AfterExecution'
    <3>1. fb.pc = AfterDecode
      BY <2>1, <2>2, <2>5 DEF ProgramOrder, PcChain
    <3>2. CASE branch
      BY <1>3, <3>2, BranchPath
    <3>3. CASE ~branch
      <4>1. db'.pc = fb.pc
        BY <1>3, <3>3, Deleted, Decoded DEF pc_dec_bank
      <4> QED
        BY <1>3, <3>1, <3>3, <4>1, StraightPath
    <3> QED
      BY <3>2, <3>3
  <2> QED
    BY <2>3, <2>4, <2>5 DEF PcChain
<1> QED
  BY <1>1, <1>2, <1>3

-----------------------------------------------------------------------------
(***************************************************************************)
(* What the execution stage computes.                                      *)
(***************************************************************************)
LEMMA RegisterStep ==
  ASSUME Clock
  PROVE  reg_file' =
           [r \in Regs |-> IF ~take_trap /\ WritesRd(eb.i) /\ eb.i.rd = r
                           THEN IF eb.i.op = "LOAD" THEN BusNext ELSE eb.res
                           ELSE reg_file[r]]
<1>1. /\ mb' = MemBankNext
      /\ bus' = BusNext
      /\ regs' = reg_file
  BY DEF Clock
<1>2. data_wb' = IF eb.i.op \in {"LOAD", "STORE"} THEN BusNext ELSE eb.res
  BY <1>1 DEF data_wb, MemBankNext
<1>3. reg_file' = [r \in Regs |-> IF r # 0 /\ mb'.rd_we /\ mb'.rd = r
                                  THEN data_wb' ELSE regs'[r]]
  BY DEF reg_file
<1>4. mb'.rd = eb.i.rd /\ (mb'.rd_we <=> WritesRd(eb.i) /\ ~take_trap)
  BY <1>1 DEF MemBankNext, WritesRd
<1>5. WritesRd(eb.i) => eb.i.op # "STORE" /\ eb.i.rd # 0
  BY DEF WritesRd
<1> QED
  BY <1>1, <1>2, <1>3, <1>4, <1>5

\* The operands are the registers as they are when the instruction retires.
LEMMA OperandsInTime ==
  ASSUME TypeOK, OperandsFresh, Clock, ~take_trap
  PROVE  /\ UsesRs1(db.i) => rs1_exe = reg_file'[db.i.rs1]
         /\ UsesRs2(db.i) => rs2_exe = reg_file'[db.i.rs2]
<1>1. db.i.rs1 \in Regs /\ db.i.rs2 \in Regs
  BY DEF TypeOK, DecodeBank, Instr
<1>2. ASSUME NEW r \in Regs, ~(OlderWrites(r) /\ eb.i.op = "LOAD")
      PROVE  Newest(r) = reg_file'[r]
  BY <1>2, RegisterStep DEF Newest, OlderWrites, WritesRd, reg_file
<1> QED
  BY <1>1, <1>2 DEF OperandsFresh, OperandFresh

LEMMA TargetAlignment ==
  ASSUME NEW a \in Word
  PROVE  Bit(a, 1) <=> Even(a) % 4 # 0
<1>1. a \in Nat
  BY WordAssumption DEF Word
<1>2. 2^1 = 2
  BY SMT
<1> QED
  BY <1>1, <1>2, SMT DEF Bit, Even


\* MeaningOfControl and MeaningOfResult, in the next state.
LEMMA MeaningNext ==
  /\ Arch!Taken(eb.i)' <=>
       (\/ IsJump(eb'.i)
        \/ eb'.i.op = "BRANCH"
           /\ Comp(eb'.i.f3, reg_file'[eb'.i.rs1], reg_file'[eb'.i.rs2]))
  /\ Arch!Target(eb.i)' =
       Even(Alu(0, IF eb'.i.op = "JALR" THEN reg_file'[eb'.i.rs1] ELSE ResumePc',
                Imm(eb'.i)))
  /\ Arch!Address(eb.i)' = Alu(0, reg_file'[eb'.i.rs1], Imm(eb'.i))
  /\ Arch!CsrOperand(eb.i)' =
       CsrOp(eb'.i.f3, reg_file'[eb'.i.rs1], Imm(eb'.i), CsrRead(csr', eb'.i.csr))
  BY SameFetch, SameDecoding, SameUnits
  DEF Arch!Taken, Arch!Target, Arch!Address, Arch!CsrOperand

LEMMA ResultNext ==
  ASSUME eb'.i.op # "LOAD"
  PROVE  Arch!Result(eb.i)' =
           CASE eb'.i.op = "AUIPC" -> Alu(0, ResumePc', Imm(eb'.i))
             [] IsJump(eb'.i)      -> Plus4(ResumePc')
             [] eb'.i.op = "OPIMM" ->
                  Alu(AluMode(eb'.i), reg_file'[eb'.i.rs1], Imm(eb'.i))
             [] eb'.i.op = "OP"    ->
                  IF IsMulDiv(eb'.i)
                  THEN MulDiv(eb'.i.f3, reg_file'[eb'.i.rs1], reg_file'[eb'.i.rs2])
                  ELSE Alu(AluMode(eb'.i), reg_file'[eb'.i.rs1], reg_file'[eb'.i.rs2])
             [] IsZicsr(eb'.i)     -> CsrRead(csr', eb'.i.csr)
             [] OTHER              -> Alu(AluMode(eb'.i), 0, Imm(eb'.i))
  BY SameFetch, SameDecoding, SameUnits DEF Arch!Result

LEMMA ExecStep ==
  ASSUME TypeOK, ProgramOrder, OperandsFresh, CsrReadFresh', Clock
  PROVE  ExecSound'
<1>1. prog' = prog /\ eb' = ExecBankNext
  BY DEF Clock
<1>2. CASE take_trap \/ mret_mem
  BY <1>1, <1>2 DEF ExecSound, ExecBankNext, ExecBubble
<1>3. CASE ~take_trap /\ ~mret_mem /\ ~db.valid
  <2>1. ~branch /\ db.i = NopInstr
    BY <1>3, BubbleStays DEF ProgramOrder, DecodeSound
  <2> QED
    BY <1>1, <1>3, <2>1 DEF ExecSound, ExecBankNext, bad_jump_exe
<1>4. CASE ~take_trap /\ ~mret_mem /\ db.valid
  <2> DEFINE i == db.i
             r == reg_file'
  <2>1. /\ eb'.valid /\ eb'.i = i /\ eb'.pc = db.pc
        /\ eb'.res = result /\ eb'.rs2 = rs2_exe
        /\ eb'.csr_result = CsrOp(i.f3, rs1_exe, Imm(i), db.csr_val)
        /\ eb'.bad_jump = bad_jump_exe
    BY <1>1, <1>4 DEF ExecBankNext
  <2>2. i = Fetch(prog, db.pc) /\ db.pc4 = Plus4(db.pc) /\ AfterDecode = Plus4(db.pc)
    BY <1>4 DEF ProgramOrder, DecodeSound
  <2>3. ResumePc' = db.pc
    BY <1>4, ResumeStep DEF AfterExecution
  <2>4. /\ UsesRs1(i) => rs1_exe = r[i.rs1]
        /\ UsesRs2(i) => rs2_exe = r[i.rs2]
    BY <1>4, OperandsInTime
  <2>5. branch <=> Arch!Taken(eb.i)'
    BY <2>1, <2>4, MeaningNext DEF branch, UsesRs1, UsesRs2
  <2>6. branch => target = Arch!Target(eb.i)'
    BY <2>1, <2>3, <2>4, MeaningNext
    DEF branch, target, alu_res, op1_exe, op2_exe, UsesRs1, IsJump, AluMode
  <2>7. AfterExecution' =
          IF Arch!Taken(eb.i)' THEN Arch!Target(eb.i)' ELSE Plus4(eb'.pc)
    BY <1>4, <2>1, <2>2, <2>5, <2>6, BranchPath, StraightPath
  <2>8. eb'.bad_jump <=> (Arch!Taken(eb.i)' /\ Arch!Target(eb.i)' % 4 # 0)
    BY <2>1, <2>5, <2>6, OperandType, TargetAlignment DEF bad_jump_exe, target
  <2>9. i.op \in {"LOAD", "STORE"} => eb'.res = Arch!Address(eb.i)'
    BY <2>1, <2>4, MeaningNext
    DEF result, alu_res, op1_exe, op2_exe, UsesRs1, IsJump, IsMulDiv, IsZicsr, AluMode
  <2>10. IsZicsr(i) => db.csr_val = CsrRead(csr', i.csr)
    <3> SUFFICES ASSUME IsZicsr(i) PROVE db.csr_val = CsrRead(csr', i.csr)
      OBVIOUS
    <3>1. result = db.csr_val
      BY DEF result, IsZicsr, IsMulDiv, IsJump
    <3> QED
      BY <2>1, <3>1 DEF CsrReadFresh
  <2>11. WritesRd(i) /\ i.op # "LOAD" => eb'.res = Arch!Result(eb.i)'
    <3> SUFFICES ASSUME WritesRd(i), i.op # "LOAD" PROVE result = Arch!Result(eb.i)'
      BY <2>1
    <3>1. i.op \in Opcodes \ {"LOAD", "STORE", "BRANCH"}
      BY DEF TypeOK, DecodeBank, Instr, WritesRd
    <3>2. CASE i.op \in {"AUIPC", "OPIMM"} \/ IsJump(i)
      BY <2>1, <2>2, <2>3, <2>4, <3>2, ResultNext
      DEF result, alu_res, op1_exe, op2_exe, UsesRs1, IsJump, IsMulDiv, IsZicsr, AluMode
    <3>3. CASE i.op = "OP"
      <4>1. op1_exe = r[i.rs1] /\ op2_exe = r[i.rs2]
        BY <2>4, <3>3 DEF op1_exe, op2_exe, UsesRs1, UsesRs2
      <4>2. ~IsJump(i) /\ ~IsZicsr(i)
        BY <3>3 DEF IsJump, IsZicsr
      <4> QED
        BY <2>1, <3>3, <4>1, <4>2, ResultNext DEF result, alu_res
    <3>4. CASE IsZicsr(i)
      BY <2>1, <2>10, <3>4, ResultNext
      DEF result, IsJump, IsMulDiv, IsZicsr
    <3>5. CASE i.op \in {"LUI", "FENCE", "BAD", "SYSTEM"} /\ ~IsZicsr(i)
      BY <2>1, <3>5, ResultNext
      DEF result, alu_res, op1_exe, op2_exe, IsJump, IsMulDiv
    <3> QED
      BY <3>1, <3>2, <3>3, <3>4, <3>5 DEF Opcodes, IsJump
  <2>12. i.op = "STORE" => eb'.rs2 = r[i.rs2]
    BY <2>1, <2>4 DEF UsesRs2
  <2>13. IsZicsr(i) => eb'.csr_result = Arch!CsrOperand(eb.i)'
    BY <2>1, <2>4, <2>10, MeaningNext DEF UsesRs1, CsrOp, TypeOK, DecodeBank, Instr
  <2> QED
    BY <1>1, <2>1, <2>2, <2>7, <2>8, <2>9, <2>11, <2>12, <2>13 DEF ExecSound
<1> QED
  BY <1>2, <1>3, <1>4

-----------------------------------------------------------------------------
(***************************************************************************)
(* ProgramOrder is an invariant, on a program without the sequence that    *)
(* loses a jump, and says that a trap saves the right pc.                  *)
(***************************************************************************)
LEMMA InitProgramOrder == Init /\ ~JumpBetweenCsr(prog) => ProgramOrder
<1> SUFFICES ASSUME Init, ~JumpBetweenCsr(prog) PROVE ProgramOrder
  OBVIOUS
<1>1. /\ inReset /\ pc = 0 /\ ~csr.MIE
      /\ ~db.valid /\ db.i = NopInstr
      /\ ~eb.valid /\ eb.i = NopInstr /\ ~eb.bad_jump
  BY DEF Init, DecodeBubble, ExecBubble, CsrReset
<1> QED
  BY <1>1 DEF ProgramOrder, FetchSound, DecodeSound, ExecSound, PcChain, fetched

LEMMA NextProgramOrder ==
  ASSUME TypeOK, OperandsFresh, CsrReadFresh', ProgramOrder, [Next]_vars
  PROVE  ProgramOrder'
<1>1. CASE Clock
  <2>1. prog' = prog
    BY <1>1 DEF Clock
  <2>2. ~JumpBetweenCsr(prog')
    BY <2>1 DEF ProgramOrder
  <2> QED
    BY <1>1, <2>2, FetchStep, DecodeStep, ExecStep, PcChainStep DEF ProgramOrder
<1>2. CASE Reset
  <2>1. /\ inReset' /\ pc' = 0 /\ ~csr'.MIE /\ prog' = prog
        /\ ~db'.valid /\ db'.i = NopInstr
        /\ ~eb'.valid /\ eb'.i = NopInstr /\ ~eb'.bad_jump
    BY <1>2 DEF Reset, DecodeBubble, ExecBubble, CsrReset
  <2>2. ~JumpBetweenCsr(prog')
    BY <2>1 DEF ProgramOrder
  <2> QED
    BY <2>1, <2>2
    DEF ProgramOrder, FetchSound, DecodeSound, ExecSound, PcChain, fetched
<1>3. CASE UNCHANGED vars
  <2> USE <1>3 DEF vars
  <2>1. /\ reg_file' = reg_file /\ fetched' = fetched
        /\ ResumePc' = ResumePc
        /\ AfterDecode' = AfterDecode /\ AfterExecution' = AfterExecution
    BY DEF reg_file, data_wb, fetched, ResumePc, AfterDecode, AfterExecution
  <2>2. /\ Arch!Taken(eb.i)' <=> Arch!Taken(eb.i)
        /\ Arch!Target(eb.i)' = Arch!Target(eb.i)
        /\ Arch!Address(eb.i)' = Arch!Address(eb.i)
        /\ Arch!CsrOperand(eb.i)' = Arch!CsrOperand(eb.i)
    BY <2>1, MeaningOfControl, MeaningNext
  <2>3. Arch!Result(eb.i)' = Arch!Result(eb.i)
    BY <2>1, <2>2 DEF Arch!Result, Arch!Loaded
  <2>4. ~JumpBetweenCsr(prog') /\ FetchSound' /\ DecodeSound' /\ PcChain'
    BY <2>1 DEF ProgramOrder, FetchSound, DecodeSound, PcChain
  <2>5. ExecSound'
    BY <2>1, <2>2, <2>3 DEF ProgramOrder, ExecSound
  <2> QED
    BY <2>4, <2>5 DEF ProgramOrder
<1> QED
  BY <1>1, <1>2, <1>3 DEF Next

LEMMA ProgramOrderKept == Spec /\ ~JumpBetweenCsr(prog) => []ProgramOrder
<1>1. TypeOK /\ OperandsFresh /\ CsrReadFresh' /\ ProgramOrder /\ [Next]_vars
        => ProgramOrder'
  BY NextProgramOrder
<1> QED
  BY <1>1, InitProgramOrder, TypeCorrect, ForwardingCorrect, CsrReadCorrect, PTL
  DEF Spec

(***************************************************************************)
(* Whenever an interrupt may be taken, the pc that mepc would receive is   *)
(* the pc at which the program goes on.                                    *)
(***************************************************************************)
THEOREM ResumePcCorrect ==
  Spec /\ ~JumpBetweenCsr(prog) => []ResumePcValid
<1>1. ProgramOrder => ResumePcValid
  BY DEF ProgramOrder, PcChain, ResumePcValid
<1> QED
  BY <1>1, ProgramOrderKept, PTL

-----------------------------------------------------------------------------
(***************************************************************************)
(* The steps of the sequential machine.                                    *)
(***************************************************************************)
SynchronousCause ==
  IF IsBreak(eb.i) THEN 3
  ELSE IF privileged \/ eb.i.op = "BAD" THEN 2
  ELSE IF eb.bad_jump THEN 0
  ELSE IF IsEcall(eb.i) THEN IF csr.mode = "U" THEN 8 ELSE 11
  ELSE IF eb.i.op = "LOAD" THEN 4 ELSE 6

LEMMA ExceptionCauses ==
  ASSUME NEW i, NEW c
  PROVE  c \in Arch!Exceptions(i) <=>
           (\/ c = 2  /\ (i.op = "BAD" \/ (IsZicsr(i) /\ csr.mode = "U"))
            \/ c = 3  /\ IsBreak(i)
            \/ c = 8  /\ IsEcall(i) /\ csr.mode = "U"
            \/ c = 11 /\ IsEcall(i) /\ csr.mode = "M"
            \/ c = 0  /\ Arch!Taken(i) /\ Arch!Target(i) % 4 # 0
            \/ c = 4  /\ i.op = "LOAD"  /\ MisalignedAccess(i.f3, Arch!Address(i))
            \/ c = 6  /\ i.op = "STORE" /\ MisalignedAccess(i.f3, Arch!Address(i)))
  BY SameDecoding, SameUnits DEF Arch!Exceptions

LEMMA ExceptionsExact ==
  ASSUME TypeOK, ProgramOrder
  PROVE  /\ except => eb.valid /\ SynchronousCause \in Arch!Exceptions(eb.i)
         /\ eb.valid /\ ~except => Arch!Exceptions(eb.i) = {}
<1>1. except => eb.valid
  BY NopDecoded DEF except, privileged, ProgramOrder, ExecSound
<1>2. CASE eb.valid
  <2>1. /\ eb.bad_jump <=> (Arch!Taken(eb.i) /\ Arch!Target(eb.i) % 4 # 0)
        /\ eb.i.op \in {"LOAD", "STORE"} => eb.res = Arch!Address(eb.i)
    BY <1>2 DEF ProgramOrder, ExecSound
  <2>2. csr.mode \in {"M", "U"}
    BY DEF TypeOK, CsrState, Modes
  <2>3. except => SynchronousCause \in Arch!Exceptions(eb.i)
    BY <2>1, <2>2, ExceptionCauses
    DEF except, SynchronousCause, privileged, misaligned
  <2>4. ~except => \A c : c \notin Arch!Exceptions(eb.i)
    BY <2>1, ExceptionCauses DEF except, privileged, misaligned
  <2> QED
    BY <1>1, <2>3, <2>4
<1> QED
  BY <1>1, <1>2

\* The instruction in the memory stage is the one the sequential machine is at.
LEMMA NextInstruction ==
  ProgramOrder /\ eb.valid => eb.pc = ResumePc /\ Arch!I = eb.i
  BY SameFetch DEF ProgramOrder, ExecSound, ResumePc, Arch!I

LEMMA TrapRefines ==
  ASSUME TypeOK, ProgramOrder, Clock, take_trap
  PROVE  Arch!TakeInterrupt \/ Arch!TakeException
<1>1. ResumePc' = csr.mtvec
  BY ResumeStep
<1>2. reg_file' = reg_file
  BY RegisterStep DEF reg_file
<1>3. mem' = mem
  BY DEF Clock, MemNext, mem_we
<1>4. eb.pc = ResumePc
  <2>1. CASE TimerPending(csr, irq) \/ ExternalPending(csr, irq)
    BY <2>1 DEF TimerPending, ExternalPending, ProgramOrder, PcChain
  <2>2. CASE except
    BY <2>2, ExceptionsExact, NextInstruction
  <2> QED
    BY <2>1, <2>2 DEF take_trap
<1>5. Arch!Trap(mem_cause)
  BY <1>1, <1>2, <1>3, <1>4 DEF Arch!Trap, Clock, CsrNext, TrapCsr
<1>6. CASE TimerPending(csr, irq) \/ ExternalPending(csr, irq)
  <2>1. mem_cause \in Arch!Interrupts
    BY <1>6, SameInterrupts DEF mem_cause
  <2> QED
    BY <1>5, <2>1 DEF Arch!TakeInterrupt
<1>7. CASE ~TimerPending(csr, irq) /\ ~ExternalPending(csr, irq)
  <2>1. except /\ mem_cause = SynchronousCause
    BY <1>7 DEF take_trap, mem_cause, SynchronousCause
  <2>2. Arch!Interrupts = {}
    BY <1>7, SameInterrupts
  <2>3. mem_cause \in Arch!Exceptions(Arch!I)
    BY <2>1, ExceptionsExact, NextInstruction
  <2> QED
    BY <1>5, <2>2, <2>3 DEF Arch!TakeException
<1> QED
  BY <1>6, <1>7

LEMMA MretRefines ==
  ASSUME TypeOK, ProgramOrder, Clock, ~take_trap, mret_mem
  PROVE  Arch!Mret
<1>1. eb.valid /\ ~WritesRd(eb.i) /\ eb.i.op = "SYSTEM"
  BY NopDecoded
  DEF mret_mem, ProgramOrder, ExecSound, IsMret, IsSystem, WritesRd
<1>2. Arch!I = eb.i /\ Arch!IsMret(Arch!I)
  BY <1>1, NextInstruction, SameDecoding DEF mret_mem
<1>3. Arch!Interrupts = {}
  BY SameInterrupts DEF take_trap
<1>4. ResumePc' = csr.mepc
  BY ResumeStep
<1>5. reg_file' = reg_file
  BY <1>1, RegisterStep DEF reg_file
<1>6. mem' = mem
  BY <1>1 DEF Clock, MemNext, mem_we
<1>7. csr' = MretCsr
  BY DEF Clock, CsrNext
<1> QED
  BY <1>2, <1>3, <1>4, <1>5, <1>6, <1>7 DEF Arch!Mret, MretCsr

LEMMA RetireRefines ==
  ASSUME TypeOK, ProgramOrder, Clock, ~take_trap, ~mret_mem, eb.valid
  PROVE  Arch!Retire
<1>1. Arch!I = eb.i /\ ResumePc = eb.pc
  BY NextInstruction
<1>2. /\ Arch!Interrupts = {}
      /\ Arch!Exceptions(Arch!I) = {}
      /\ ~Arch!IsMret(Arch!I)
  BY <1>1, SameInterrupts, SameDecoding, ExceptionsExact DEF take_trap, mret_mem
<1>3. ResumePc' = IF Arch!Taken(Arch!I) THEN Arch!Target(Arch!I)
                  ELSE Arch!Plus4(ResumePc)
  BY <1>1, ResumeStep, SameFetch DEF ProgramOrder, ExecSound
<1>4. WritesRd(eb.i) =>
        Arch!Result(eb.i) = IF eb.i.op = "LOAD" THEN BusNext ELSE eb.res
  <2>1. CASE eb.i.op = "LOAD"
    <3>1. eb.res = Arch!Address(eb.i)
      BY <2>1 DEF ProgramOrder, ExecSound
    <3>2. Arch!Result(eb.i) = Arch!Loaded(eb.i)
      BY <2>1 DEF Arch!Result, Arch!IsJump, Arch!IsZicsr
    <3> QED
      BY <2>1, <3>1, <3>2 DEF Arch!Loaded, BusNext, addr_data
  <2>2. CASE eb.i.op # "LOAD"
    BY <2>2 DEF ProgramOrder, ExecSound
  <2> QED
    BY <2>1, <2>2
<1>5. reg_file' = IF Arch!WritesRd(Arch!I)
                  THEN [reg_file EXCEPT ![Arch!I.rd] = Arch!Result(Arch!I)]
                  ELSE reg_file
  BY <1>1, <1>4, RegisterStep, SameDecoding DEF reg_file
<1>6. csr' = IF Arch!IsZicsr(Arch!I)
             THEN Arch!CsrWrite(csr, Arch!I.csr, Arch!CsrOperand(Arch!I))
             ELSE csr
  BY <1>1, SameDecoding, SameUnits
  DEF Clock, CsrNext, csr_sw, ProgramOrder, ExecSound
<1>7. mem' = IF Arch!I.op = "STORE" THEN Arch!Stored(Arch!I) ELSE mem
  BY <1>1 DEF Clock, MemNext, mem_we, addr_data, Arch!Stored, ProgramOrder, ExecSound
<1> QED
  BY <1>2, <1>3, <1>5, <1>6, <1>7 DEF Arch!Retire

LEMMA BubbleRefines ==
  ASSUME TypeOK, ProgramOrder, Clock, ~take_trap, ~mret_mem, ~eb.valid
  PROVE  Arch!Idle
<1>1. eb.i = NopInstr
  BY DEF ProgramOrder, ExecSound
<1>2. ResumePc' = ResumePc
  BY ResumeStep DEF ResumePc, AfterExecution, AfterDecode, TypeOK, ExecBank
<1>3. reg_file' = reg_file
  BY <1>1, NopDecoded, RegisterStep DEF reg_file
<1>4. csr' = csr /\ mem' = mem
  BY <1>1, NopDecoded DEF Clock, CsrNext, csr_sw, MemNext, mem_we
<1> QED
  BY <1>2, <1>3, <1>4 DEF Arch!Idle, Arch!arch

LEMMA ResetRefines ==
  ASSUME TypeOK, ProgramOrder, Reset
  PROVE  Arch!Reset
<1>1. ResumePc' = 0
  BY DEF Reset, ResumePc, DecodeBubble, ExecBubble, fetched
<1>2. reg_file' = [r \in Regs |-> 0]
  BY DEF Reset, reg_file, MemEmpty
<1>3. csr' = CsrReset /\ CsrReset = Arch!CsrReset
  BY DEF Reset, CsrReset, Arch!CsrReset
<1>4. CASE ~mem_we
  BY <1>1, <1>2, <1>3, <1>4 DEF Reset, MemNext, Arch!Reset
<1>5. CASE mem_we
  <2>1. eb.i.op = "STORE" /\ ~take_trap
    BY <1>5 DEF mem_we
  <2>2. eb.valid
    BY <2>1, NopDecoded DEF ProgramOrder, ExecSound
  <2>3. /\ Arch!I = eb.i
        /\ Arch!Interrupts = {}
        /\ Arch!Exceptions(Arch!I) = {}
    BY <2>1, <2>2, NextInstruction, SameInterrupts, ExceptionsExact DEF take_trap
  <2>4. mem' = Arch!Stored(Arch!I)
    BY <1>5, <2>1, <2>2, <2>3
    DEF Reset, MemNext, addr_data, Arch!Stored, ProgramOrder, ExecSound
  <2> QED
    BY <1>1, <1>2, <1>3, <2>1, <2>3, <2>4 DEF Arch!Reset
<1> QED
  BY <1>4, <1>5

LEMMA StepRefines ==
  ASSUME TypeOK, ProgramOrder, [Next]_vars
  PROVE  [Arch!Next]_(Arch!vars)
<1>1. CASE Clock
  <2>1. Arch!TakeInterrupt \/ Arch!TakeException \/ Arch!Mret \/ Arch!Retire \/ Arch!Idle
    BY <1>1, TrapRefines, MretRefines, RetireRefines, BubbleRefines
  <2>2. irq' \in IrqLines /\ prog' = prog
    BY <1>1 DEF Clock
  <2> QED
    BY <2>1, <2>2 DEF Arch!Next
<1>2. CASE Reset
  BY <1>2, ResetRefines DEF Reset, Arch!Next
<1>3. CASE UNCHANGED vars
  BY <1>3 DEF vars, Arch!vars, ResumePc, fetched, reg_file, data_wb
<1> QED
  BY <1>1, <1>2, <1>3 DEF Next

LEMMA InitRefines == Init => Arch!Init
<1> SUFFICES ASSUME Init PROVE Arch!Init
  OBVIOUS
<1>1. prog \in [Arch!Slots -> Arch!Instr]
  BY HartAssumption
  DEF Init, Arch!Slots, Slots, Arch!Instr, Instr, Arch!Opcodes, Opcodes,
      Arch!CsrNames, CsrNames, Arch!Word, Word
<1>2. ResumePc = 0
  BY DEF Init, ResumePc, DecodeBubble, ExecBubble, fetched
<1>3. reg_file = [r \in Regs |-> 0]
  BY DEF Init, reg_file, MemEmpty
<1>4. csr = Arch!CsrReset
  BY DEF Init, CsrReset, Arch!CsrReset
<1> QED
  BY <1>1, <1>2, <1>3, <1>4 DEF Init, Arch!Init

(***************************************************************************)
(* The circuit implements the sequential machine: for every program that   *)
(* does without a jump between two csr instructions, every interrupt and   *)
(* every reset, software cannot tell the pipeline from a hart that         *)
(* executes one instruction at a time.                                     *)
(***************************************************************************)
THEOREM PipelineImplementsISA ==
  Spec /\ ~JumpBetweenCsr(prog) => ImplementsISA
<1>1. TypeOK /\ ProgramOrder /\ [Next]_vars => [Arch!Next]_(Arch!vars)
  BY StepRefines
<1> QED
  BY <1>1, InitRefines, ProgramOrderKept, TypeCorrect, PTL
  DEF Spec, ImplementsISA, Arch!Spec
=============================================================================
