----------------------------- MODULE UnitsCheck -----------------------------
(***************************************************************************)
(* The arithmetic blocks against the RISC-V instruction set, on every pair *)
(* of operands.  The operands sweep op1 for each op2; the properties are   *)
(* the equations a program relies on, never the definitions again.         *)
(***************************************************************************)
EXTENDS FuncUnits

VARIABLES op1, op2

vars == <<op1, op2>>

Operands == 0 .. (Modulus - 1)

Init == op1 = 0 /\ op2 \in Operands

Next == op1 < Modulus - 1 /\ op1' = op1 + 1 /\ UNCHANGED op2

Spec == Init /\ [][Next]_vars

-----------------------------------------------------------------------------
TypeOK ==
  /\ vars \in Operands \X Operands
  /\ \A m \in 0 .. 9 : AluRisc(m, op1, op2) \in Operands
  /\ \A m \in 0 .. 7 : MulDivRisc(m, op1, op2) \in Operands

(***************************************************************************)
(* div, divu, rem and remu (modes 4 to 7): the quotient and the remainder  *)
(* give the dividend back, the remainder is smaller than the divisor and   *)
(* has the dividend's sign, and the two cases without a quotient (divisor  *)
(* zero, overflow) return what the instruction set fixes (MULDIV_RISC).    *)
(***************************************************************************)
DivisionLaws ==
  LET q == MulDivRisc(4, op1, op2)   r == MulDivRisc(6, op1, op2)
      qu == MulDivRisc(5, op1, op2)  ru == MulDivRisc(7, op1, op2)
  IN /\ Wrap(q * op2 + r) = op1
     /\ Wrap(qu * op2 + ru) = op1
     /\ op2 # 0 =>
          /\ Magnitude(Signed(r)) < Magnitude(Signed(op2))
          /\ ru < op2
          /\ r = 0 \/ (Signed(r) < 0) = (Signed(op1) < 0)
     /\ op2 = 0 => q = Modulus - 1 /\ qu = Modulus - 1
     /\ (Signed(op1) = -(Modulus \div 2) /\ Signed(op2) = -1) => q = op1 /\ r = 0

(***************************************************************************)
(* The high products differ from mulhu by the operands that are read as    *)
(* negative, and the low product is the same for all (MULDIV_RISC: smul,   *)
(* sumul with its 33-bit operands, umul).                                  *)
(***************************************************************************)
ProductLaws ==
  LET Less(p, w, other) == IF Signed(w) < 0 THEN Wrap(p - other) ELSE p
      hu  == MulDivRisc(3, op1, op2)
      hsu == MulDivRisc(2, op1, op2)
      h   == MulDivRisc(1, op1, op2)
  IN /\ hu * Modulus + MulDivRisc(0, op1, op2) = op1 * op2
     /\ hsu = Less(hu, op1, op2)
     /\ h = Less(hsu, op2, op1)

(***************************************************************************)
(* A branch is taken exactly when the comparison instruction of the same   *)
(* kind gives 1, its opposite when it gives 0, and signed order differs    *)
(* from unsigned order by the sign bits (ALU_RISC and COMPARATOR_RISC      *)
(* compute the order separately).                                          *)
(***************************************************************************)
OrderLaws ==
  LET slt == AluRisc(2, op1, op2)  sltu == AluRisc(3, op1, op2)
  IN /\ ComparatorRisc(4, op1, op2) <=> slt = 1
     /\ ComparatorRisc(5, op1, op2) <=> slt = 0
     /\ ComparatorRisc(6, op1, op2) <=> sltu = 1
     /\ ComparatorRisc(7, op1, op2) <=> sltu = 0
     /\ (slt # sltu) <=> (AluRisc(4, op1, op2) >= Modulus \div 2)
     /\ ComparatorRisc(0, op1, op2) <=> AluRisc(9, op1, op2) = 0
     /\ ComparatorRisc(1, op1, op2) <=> ~ComparatorRisc(0, op1, op2)

(***************************************************************************)
(* Subtraction adds the two's complement, the logical operations satisfy   *)
(* or + and = sum, and the arithmetic shift is the logical one with the    *)
(* sign bit brought down (ALU_RISC).                                       *)
(***************************************************************************)
AluLaws ==
  LET Inverted(w) == AluRisc(4, w, Modulus - 1)
      sra == AluRisc(8, op1, op2)  srl == AluRisc(5, op1, op2)
  IN /\ AluRisc(9, op1, op2) = AluRisc(0, AluRisc(0, op1, Inverted(op2)), 1)
     /\ AluRisc(6, op1, op2) + AluRisc(7, op1, op2) = op1 + op2
     /\ AluRisc(4, op1, op2) = AluRisc(6, op1, op2) - AluRisc(7, op1, op2)
     /\ sra = IF Signed(op1) >= 0 THEN srl
              ELSE Inverted(AluRisc(5, Inverted(op1), op2))
     /\ AluRisc(5, AluRisc(1, srl, op2), op2) = srl
     /\ ClearBits(op1, op2) = AluRisc(7, Inverted(op1), op2)

(***************************************************************************)
(* What the three units promise each other and the programs that use them, *)
(* for every pair of operands.                                             *)
(***************************************************************************)
UnitLaws == TypeOK /\ DivisionLaws /\ ProductLaws /\ OrderLaws /\ AluLaws
=============================================================================
