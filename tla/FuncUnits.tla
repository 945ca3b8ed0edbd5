------------------------------ MODULE FuncUnits ------------------------------
(***************************************************************************)
(* The combinational blocks of the core and of its bus: ALU_RISC,          *)
(* COMPARATOR_RISC, MULDIV_RISC, the byte lanes of RAM_RISC (IO_REG has    *)
(* the same ones) and the load formatting, on words of four bytes of       *)
(* ByteBits bits.  They are the operators the models give the constants of *)
(* Hart.tla, and UnitsCheck.tla checks them against the arithmetic of the  *)
(* RISC-V instruction set.                                                 *)
(***************************************************************************)
EXTENDS Integers, Bitwise

CONSTANT ByteBits   \* 8 in the code

Width   == 4 * ByteBits
ByteMod == 2 ^ ByteBits
HalfMod == 2 ^ (2 * ByteBits)
Modulus == 2 ^ Width

\* signed() and the truncation that std_logic_vector() of a signed does.
SignedOf(w, mod) == IF w >= mod \div 2 THEN w - mod ELSE w
Signed(w) == SignedOf(w, Modulus)
Wrap(x)   == x % Modulus

AsBit(b) == IF b THEN 1 ELSE 0

\* to_integer(unsigned(op2(4 downto 0)))
ShiftAmount(w) == w % Width

AluRisc(mode, op1, op2) ==
  CASE mode = 0 -> Wrap(op1 + op2)
    [] mode = 1 -> Wrap(op1 * 2 ^ ShiftAmount(op2))
    [] mode = 2 -> AsBit(Signed(op1) < Signed(op2))
    [] mode = 3 -> AsBit(op1 < op2)
    [] mode = 4 -> op1 ^^ op2
    [] mode = 5 -> op1 \div 2 ^ ShiftAmount(op2)
    [] mode = 6 -> op1 | op2
    [] mode = 7 -> op1 & op2
    [] mode = 8 -> Wrap(Signed(op1) \div 2 ^ ShiftAmount(op2))
    [] mode = 9 -> Wrap(op1 - op2)
    [] OTHER    -> 0

\* The modes no branch has (2 and 3) fall through to geu.
ComparatorRisc(mode, op1, op2) ==
  CASE mode = 0 -> op1 = op2
    [] mode = 1 -> op1 # op2
    [] mode = 4 -> Signed(op1) < Signed(op2)
    [] mode = 5 -> Signed(op1) >= Signed(op2)
    [] mode = 6 -> op1 < op2
    [] OTHER    -> op1 >= op2

\* "/" and "rem" of numeric_std truncate towards zero.
Magnitude(x) == IF x < 0 THEN -x ELSE x
Quotient(x, y) ==
  LET q == Magnitude(x) \div Magnitude(y) IN IF (x < 0) # (y < 0) THEN -q ELSE q
Remainder(x, y) == x - y * Quotient(x, y)

HighPartUnsigned(p) == Wrap(Magnitude(p) \div Modulus)   \* slip: the sign is lost
HighPart(p) == Wrap(p \div Modulus)

MulDivRisc(mode, op1, op2) ==
  CASE mode = 0 -> Wrap(Signed(op1) * Signed(op2))
    [] mode = 1 -> HighPart(Signed(op1) * Signed(op2))
    [] mode = 2 -> HighPart(Signed(op1) * op2)
    [] mode = 3 -> HighPart(op1 * op2)
    [] mode = 4 -> IF op2 # 0 THEN Wrap(Quotient(Signed(op1), Signed(op2))) ELSE Wrap(-1)
    [] mode = 5 -> IF op2 # 0 THEN op1 \div op2 ELSE Wrap(-1)
    [] mode = 6 -> IF op2 # 0 THEN Wrap(Remainder(Signed(op1), Signed(op2))) ELSE op1
    [] OTHER    -> IF op2 # 0 THEN op1 % op2 ELSE op1

OrBits(a, b)    == a | b
ClearBits(a, b) == b - (a & b)

-----------------------------------------------------------------------------
(***************************************************************************)
(* The bus.  A mode is funct3: its two low bits give the size (byte, half, *)
(* word), bit 2 asks for no sign extension.                                *)
(***************************************************************************)
Lanes == 0 .. 3

ByteAt(w, k) == (w \div ByteMod ^ k) % ByteMod

\* we_0 .. we_3
LaneWe(mode, byte, k) ==
  \/ mode % 4 = 0 /\ byte = k
  \/ mode % 4 = 1 /\ byte \in {0, 2} /\ k \in {byte, byte + 1}
  \/ mode % 4 = 2

\* data_in_0 .. data_in_3: the byte of the written data a lane is given.
\* slip: a half is not moved to the upper lanes
LaneDataUnmoved(mode, k, d) ==
  IF mode % 4 = 0 THEN ByteAt(d, 0) ELSE ByteAt(d, k)
LaneData(mode, k, d) ==
  CASE mode % 4 = 0 -> ByteAt(d, 0)
    [] mode % 4 = 1 -> ByteAt(d, k % 2)
    [] OTHER        -> ByteAt(d, k)

Joined(lane) ==
  lane[0] + lane[1] * ByteMod + lane[2] * ByteMod ^ 2 + lane[3] * ByteMod ^ 3

StoreWord(mode, byte, w, d) ==
  Joined([k \in Lanes |-> IF LaneWe(mode, byte, k) THEN LaneData(mode, k, d)
                          ELSE ByteAt(w, k)])

unsg_byte(byte, w) == ByteAt(w, byte)
unsg_half(byte, w) == IF byte < 2 THEN w % HalfMod ELSE w \div HalfMod

LoadWord(mode, byte, w) ==
  CASE mode = 0 -> Wrap(SignedOf(unsg_byte(byte, w), ByteMod))
    [] mode = 4 -> unsg_byte(byte, w)
    [] mode = 1 -> Wrap(SignedOf(unsg_half(byte, w), HalfMod))
    [] mode = 5 -> unsg_half(byte, w)
    [] OTHER    -> w
=============================================================================
