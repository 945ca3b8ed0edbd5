------------------------------ MODULE ByteLanes ------------------------------
(***************************************************************************)
(* One word of RAM_RISC (or an IO_REG) on the bus: four byte banks written *)
(* under their own enables, read on every edge, and the load formatting    *)
(* that works a cycle later from the saved size and byte offset.           *)
(***************************************************************************)
EXTENDS FuncUnits

CONSTANT Samples   \* the words software stores

VARIABLES
  ram,         \* the four bytes, as a word
  lanes,       \* data_out_0 .. data_out_3, as a word
  saved_mode,
  saved_byte,
  \* what software is entitled to: the bytes it stored, and the bytes that
  \* were there when the access in progress was put on the bus
  bytes,
  before

vars == <<ram, lanes, saved_mode, saved_byte, bytes, before>>

Sizes == {0, 1, 2, 4, 5}

\* The core raises an exception on the others and never puts them on the bus.
AlignedAccess(mode, byte) ==
  CASE mode % 4 = 0 -> TRUE
    [] mode % 4 = 1 -> byte % 2 = 0
    [] OTHER        -> byte = 0

Span(mode) == CASE mode % 4 = 0 -> 1 [] mode % 4 = 1 -> 2 [] OTHER -> 4

Init ==
  /\ ram = 0 /\ lanes = 0
  /\ saved_mode = 0 /\ saved_byte = 0
  /\ bytes = [k \in Lanes |-> 0] /\ before = bytes

\* Every edge reads the banks as they were before it, stores included.
Sample(mode, byte) ==
  /\ lanes' = ram
  /\ saved_mode' = mode
  /\ saved_byte' = byte
  /\ before' = bytes

Load(mode, byte) ==
  /\ AlignedAccess(mode, byte)
  /\ Sample(mode, byte)
  /\ UNCHANGED <<ram, bytes>>

Store(mode, byte, d) ==
  /\ mode < 3
  /\ AlignedAccess(mode, byte)
  /\ Sample(mode, byte)
  /\ ram' = StoreWord(mode, byte, ram, d)
  /\ bytes' = [k \in Lanes |-> IF k \in byte .. (byte + Span(mode) - 1)
                               THEN ByteAt(d, k - byte) ELSE bytes[k]]

Next ==
  \E mode \in Sizes, byte \in Lanes :
    \/ Load(mode, byte)
    \/ \E d \in Samples : Store(mode, byte, d)

Spec == Init /\ [][Next]_vars

-----------------------------------------------------------------------------
TypeOK ==
  /\ {ram, lanes} \subseteq 0 .. (Modulus - 1)
  /\ saved_mode \in Sizes /\ saved_byte \in Lanes
  /\ {bytes, before} \subseteq [Lanes -> 0 .. (ByteMod - 1)]

\* The little-endian value of the bytes an access spans, extended.
ReadBack ==
  LET n == Span(saved_mode)
      v == IF n = 1 THEN before[saved_byte]
           ELSE IF n = 2 THEN before[saved_byte] + ByteMod * before[saved_byte + 1]
           ELSE Joined(before)
      top == ByteMod ^ n
  IN IF saved_mode < 4 /\ v >= top \div 2 THEN v + Modulus - top ELSE v

(***************************************************************************)
(* The word on the bus in the cycle after an access is made of the last    *)
(* bytes stored before it, at its address and of its size, whatever mix of *)
(* sizes stored them and whatever is stored in the meantime.               *)
(***************************************************************************)
LoadsLastStored == LoadWord(saved_mode, saved_byte, lanes) = ReadBack
=============================================================================
