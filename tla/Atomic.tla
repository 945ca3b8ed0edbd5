------------------------------- MODULE Atomic -------------------------------
(***************************************************************************)
(* The operations of atomic.h on a word that tasks and handlers share.     *)
(*                                                                         *)
(* They are to run with interrupts disabled, by ATOMIC_ENTER_CRITICAL,     *)
(* which is portSET_INTERRUPT_MASK_FROM_ISR: in this port that does        *)
(* nothing.  So here a task may be interrupted at each access to the word: *)
(* a compare and swap, a swap or a nand reads it once, the others read it  *)
(* twice (ulCurrent = *pulAddend; *pulAddend += ulCount), before the write.*)
(***************************************************************************)
EXTENDS Port

CONSTANT WordMod     \* a word counts modulo WordMod, a power of two

ASSUME AtomicAssumption == WordMod \in Nat \ {0} /\ Word = 0 .. (WordMod - 1)

VARIABLE word

atomicVars == <<portVars, word>>

Bits(v) == {i \in 0 .. (WordMod - 1) : (v \div 2 ^ i) % 2 = 1}
Differ(S, T) == (S \ T) \cup (T \ S)
WithBits(S) == CHOOSE v \in Word : Bits(v) = S

\* The word that is written in the place of v.
Atomic_CompareAndSwap_u32(v, exchange, comparand) == IF v = comparand THEN exchange ELSE v
Atomic_SwapPointers_p32(v, exchange) == exchange
Atomic_CompareAndSwapPointers_p32(v, exchange, comparand) == IF v = comparand THEN exchange ELSE v
Atomic_Add_u32(v, n)      == (v + n) % WordMod
Atomic_Subtract_u32(v, n) == (v - n) % WordMod
Atomic_Increment_u32(v)   == (v + 1) % WordMod
Atomic_Decrement_u32(v)   == (v - 1) % WordMod
Atomic_OR_u32(v, n)       == WithBits(Bits(v) \cup Bits(n))
Atomic_AND_u32(v, n)      == WithBits(Bits(v) \cap Bits(n))
Atomic_NAND_u32(v, n)     == WordMod - 1 - Atomic_AND_u32(v, n)
Atomic_XOR_u32(v, n)      == WithBits(Differ(Bits(v), Bits(n)))

\* What the operations that read once, and those that read twice, can write.
ReadOnce(v) ==
  {w \in Word : \E x, y \in Word :
     w \in {Atomic_CompareAndSwap_u32(v, x, y), Atomic_SwapPointers_p32(v, x),
            Atomic_CompareAndSwapPointers_p32(v, x, y), Atomic_NAND_u32(v, x)}}

ReadTwice(v) ==
  {w \in Word : \E n \in Word :
     w \in {Atomic_Add_u32(v, n), Atomic_Subtract_u32(v, n),
            Atomic_Increment_u32(v), Atomic_Decrement_u32(v),
            Atomic_OR_u32(v, n), Atomic_AND_u32(v, n), Atomic_XOR_u32(v, n)}}

Same == UNCHANGED <<mstatus, uxCriticalNesting, yielded>>

\* The first read, in a critical section of the task or not.
Load(t) ==
  /\ TaskGoesOn(t, {"a"}, "read", [regs EXCEPT !.first = word])
  /\ Same /\ UNCHANGED word

LoadAgain(t) ==
  /\ TaskGoesOn(t, {"read"}, "read_again", [regs EXCEPT !.second = word])
  /\ Same /\ UNCHANGED word

Store(t) ==
  /\ \/ TaskGoesOn(t, {"read"}, "b", Cleared) /\ word' \in ReadOnce(regs.first)
     \/ TaskGoesOn(t, {"read_again"}, "b", Cleared) /\ word' \in ReadTwice(regs.second)
  /\ Same

\* A handler is not interrupted.
HandlerUpdates ==
  /\ code.at = "handle"
  /\ word' \in ReadOnce(word) \cup ReadTwice(word)
  /\ UNCHANGED portVars

AtomicInit == PortInit /\ word = 0

AtomicNext ==
  \/ PortNext /\ UNCHANGED word
  \/ HandlerUpdates
  \/ \E t \in Task : Load(t) \/ LoadAgain(t) \/ Store(t)

AtomicSpec == AtomicInit /\ [][AtomicNext]_atomicVars

-----------------------------------------------------------------------------
\* What has been read is still in the word when the operation goes on.
Undisturbed ==
  /\ code.at = "read" => regs.first = word
  /\ code.at = "read_again" => regs.first = word /\ regs.second = word

(***************************************************************************)
(* An operation of atomic.h that is called in a critical section, and not  *)
(* after a yield in it, writes the result for the value it read and        *)
(* returns, whatever handlers and other tasks do: no update is lost.       *)
(***************************************************************************)
AtomicWhenMasked ==
  code.of \in Task /\ uxCriticalNesting[code.of] > 0 /\ code.of \notin yielded => Undisturbed

(***************************************************************************)
(* "This file implements atomic functions by disabling interrupts          *)
(* globally" (atomic.h:32): so every operation of a task would be atomic.  *)
(***************************************************************************)
AtomicAnywhere == Undisturbed
=============================================================================
