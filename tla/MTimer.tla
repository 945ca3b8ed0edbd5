------------------------------- MODULE MTimer -------------------------------
(***************************************************************************)
(* MTIMER_RISC: a 64-bit counter and a 64-bit compare register, which the  *)
(* bus reads and writes in halves of a word, and a level interrupt.  The   *)
(* modules that extend this one are its clients: each of their steps is    *)
(* one edge of the clock, with or without an access of theirs on the bus.  *)
(***************************************************************************)
EXTENDS Integers

CONSTANTS
  Half,      \* 2^32: the values of a half
  LastHigh   \* the high half at which the models stop counting

\* The counter is never near its last value: at 1 MHz it takes 584542 years.
ASSUME TimerAssumption ==
  /\ Half \in Nat
  /\ LastHigh \in Nat \ {0}
  /\ LastHigh + 3 < Half

VARIABLES mtime, mtimecmp

timer == <<mtime, mtimecmp>>

HalfWord == 0 .. (Half - 1)

DoubleWord == [h : HalfWord, l : HalfWord]

Value(t) == t.h * Half + t.l

\* The order of 64-bit values.
Reached(t, c) == t.h > c.h \/ (t.h = c.h /\ t.l >= c.l)

\* Addition of a number below Half, with the carry into the high half.
PlusNoCarry(t, n) == [t EXCEPT !.l = (t.l + n) % Half]   \* slip: the carry is lost
Plus(t, n) ==
  [h |-> (t.h + (t.l + n) \div Half) % Half, l |-> (t.l + n) % Half]

irq == Reached(mtime, mtimecmp)

-----------------------------------------------------------------------------
Zero == [h |-> 0, l |-> 0]
Ones == [h |-> Half - 1, l |-> Half - 1]

ResetTimer == mtime' = Zero /\ mtimecmp' = Ones

(***************************************************************************)
(* A rising edge.  The counter counts unless the bus writes it.  A read    *)
(* is answered in the cycle after the edge, from the registers as they are *)
(* then: its value is mtime'.h, say.                                       *)
(***************************************************************************)
Edge(we, ra, data) ==
  /\ mtime.h < LastHigh
  /\ mtime' = IF we /\ ra = "mtime" THEN [mtime EXCEPT !.l = data]
              ELSE IF we /\ ra = "hmtime" THEN [mtime EXCEPT !.h = data]
              ELSE Plus(mtime, 1)
  /\ mtimecmp' = IF we /\ ra = "mtimecmp" THEN [mtimecmp EXCEPT !.l = data]
                 ELSE IF we /\ ra = "hmtimecmp" THEN [mtimecmp EXCEPT !.h = data]
                 ELSE mtimecmp

NoAccess == Edge(FALSE, "none", 0)
Read(ra) == Edge(FALSE, ra, 0)
Write(ra, data) == Edge(TRUE, ra, data)
=============================================================================
