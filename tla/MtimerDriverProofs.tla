------------------------- MODULE MtimerDriverProofs -------------------------
(***************************************************************************)
(* The timer driver of the bare-metal example, for every width of a half,  *)
(* every period below a wrap of it, and every order in which the compiler  *)
(* has the halves read and written.                                        *)
(***************************************************************************)
EXTENDS MtimerDriver, Lemmas

(***************************************************************************)
(* Where the values are.  Of a 64-bit read one half is that of the first   *)
(* access and the other that of the second; of a 64-bit write the halves   *)
(* are those of the sum once they are written.  The counter is ahead of    *)
(* what was read of it, so that the sum does not wrap.                     *)
(***************************************************************************)
DriverTypes ==
  /\ {mtime, mtimecmp, count, first, last} \subseteq DoubleWord
  /\ at \in {"main", "read", "write", "enable", "loop"}
  /\ left \in {Halves, {"h"}, {"l"}}
  /\ left # Halves => at \in {"read", "write"}

ReadsOrdered ==
  /\ mtime.h <= LastHigh
  /\ Reached(last, first) /\ Reached(mtime, last)

HalvesRead ==
  /\ at = "read" /\ left # Halves => first = last
  /\ at = "read" /\ left = {"l"} => count.h = first.h
  /\ at = "read" /\ left = {"h"} => count.l = first.l
  /\ at \in {"write", "enable", "loop"} =>
       \/ count.h = first.h /\ count.l = last.l
       \/ count.l = first.l /\ count.h = last.h

HalvesWritten ==
  /\ at = "write" /\ left = {"l"} => mtimecmp.h = Plus(count, Period).h
  /\ at = "write" /\ left = {"h"} => mtimecmp.l = Plus(count, Period).l
  /\ Programmed => mtimecmp = Plus(count, Period)

DriverInv == DriverTypes /\ ReadsOrdered /\ HalvesRead /\ HalvesWritten

-----------------------------------------------------------------------------
\* Addition on the 64-bit values the timer reaches: it does not wrap.
LEMMA SumFacts ==
  ASSUME NEW t \in DoubleWord, t.h <= LastHigh, NEW n \in 0 .. (Half - 1)
  PROVE  /\ Plus(t, n) \in DoubleWord
         /\ Reached(Plus(t, n), t)
         /\ Plus(t, n).h * Half + Plus(t, n).l = t.h * Half + t.l + n
<1> DEFINE high == (t.h + (t.l + n) \div Half) % Half
           low == (t.l + n) % Half
<1>1. Half \in Nat /\ t.h \in Nat /\ t.l \in 0 .. (Half - 1) /\ t.h + 1 < Half
  BY TimerAssumption DEF DoubleWord, HalfWord
<1>2. Plus(t, n) = [h |-> high, l |-> low]
  BY DEF Plus
<1>3. /\ high \in 0 .. (Half - 1) /\ low \in 0 .. (Half - 1)
      /\ high = t.h \/ high = t.h + 1
      /\ high = t.h => low >= t.l
      /\ high * Half + low = t.h * Half + t.l + n
  BY <1>1, DigitSum, Zenon
<1> HIDE DEF high, low
<1> QED
  BY <1>1, <1>2, <1>3 DEF DoubleWord, HalfWord, Reached

\* An edge, with the access to the timer if any.
LEMMA EdgeFacts ==
  ASSUME DriverInv, NEW we \in BOOLEAN, NEW ra, NEW data \in HalfWord,
         Edge(we, ra, data), we => ra \in {"mtimecmp", "hmtimecmp"}
  PROVE  /\ mtime' \in DoubleWord /\ mtime'.h <= LastHigh
         /\ \A t \in DoubleWord : Reached(mtime, t) => Reached(mtime', t)
         /\ ~we => mtimecmp' = mtimecmp
         /\ we /\ ra = "hmtimecmp" => mtimecmp' = [h |-> data, l |-> mtimecmp.l]
         /\ we /\ ra = "mtimecmp" => mtimecmp' = [h |-> mtimecmp.h, l |-> data]
         /\ mtimecmp' \in DoubleWord
<1>1. mtime \in DoubleWord /\ mtimecmp \in DoubleWord
  BY DEF DriverInv, DriverTypes
<1>2. mtime' = Plus(mtime, 1) /\ mtime.h < LastHigh
  BY DEF Edge
<1>3. 1 \in 0 .. (Half - 1) /\ mtime.h <= LastHigh
  BY <1>1, <1>2, TimerAssumption DEF DoubleWord, HalfWord
<1>4. mtime' \in DoubleWord /\ Reached(mtime', mtime) /\ mtime'.h \in {mtime.h, mtime.h + 1}
  <2>1. mtime' \in DoubleWord /\ Reached(mtime', mtime)
    BY <1>1, <1>2, <1>3, SumFacts
  <2>2. mtime'.h \in {mtime.h, mtime.h + 1}
    <3> DEFINE high == (mtime.h + (mtime.l + 1) \div Half) % Half
    <3>1. /\ Half \in Nat /\ mtime.h \in Nat /\ mtime.l \in 0 .. (Half - 1)
          /\ mtime.h + 1 < Half
      BY <1>1, <1>3, TimerAssumption DEF DoubleWord, HalfWord
    <3>2. high = mtime.h \/ high = mtime.h + 1
      BY <1>3, <3>1, DigitSum, Zenon
    <3>3. mtime'.h = high
      BY <1>2 DEF Plus
    <3> QED
      BY <3>2, <3>3
  <2> QED
    BY <2>1, <2>2
<1>5. \A t \in DoubleWord : Reached(mtime, t) => Reached(mtime', t)
  BY <1>1, <1>4 DEF Reached, DoubleWord, HalfWord
<1>6. /\ ~we => mtimecmp' = mtimecmp
      /\ we /\ ra = "hmtimecmp" => mtimecmp' = [mtimecmp EXCEPT !.h = data]
      /\ we /\ ra = "mtimecmp" => mtimecmp' = [mtimecmp EXCEPT !.l = data]
  BY DEF Edge
<1>7. mtime'.h <= LastHigh
  BY <1>1, <1>2, <1>4, TimerAssumption DEF DoubleWord, HalfWord
<1>8. /\ [mtimecmp EXCEPT !.h = data] = [h |-> data, l |-> mtimecmp.l]
      /\ [mtimecmp EXCEPT !.l = data] = [h |-> mtimecmp.h, l |-> data]
      /\ [h |-> data, l |-> mtimecmp.l] \in DoubleWord
      /\ [h |-> mtimecmp.h, l |-> data] \in DoubleWord
  BY <1>1 DEF DoubleWord
<1>9. mtimecmp' \in DoubleWord
  BY <1>1, <1>6, <1>8
<1> QED
  BY <1>4, <1>5, <1>6, <1>7, <1>8, <1>9

LEMMA QuietFacts ==
  ASSUME DriverInv, NoAccess \/ (\E k \in left : Read(TimeHalf(k)))
  PROVE  /\ mtime' \in DoubleWord /\ mtime'.h <= LastHigh
         /\ \A t \in DoubleWord : Reached(mtime, t) => Reached(mtime', t)
         /\ mtimecmp' = mtimecmp
<1>1. PICK ra : Edge(FALSE, ra, 0)
  BY Zenon DEF NoAccess, Read
<1>2. 0 \in HalfWord
  BY TimerAssumption DEF HalfWord
<1> QED
  BY <1>1, <1>2, EdgeFacts, Zenon

-----------------------------------------------------------------------------
\* The counter starts at zero, and nothing has been read.
LEMMA DriverInitInv == DriverInit => DriverInv
<1>1. Zero \in DoubleWord /\ Ones \in DoubleWord
  BY TimerAssumption DEF Zero, Ones, DoubleWord, HalfWord
<1> QED
  BY <1>1, TimerAssumption
  DEF DriverInit, DriverInv, DriverTypes, ReadsOrdered, HalvesRead, HalvesWritten,
      Halves, Programmed, Reached, Zero, Ones

LEMMA DriverStep ==
  ASSUME DriverInv, [DriverNext]_driverVars
  PROVE  DriverInv'
<1> USE DEF DriverInv
<1>0. "h" # "l" /\ Halves # {"h"} /\ Halves # {"l"} /\ {"h"} # {"l"}
  BY DEF Halves
<1>1. CASE Idle
  BY <1>1, QuietFacts
  DEF Idle, DriverTypes, ReadsOrdered, HalvesRead, HalvesWritten, Programmed
<1>2. CASE Begin
  BY <1>2, QuietFacts, <1>0
  DEF Begin, DriverTypes, ReadsOrdered, HalvesRead, HalvesWritten, Programmed
<1>3. CASE ReadHalf
  <2>1. PICK k \in left :
          /\ at = "read" /\ Read(TimeHalf(k))
          /\ count' = [count EXCEPT ![k] = mtime'[k]]
          /\ IF left = Halves
             THEN at' = at /\ left' = left \ {k} /\ first' = mtime' /\ last' = mtime'
             ELSE at' = "write" /\ left' = Halves /\ first' = first /\ last' = mtime'
    BY <1>3 DEF ReadHalf
  <2>2. /\ mtime' \in DoubleWord /\ mtime'.h <= LastHigh
        /\ \A t \in DoubleWord : Reached(mtime, t) => Reached(mtime', t)
        /\ mtimecmp' = mtimecmp
    BY <2>1, QuietFacts
  <2>3. k \in {"h", "l"}
    BY <2>1 DEF DriverTypes, Halves
  <2>4. /\ count' \in DoubleWord
        /\ k = "h" => count'.h = mtime'.h /\ count'.l = count.l
        /\ k = "l" => count'.l = mtime'.l /\ count'.h = count.h
    BY <2>1, <2>2, <2>3 DEF DriverTypes, DoubleWord
  <2>5. Reached(mtime', mtime')
    BY <2>2 DEF Reached, DoubleWord, HalfWord
  <2>6. CASE left = Halves
    <3>1. left' = (IF k = "h" THEN {"l"} ELSE {"h"})
      BY <2>1, <2>3, <2>6 DEF Halves
    <3> QED
      BY <1>0, <2>1, <2>2, <2>3, <2>4, <2>5, <2>6, <3>1
      DEF DriverTypes, ReadsOrdered, HalvesRead, HalvesWritten, Programmed
  <2>7. CASE left # Halves
    <3>1. /\ at' = "write" /\ left' = Halves /\ first' = first /\ last' = mtime'
          /\ first = last /\ left = {k}
      BY <2>1, <2>7 DEF DriverTypes, HalvesRead
    <3>2. Reached(mtime', first)
      BY <2>2, <3>1 DEF DriverTypes, ReadsOrdered
    <3>3. \/ count'.h = first'.h /\ count'.l = last'.l
          \/ count'.l = first'.l /\ count'.h = last'.h
      BY <2>1, <2>3, <2>4, <3>1 DEF HalvesRead
    <3> QED
      BY <1>0, <2>2, <2>4, <2>5, <3>1, <3>2, <3>3
      DEF DriverTypes, ReadsOrdered, HalvesRead, HalvesWritten, Programmed
  <2> QED
    BY <2>6, <2>7
<1>4. CASE WriteHalf
  <2>1. PICK k \in left :
          /\ at = "write" /\ Write(CmpHalf(k), Plus(count, Period)[k])
          /\ IF left = Halves
             THEN at' = at /\ left' = left \ {k}
             ELSE at' = (IF inIrq THEN "loop" ELSE "enable") /\ left' = Halves
    BY <1>4 DEF WriteHalf
  <2>2. UNCHANGED <<count, first, last>>
    BY <1>4 DEF WriteHalf
  <2>3. k \in {"h", "l"}
    BY <2>1 DEF DriverTypes, Halves
  <2>4. Plus(count, Period) \in DoubleWord
    <3>1. count \in DoubleWord /\ count.h <= LastHigh
      BY <2>1, TimerAssumption
      DEF DriverTypes, ReadsOrdered, HalvesRead, Reached, DoubleWord, HalfWord
    <3> QED
      BY <3>1, PeriodAssumption, SumFacts
  <2>5. Plus(count, Period)[k] \in HalfWord
    BY <2>3, <2>4 DEF DoubleWord
  <2>6. /\ mtime' \in DoubleWord /\ mtime'.h <= LastHigh
        /\ \A t \in DoubleWord : Reached(mtime, t) => Reached(mtime', t)
        /\ mtimecmp' \in DoubleWord
        /\ k = "h" => mtimecmp' = [h |-> Plus(count, Period).h, l |-> mtimecmp.l]
        /\ k = "l" => mtimecmp' = [h |-> mtimecmp.h, l |-> Plus(count, Period).l]
    <3>1. Edge(TRUE, CmpHalf(k), Plus(count, Period)[k])
      BY <2>1 DEF Write
    <3>2. /\ CmpHalf(k) \in {"mtimecmp", "hmtimecmp"}
          /\ k = "h" => CmpHalf(k) = "hmtimecmp"
          /\ k = "l" => CmpHalf(k) = "mtimecmp"
      BY <2>3 DEF CmpHalf
    <3> HIDE DEF DriverInv
    <3> QED
      BY <2>5, <3>1, <3>2, EdgeFacts, Zenon
  <2>7. CASE left = Halves
    <3>1. left' = (IF k = "h" THEN {"l"} ELSE {"h"}) /\ at' = "write"
      BY <2>1, <2>3, <2>7 DEF Halves
    <3> QED
      BY <1>0, <2>1, <2>2, <2>3, <2>6, <2>7, <3>1
      DEF DriverTypes, ReadsOrdered, HalvesRead, HalvesWritten, Programmed
  <2>8. CASE left # Halves
    <3>1. at' \in {"loop", "enable"} /\ left' = Halves /\ left = {k}
      BY <2>1, <2>8 DEF DriverTypes
    <3>2. mtimecmp' = Plus(count, Period)
      BY <2>1, <2>3, <2>4, <2>6, <3>1 DEF HalvesWritten, DoubleWord
    <3> QED
      BY <1>0, <2>1, <2>2, <2>6, <3>1, <3>2
      DEF DriverTypes, ReadsOrdered, HalvesRead, HalvesWritten, Programmed
  <2> QED
    BY <2>7, <2>8
<1>5. CASE Enable
  <2>1. left = Halves
    BY <1>5 DEF Enable, DriverTypes
  <2> QED
    BY <1>5, <2>1, QuietFacts
    DEF Enable, DriverTypes, ReadsOrdered, HalvesRead, HalvesWritten, Programmed
<1>6. CASE UNCHANGED driverVars
  BY <1>6
  DEF driverVars, DriverTypes, ReadsOrdered, HalvesRead, HalvesWritten, Programmed, Reached
<1> QED
  BY <1>1, <1>2, <1>3, <1>4, <1>5, <1>6 DEF DriverNext

-----------------------------------------------------------------------------
\* Once programmed, the compare register is a period after what was read; the
\* instants of the two reads are in order.
LEMMA ProgrammedFacts ==
  ASSUME DriverInv, Programmed
  PROVE  /\ Value(mtimecmp) = Value(count) + Period
         /\ {Value(first), Value(last), Value(count)} \subseteq Nat
         /\ Value(first) <= Value(last)
<1>1. /\ first \in DoubleWord /\ last \in DoubleWord /\ count \in DoubleWord
      /\ count.h <= LastHigh /\ mtimecmp = Plus(count, Period)
  BY TimerAssumption
  DEF DriverInv, DriverTypes, ReadsOrdered, HalvesRead, HalvesWritten, Programmed,
      Reached, DoubleWord, HalfWord
<1>2. /\ first.h \in Nat /\ first.l \in 0 .. (Half - 1) /\ Half \in Nat
      /\ last.h \in Nat /\ last.l \in Nat /\ count.h \in Nat /\ count.l \in Nat
  BY <1>1, TimerAssumption DEF DoubleWord, HalfWord
<1>3. first.h * Half \in Nat /\ last.h * Half \in Nat /\ count.h * Half \in Nat
  BY <1>2
<1>4. first.h * Half + first.l <= last.h * Half + last.l
  <2>1. last.h > first.h \/ (last.h = first.h /\ last.l >= first.l)
    BY DEF DriverInv, ReadsOrdered, Reached
  <2>2. last.h * Half + last.l >= first.h * Half + first.l
    BY <1>2, <2>1, DigitOrder, Zenon
  <2> QED
    BY <1>2, <1>3, <2>2
<1>5. mtimecmp.h * Half + mtimecmp.l = count.h * Half + count.l + Period
  BY <1>1, PeriodAssumption, SumFacts
<1> QED
  BY <1>2, <1>3, <1>4, <1>5 DEF Value

LEMMA DriverInvariant == DriverSpec => []DriverInv
<1>1. DriverInit => DriverInv
  BY DriverInitInv
<1>2. DriverInv /\ [DriverNext]_driverVars => DriverInv'
  BY DriverStep
<1> QED
  BY <1>1, <1>2, PTL DEF DriverSpec

(***************************************************************************)
(* set_mtimer_period and the handler of the bare-metal example keep the    *)
(* period when the high half does not move between the two reads of the    *)
(* counter, and miss it by less than a wrap of the low half when it does.  *)
(***************************************************************************)
THEOREM DriverPeriodKept == DriverSpec => []DriverPeriod
<1>1. ASSUME DriverInv PROVE DriverPeriod
  <2>1. SUFFICES ASSUME Programmed
                 PROVE  /\ first.h = last.h =>
                             \E t \in Value(first) .. Value(last) :
                               Value(mtimecmp) = t + Period
                        /\ \E t \in Value(first) .. Value(last) :
                             /\ Value(mtimecmp) < t + Period + Half
                             /\ Value(mtimecmp) > t + Period - Half
    BY DEF DriverPeriod, PeriodKeptWithoutCarry, PeriodKept, ErrorBounded
  <2>2. /\ Value(mtimecmp) = Value(count) + Period
        /\ Value(first) \in Nat /\ Value(last) \in Nat /\ Value(count) \in Nat
        /\ Value(first) <= Value(last)
    BY <1>1, <2>1, ProgrammedFacts
  <2>3. \/ count.h = first.h /\ count.l = last.l
        \/ count.l = first.l /\ count.h = last.h
    BY <1>1, <2>1 DEF DriverInv, HalvesRead, Programmed
  <2>4. /\ first.l \in 0 .. (Half - 1) /\ last.l \in 0 .. (Half - 1)
        /\ first.h \in Nat /\ last.h \in Nat /\ Half \in Nat
    BY <1>1, TimerAssumption DEF DriverInv, DriverTypes, DoubleWord, HalfWord
  <2>5. first.h * Half \in Nat /\ last.h * Half \in Nat
    BY <2>4
  <2>6. \/ count.h = first.h /\ Value(count) = Value(first) + last.l - first.l
        \/ count.h = last.h /\ Value(count) = Value(last) + first.l - last.l
    BY <2>3, <2>4, <2>5 DEF Value
  <2>7. first.h = last.h => Value(count) \in {Value(first), Value(last)}
    BY <2>3, <2>4, <2>5 DEF Value
  <2> QED
    BY <2>2, <2>4, <2>6, <2>7, PeriodAssumption
<1> QED
  BY <1>1, DriverInvariant, PTL
=============================================================================
