--------------------------- MODULE TickTimerProofs ---------------------------
(***************************************************************************)
(* Theorems about the FreeRTOS tick, for every width of a half, every      *)
(* period and every interleaving of the software with the counter.         *)
(***************************************************************************)
EXTENDS TickTimer, Lemmas

\* Addition on the 64-bit values the timer reaches: it does not wrap.
LEMMA PlusFacts ==
  ASSUME NEW t \in DoubleWord, t.h + 1 < Half, NEW n \in 0 .. (Half - 1)
  PROVE  /\ Plus(t, n) \in DoubleWord
         /\ Plus(t, n).h \in {t.h, t.h + 1}
         /\ Reached(Plus(t, n), t)
         /\ Value(Plus(t, n)) = Value(t) + n
<1> DEFINE high == (t.h + (t.l + n) \div Half) % Half
           low == (t.l + n) % Half
<1>1. Half \in Nat /\ t.h \in Nat /\ t.l \in 0 .. (Half - 1)
  BY TimerAssumption DEF DoubleWord, HalfWord
<1>2. Plus(t, n) = [h |-> high, l |-> low]
  BY DEF Plus
<1>3. /\ high \in 0 .. (Half - 1) /\ low \in 0 .. (Half - 1)
      /\ high = t.h \/ high = t.h + 1
      /\ high = t.h => low >= t.l
      /\ high * Half + low = t.h * Half + t.l + n
  BY <1>1, DigitSum, Zenon
<1> HIDE DEF high, low
<1>4. Value(Plus(t, n)) = Value(t) + n
  <2>1. Value(Plus(t, n)) = high * Half + low
    BY <1>2 DEF Value
  <2>2. t.h * Half \in Nat
    BY <1>1
  <2> QED
    BY <1>1, <1>3, <2>1, <2>2 DEF Value
<1> QED
  BY <1>1, <1>2, <1>3, <1>4 DEF DoubleWord, HalfWord, Reached

\* The order of 64-bit values is that of the numbers.
LEMMA ValueOrder ==
  ASSUME NEW a \in DoubleWord, NEW b \in DoubleWord
  PROVE  /\ Value(a) \in Nat
         /\ Reached(a, b) => Value(a) >= Value(b)
<1>1. /\ a.h \in Nat /\ b.h \in Nat /\ a.l \in Nat
      /\ b.l \in 0 .. (Half - 1) /\ Half \in Nat
  BY TimerAssumption DEF DoubleWord, HalfWord
<1>2. a.h * Half \in Nat
  BY <1>1
<1>3. Reached(a, b) => a.h * Half + a.l >= b.h * Half + b.l
  BY <1>1, DigitOrder DEF Reached
<1> QED
  BY <1>1, <1>2, <1>3 DEF Value

-----------------------------------------------------------------------------
(***************************************************************************)
(* Where each value is while the software moves it.  The counter is ahead  *)
(* of all of them but the next two ticks, so that no sum wraps.            *)
(***************************************************************************)
Ahead ==
  /\ mtime.h <= LastHigh
  /\ time.h <= mtime.h
  /\ due.h <= mtime.h + 1
  /\ pc \in {"arm", "arm_high", "arm_low"} => next.h <= mtime.h + 1

Placed ==
  /\ pc = "arm_low" => mtimecmp.h = next.h
  /\ pc = "arm_high" => mtimecmp.l = next.l
  /\ pc \in {"start", "task"} \cup Handler => next = Plus(due, Increment)
  /\ pc \in {"start", "task", "mask_low"} => mtimecmp = due
  /\ pc = "write_high" => mtimecmp = [h |-> due.h, l |-> Half - 1]
  /\ pc = "write_low" => mtimecmp = [h |-> next.h, l |-> Half - 1]
  /\ pc = "advance" => mtimecmp = next
  /\ pc \in Handler => Reached(mtime, due)

TickInv == TypeOK /\ Ahead /\ Placed

\* What an edge that does not write the counter does to it.
Counts ==
  /\ mtime' = Plus(mtime, 1) /\ mtime' \in DoubleWord
  /\ Reached(mtime', mtime) /\ Value(mtime') = Value(mtime) + 1
  /\ mtime'.h >= mtime.h /\ mtime'.h <= LastHigh
  /\ Reached(mtime, due) => Reached(mtime', due)

LEMMA EdgeFacts ==
  ASSUME TickInv, NEW we \in BOOLEAN, NEW ra, NEW data, Edge(we, ra, data),
         ~we \/ ra \notin {"mtime", "hmtime"}
  PROVE  Counts
<1>1. mtime \in DoubleWord /\ due \in DoubleWord
  BY DEF TickInv, TypeOK
<1>2. mtime' = Plus(mtime, 1) /\ mtime.h < LastHigh
  BY Zenon DEF Edge
<1>3. mtime.h + 1 < Half /\ 1 \in 0 .. (Half - 1) /\ mtime.h \in Nat /\ LastHigh \in Nat
  BY <1>1, <1>2, TimerAssumption DEF DoubleWord, HalfWord
<1>4. /\ mtime' \in DoubleWord
      /\ mtime'.h \in {mtime.h, mtime.h + 1}
      /\ Reached(mtime', mtime) /\ Value(mtime') = Value(mtime) + 1
  BY <1>1, <1>2, <1>3, PlusFacts
<1>5. Reached(mtime, due) => Reached(mtime', due)
  BY <1>1, <1>4 DEF Reached, DoubleWord, HalfWord
<1> QED
  BY <1>2, <1>3, <1>4, <1>5 DEF Counts

LEMMA QuietFacts ==
  ASSUME TickInv, NoAccess \/ Read("mtime") \/ Read("hmtime")
  PROVE  Counts /\ mtimecmp' = mtimecmp
<1>1. \E ra : Edge(FALSE, ra, 0)
  BY Zenon DEF NoAccess, Read
<1> QED
  BY <1>1, EdgeFacts, Zenon DEF Edge

LEMMA WriteFacts ==
  ASSUME TickInv, NEW data
  PROVE  /\ Write("mtimecmp", data)
              => Counts /\ mtimecmp' = [h |-> mtimecmp.h, l |-> data]
         /\ Write("hmtimecmp", data)
              => Counts /\ mtimecmp' = [h |-> data, l |-> mtimecmp.l]
<1>1. mtimecmp \in [h : HalfWord, l : HalfWord]
  BY DEF TickInv, TypeOK, DoubleWord
<1>2. /\ [mtimecmp EXCEPT !.l = data] = [h |-> mtimecmp.h, l |-> data]
      /\ [mtimecmp EXCEPT !.h = data] = [h |-> data, l |-> mtimecmp.l]
  BY <1>1
<1>3. /\ "mtimecmp" \notin {"mtime", "hmtime", "hmtimecmp"}
      /\ "hmtimecmp" \notin {"mtime", "hmtime", "mtimecmp"}
  OBVIOUS
<1>4. ASSUME Write("mtimecmp", data)
      PROVE  Counts /\ mtimecmp' = [mtimecmp EXCEPT !.l = data]
  <2>1. Edge(TRUE, "mtimecmp", data)
    BY <1>4 DEF Write
  <2>2. Counts
    BY <1>3, <2>1, EdgeFacts, Zenon
  <2>3. mtimecmp' = [mtimecmp EXCEPT !.l = data]
    BY <2>1, Zenon DEF Edge
  <2> QED
    BY <2>2, <2>3
<1>5. ASSUME Write("hmtimecmp", data)
      PROVE  Counts /\ mtimecmp' = [mtimecmp EXCEPT !.h = data]
  <2>1. Edge(TRUE, "hmtimecmp", data)
    BY <1>5 DEF Write
  <2>2. Counts
    BY <1>3, <2>1, EdgeFacts, Zenon
  <2>3. mtimecmp' = [mtimecmp EXCEPT !.h = data]
    BY <1>3, <2>1, Zenon DEF Edge
  <2> QED
    BY <2>2, <2>3
<1> QED
  BY <1>2, <1>4, <1>5

-----------------------------------------------------------------------------
LEMMA TickInit == Init => TickInv
<1>1. Zero \in DoubleWord /\ Ones \in DoubleWord /\ Zero.h = 0
  BY TimerAssumption DEF Zero, Ones, DoubleWord, HalfWord
<1> QED
  BY <1>1, TimerAssumption
  DEF Init, TickInv, TypeOK, Ahead, Placed, SetUp, Handler

\* The next tick and the one after it, while the counter is below its bound.
LEMMA NextFacts ==
  ASSUME NEW t \in DoubleWord, mtime \in DoubleWord,
         mtime.h <= LastHigh, t.h <= mtime.h + 1
  PROVE  /\ Plus(t, Increment) \in DoubleWord
         /\ Plus(t, Increment).h \in {t.h, t.h + 1}
         /\ Reached(Plus(t, Increment), t)
         /\ Value(Plus(t, Increment)) = Value(t) + Increment
<1>1. Increment \in 0 .. (Half - 1)
  BY IncrementAssumption, TimerAssumption
<1>2. t.h + 1 < Half
  BY TimerAssumption DEF DoubleWord, HalfWord
<1> QED
  BY <1>1, <1>2, PlusFacts

LEMMA TickStep == TickInv /\ [Next]_vars => TickInv'
<1> SUFFICES ASSUME TickInv, [Next]_vars PROVE TickInv'
  OBVIOUS
<1> USE DEF TickInv
<1>1. CASE Wait
  <2>1. Counts /\ mtimecmp' = mtimecmp
    BY <1>1, QuietFacts DEF Wait
  <2> QED
    BY <1>1, <2>1 DEF Wait, Counts, TypeOK, Ahead, Placed, DoubleWord, HalfWord
<1>2. CASE Call
  <2>1. Counts /\ mtimecmp' = mtimecmp
    BY <1>2, QuietFacts DEF Call
  <2> QED
    BY <1>2, <2>1
    DEF Call, Goto, Counts, TypeOK, Ahead, Placed, SetUp, Handler, DoubleWord, HalfWord
<1>3. CASE ReadHigh
  <2>1. Counts /\ mtimecmp' = mtimecmp
    BY <1>3, QuietFacts DEF ReadHigh
  <2>2. time' = [h |-> mtime'.h, l |-> time.l] /\ time' \in DoubleWord
    BY <1>3, <2>1 DEF ReadHigh, Counts, TypeOK, DoubleWord
  <2> QED
    BY <1>3, <2>1, <2>2
    DEF ReadHigh, Goto, Counts, TypeOK, Ahead, Placed, SetUp, Handler, DoubleWord, HalfWord
<1>4. CASE ReadLow
  <2>1. Counts /\ mtimecmp' = mtimecmp
    BY <1>4, QuietFacts DEF ReadLow
  <2>2. time' = [h |-> time.h, l |-> mtime'.l] /\ time' \in DoubleWord
    BY <1>4, <2>1 DEF ReadLow, Counts, TypeOK, DoubleWord
  <2> QED
    BY <1>4, <2>1, <2>2
    DEF ReadLow, Goto, Counts, TypeOK, Ahead, Placed, SetUp, Handler, DoubleWord, HalfWord
<1>5. CASE ReadAgain
  <2>1. Counts /\ mtimecmp' = mtimecmp
    BY <1>5, QuietFacts DEF ReadAgain
  <2>2. /\ Plus(time, Increment) \in DoubleWord
        /\ Plus(time, Increment).h <= mtime.h + 1
    BY NextFacts DEF TypeOK, Ahead, DoubleWord, HalfWord
  <2> QED
    BY <1>5, <2>1, <2>2
    DEF ReadAgain, Counts, TypeOK, Ahead, Placed, SetUp, Handler, DoubleWord, HalfWord
<1>6. CASE Arm
  <2>1. /\ Counts
        /\ \/ pc' = "arm_low" /\ mtimecmp' = [h |-> next.h, l |-> mtimecmp.l]
           \/ pc' = "arm_high" /\ mtimecmp' = [h |-> mtimecmp.h, l |-> next.l]
    BY <1>6, WriteFacts DEF Arm, Goto
  <2>2. pc = "arm"
    BY <1>6 DEF Arm, Goto
  <2> QED
    BY <1>6, <2>1, <2>2
    DEF Arm, Counts, TypeOK, Ahead, Placed, SetUp, Handler, DoubleWord, HalfWord
<1>7. CASE ArmRest
  <2>1. Counts /\ mtimecmp' = next
    <3>1. next = [h |-> next.h, l |-> next.l]
      BY DEF TypeOK, DoubleWord
    <3> QED
      BY <1>7, <3>1, WriteFacts DEF ArmRest, Goto, Placed
  <2>2. pc \in {"arm_high", "arm_low"} /\ pc' = "start"
    BY <1>7 DEF ArmRest, Goto
  <2>3. Plus(next, Increment) \in DoubleWord
    BY <2>2, NextFacts DEF TypeOK, Ahead
  <2> QED
    BY <1>7, <2>1, <2>2, <2>3
    DEF ArmRest, Counts, TypeOK, Ahead, Placed, SetUp, Handler, DoubleWord, HalfWord
<1>8. CASE StartFirstTask
  <2>1. Counts /\ mtimecmp' = mtimecmp
    BY <1>8, QuietFacts DEF StartFirstTask
  <2> QED
    BY <1>8, <2>1
    DEF StartFirstTask, Goto, Counts, TypeOK, Ahead, Placed, SetUp, Handler, DoubleWord, HalfWord
<1>9. CASE TakeTick
  <2>1. Counts /\ mtimecmp' = mtimecmp
    BY <1>9, QuietFacts DEF TakeTick
  <2>2. Reached(mtime, due)
    BY <1>9 DEF TakeTick, Goto, irq, Placed
  <2> QED
    BY <1>9, <2>1, <2>2
    DEF TakeTick, Goto, Counts, TypeOK, Ahead, Placed, SetUp, Handler, DoubleWord, HalfWord
<1>10. CASE MaskLow
  <2>1. Counts /\ mtimecmp' = [h |-> mtimecmp.h, l |-> Half - 1]
    BY <1>10, WriteFacts DEF MaskLow
  <2>2. Half - 1 \in HalfWord
    BY TimerAssumption DEF HalfWord
  <2> QED
    BY <1>10, <2>1, <2>2
    DEF MaskLow, Goto, Counts, TypeOK, Ahead, Placed, SetUp, Handler, DoubleWord, HalfWord
<1>11. CASE WriteHigh
  <2>1. Counts /\ mtimecmp' = [h |-> next.h, l |-> mtimecmp.l]
    BY <1>11, WriteFacts DEF WriteHigh
  <2> QED
    BY <1>11, <2>1
    DEF WriteHigh, Goto, Counts, TypeOK, Ahead, Placed, SetUp, Handler, DoubleWord, HalfWord
<1>12. CASE WriteLow
  <2>1. Counts /\ mtimecmp' = [h |-> mtimecmp.h, l |-> next.l]
    BY <1>12, WriteFacts DEF WriteLow
  <2>2. mtimecmp' = next
    BY <1>12, <2>1 DEF WriteLow, Goto, Placed, TypeOK, DoubleWord
  <2> QED
    BY <1>12, <2>1, <2>2
    DEF WriteLow, Goto, Counts, TypeOK, Ahead, Placed, SetUp, Handler, DoubleWord, HalfWord
<1>13. CASE Advance
  <2>1. Counts /\ mtimecmp' = mtimecmp
    BY <1>13, QuietFacts DEF Advance
  <2>2. /\ mtimecmp = next /\ next = Plus(due, Increment) /\ Reached(mtime, due)
        /\ pc' = "task" /\ due' = next /\ next' = Plus(next, Increment)
        /\ UNCHANGED <<time, began>>
    BY <1>13 DEF Advance, Goto, Placed, Handler
  <2>3. due.h <= mtime.h
    BY <2>2 DEF Reached, TypeOK, DoubleWord, HalfWord
  <2>4. next.h <= mtime.h + 1
    BY <2>2, <2>3, NextFacts DEF TypeOK, Ahead, DoubleWord, HalfWord
  <2>5. Plus(next, Increment) \in DoubleWord
    BY <2>4, NextFacts DEF TypeOK, Ahead
  <2> QED
    BY <2>1, <2>2, <2>4, <2>5
    DEF Counts, TypeOK, Ahead, Placed, SetUp, Handler, DoubleWord, HalfWord
<1>14. CASE Reset
  <2>1. Zero \in DoubleWord /\ Ones \in DoubleWord /\ Zero.h = 0
    BY TimerAssumption DEF Zero, Ones, DoubleWord, HalfWord
  <2> QED
    BY <1>14, <2>1, TimerAssumption
    DEF Reset, ResetTimer, TypeOK, Ahead, Placed, SetUp, Handler
<1>15. CASE UNCHANGED vars
  BY <1>15 DEF vars, TypeOK, Ahead, Placed, Reached
<1> QED
  BY <1>1, <1>2, <1>3, <1>4, <1>5, <1>6, <1>7, <1>8, <1>9, <1>10, <1>11,
     <1>12, <1>13, <1>14, <1>15 DEF Next

-----------------------------------------------------------------------------
\* The whole invariant holds of the specification.
LEMMA TickInvariant == Spec => []TickInv
<1>1. Init => TickInv
  BY TickInit
<1>2. TickInv /\ [Next]_vars => TickInv'
  BY TickStep
<1> QED
  BY <1>1, <1>2, PTL DEF Spec

(***************************************************************************)
(* The halves of every register stay 32-bit numbers: no addition of the    *)
(* counter, of the set-up or of the handler leaves its range.              *)
(***************************************************************************)
THEOREM TickTypeCorrect == Spec => []TypeOK
<1>1. TickInv => TypeOK
  BY DEF TickInv
<1> QED
  BY <1>1, TickInvariant, PTL

(***************************************************************************)
(* When interrupts are on, the compare register holds the next tick, whole *)
(* (vPortSetupTimerInterrupt and the timer branch of the trap handler).    *)
(***************************************************************************)
THEOREM TickArmed == Spec => []NextTickArmed
<1>1. TickInv => NextTickArmed
  BY DEF TickInv, Placed, NextTickArmed
<1> QED
  BY <1>1, TickInvariant, PTL

(***************************************************************************)
(* The three writes that move the compare register (portASM.S) never leave *)
(* it below the tick being served, nor below the next one once its high    *)
(* half is written.                                                        *)
(***************************************************************************)
THEOREM CompareAhead == Spec => []CompareNeverBelow
<1>1. ASSUME TickInv PROVE CompareNeverBelow
  <2>1. /\ due \in DoubleWord /\ mtime \in DoubleWord
        /\ mtime.h <= LastHigh /\ due.h <= mtime.h + 1
    BY <1>1 DEF TickInv, TypeOK, Ahead
  <2>2. pc \in Handler => Reached(next, due)
    BY <1>1, <2>1, NextFacts DEF TickInv, Placed
  <2>3. next \in DoubleWord
    BY <1>1 DEF TickInv, TypeOK
  <2>4. ASSUME pc \in Handler PROVE Reached(mtimecmp, due)
    BY <1>1, <2>1, <2>2, <2>3, <2>4
    DEF TickInv, Placed, Handler, Reached, DoubleWord, HalfWord
  <2>5. ASSUME pc \in {"write_low", "advance"} PROVE Reached(mtimecmp, next)
    BY <1>1, <2>3, <2>5 DEF TickInv, Placed, Reached, DoubleWord, HalfWord
  <2> QED
    BY <2>4, <2>5 DEF CompareNeverBelow
<1> QED
  BY <1>1, TickInvariant, PTL

(***************************************************************************)
(* The three together, for every width, period and interleaving: what the  *)
(* handler of portASM.S has to write in an order of its own.               *)
(***************************************************************************)
THEOREM CompareCorrect == Spec => []CompareSound
  BY TickTypeCorrect, TickArmed, CompareAhead, PTL DEF CompareSound

-----------------------------------------------------------------------------
(***************************************************************************)
(* What the loop of vPortSetupTimerInterrupt has read: when the high half  *)
(* is the same again, the two halves are those of one instant, after the   *)
(* call and before now.                                                    *)
(***************************************************************************)
Between(t) == Reached(t, began) /\ Reached(mtime, t)

Sampled ==
  /\ pc \in SetUp \ {"boot"} => Reached(mtime, began)
  /\ pc = "again" =>
       \E t \in DoubleWord : t.l = time.l /\ t.h >= time.h /\ Between(t)
  /\ pc \in {"arm", "arm_high", "arm_low"} =>
       next = Plus(time, Increment) /\ Between(time)

LEMMA ReachedTransitive ==
  ASSUME NEW a \in DoubleWord, NEW b \in DoubleWord, NEW c \in DoubleWord,
         Reached(a, b), Reached(b, c)
  PROVE  Reached(a, c)
BY DEF Reached, DoubleWord, HalfWord

\* Every action but Reset is an edge on which the counter counts.
LEMMA StepCounts ==
  ASSUME TickInv, Next, ~Reset
  PROVE  Counts
<1>1. CASE Wait
  BY <1>1, QuietFacts DEF Wait
<1>2. CASE Call \/ ReadHigh \/ ReadLow \/ ReadAgain \/ StartFirstTask \/ TakeTick \/ Advance
  BY <1>2, QuietFacts
  DEF Call, ReadHigh, ReadLow, ReadAgain, StartFirstTask, TakeTick, Advance
<1>3. CASE Arm \/ ArmRest \/ MaskLow \/ WriteHigh \/ WriteLow
  BY <1>3, WriteFacts DEF Arm, ArmRest, MaskLow, WriteHigh, WriteLow
<1> QED
  BY <1>1, <1>2, <1>3 DEF Next

LEMMA SampledStep == TickInv /\ TickInv' /\ Sampled /\ [Next]_vars => Sampled'
<1> SUFFICES ASSUME TickInv, TickInv', Sampled, [Next]_vars PROVE Sampled'
  OBVIOUS
<1>1. CASE UNCHANGED vars
  BY <1>1 DEF vars, Sampled, Between, Reached
<1>2. CASE Reset
  BY <1>2 DEF Reset, Sampled, SetUp
<1>3. CASE Next /\ ~Reset
  <2>1. /\ Counts
        /\ mtime \in DoubleWord /\ began \in DoubleWord
        /\ time \in DoubleWord /\ time.h <= mtime.h /\ time' \in DoubleWord
    BY <1>3, StepCounts DEF TickInv, TypeOK, Ahead
  <2>2. /\ mtime' \in DoubleWord
        /\ \A t \in DoubleWord : Reached(mtime, t) => Reached(mtime', t)
    BY <2>1, ReachedTransitive DEF Counts
  <2>3. CASE Call
    BY <2>2, <2>3 DEF Call, Goto, Sampled, Reached, DoubleWord, HalfWord
  <2>4. CASE ReadHigh
    BY <2>1, <2>2, <2>4 DEF ReadHigh, Goto, Sampled, SetUp
  <2>5. CASE ReadLow
    <3>1. /\ Reached(mtime', began) /\ began' = began /\ pc' = "again"
          /\ time'.l = mtime'.l /\ time'.h <= mtime'.h
      BY <2>1, <2>2, <2>5 DEF ReadLow, Goto, Sampled, SetUp, Counts, DoubleWord, HalfWord
    <3>2. mtime'.l = time'.l /\ mtime'.h >= time'.h /\ Between(mtime)'
      BY <2>2, <3>1 DEF Between, Reached, DoubleWord, HalfWord
    <3> QED
      BY <2>2, <3>1, <3>2 DEF Sampled
  <2>6. CASE ReadAgain
    <3>1. /\ pc = "again" /\ began' = began /\ time' = time
          /\ \/ pc' = "arm" /\ time.h = mtime'.h /\ next' = Plus(time, Increment)
             \/ pc' = "high"
      BY <2>6 DEF ReadAgain
    <3>2. PICK t \in DoubleWord : t.l = time.l /\ t.h >= time.h /\ Between(t)
      BY <3>1 DEF Sampled
    <3>3. time.h = mtime'.h => t = time
      BY <2>1, <2>2, <3>2 DEF Between, Reached, Counts, DoubleWord, HalfWord
    <3>4. time.h = mtime'.h => Between(time)'
      BY <2>1, <2>2, <3>1, <3>2, <3>3 DEF Between
    <3>5. Reached(mtime', began')
      BY <2>1, <2>2, <3>1 DEF Sampled, SetUp
    <3> QED
      BY <3>1, <3>4, <3>5 DEF Sampled
  <2>7. CASE Arm
    <3>1. /\ pc = "arm" /\ pc' \in {"arm_high", "arm_low"}
          /\ UNCHANGED <<time, next, began>>
      BY <2>7 DEF Arm, Goto
    <3>2. Between(time)'
      BY <2>1, <2>2, <3>1 DEF Sampled, Between
    <3> QED
      BY <2>1, <2>2, <3>1, <3>2 DEF Sampled, SetUp
  <2>8. CASE Wait
    <3>1. UNCHANGED <<pc, time, next, began>>
      BY <2>8 DEF Wait
    <3>2. \A t \in DoubleWord : Between(t) => Between(t)'
      BY <2>2, <3>1 DEF Between
    <3> QED
      BY <2>1, <2>2, <3>1, <3>2 DEF Sampled
  <2>9. CASE ArmRest \/ StartFirstTask \/ TakeTick \/ MaskLow \/ WriteHigh \/ WriteLow \/ Advance
    <3>1. pc' \in {"start", "task"} \cup Handler
      BY <2>9 DEF ArmRest, StartFirstTask, TakeTick, MaskLow, WriteHigh, WriteLow,
                  Advance, Goto, Handler
    <3> QED
      BY <3>1 DEF Sampled, SetUp, Handler
  <2> QED
    BY <1>3, <2>3, <2>4, <2>5, <2>6, <2>7, <2>8, <2>9 DEF Next
<1> QED
  BY <1>1, <1>2, <1>3

-----------------------------------------------------------------------------
LEMMA TickerInit == Init => Promised!Init
<1>1. Value(Zero) = 0
  BY TimerAssumption DEF Value, Zero
<1> QED
  BY <1>1 DEF Init, Promised!Init, SetUp

LEMMA TickerStep ==
  TickInv /\ Sampled /\ [Next]_vars => [Promised!Next]_(Promised!vars)
<1> SUFFICES ASSUME TickInv, Sampled, [Next]_vars
             PROVE  [Promised!Next]_(Promised!vars)
  OBVIOUS
<1>1. CASE UNCHANGED vars
  BY <1>1 DEF vars, Promised!vars, Value
<1>2. CASE Reset
  <2>1. Value(Zero) = 0
    BY TimerAssumption DEF Value, Zero
  <2> QED
    BY <1>2, <2>1 DEF Reset, ResetTimer, Promised!Next, Promised!Reset, SetUp
<1>3. CASE Next /\ ~Reset
  <2>1. /\ Counts
        /\ mtime \in DoubleWord /\ began \in DoubleWord /\ due \in DoubleWord
        /\ time \in DoubleWord /\ mtime.h <= LastHigh
        /\ time.h <= mtime.h /\ due.h <= mtime.h + 1
    BY <1>3, StepCounts DEF TickInv, TypeOK, Ahead
  <2>2. Promised!Passes
    BY <2>1 DEF Promised!Passes, Counts
  <2>3. CASE Call
    BY <2>2, <2>3
    DEF Call, Goto, Promised!Next, Promised!Begin, SetUp
  <2>4. CASE ArmRest
    <3>1. /\ pc \in {"arm_high", "arm_low"} /\ pc' = "start"
          /\ due' = next /\ began' = began
      BY <2>4 DEF ArmRest, Goto
    <3>2. next = Plus(time, Increment) /\ Between(time)
      BY <3>1 DEF Sampled
    <3>3. Value(due') = Value(time) + Increment
      BY <2>1, <3>1, <3>2, NextFacts DEF DoubleWord, HalfWord
    <3>4. /\ Value(began) \in Nat /\ Value(time) \in Nat /\ Value(mtime) \in Nat
          /\ Value(began) <= Value(time) /\ Value(time) <= Value(mtime)
      BY <2>1, <3>2, ValueOrder DEF Between
    <3>5. \E t \in Value(began) .. Value(mtime) : Value(due') = t + Increment
      BY <3>3, <3>4
    <3>6. Value(began) # -1
      BY <3>4
    <3>7. Promised!Start
      BY <2>2, <3>1, <3>5, <3>6 DEF Promised!Start, SetUp
    <3> QED
      BY <3>7 DEF Promised!Next
  <2>5. CASE Advance
    <3>1. /\ pc = "advance" /\ pc' = "task"
          /\ due' = next /\ began' = began
      BY <2>5 DEF Advance, Goto
    <3>2. next = Plus(due, Increment) /\ Reached(mtime, due)
      BY <3>1 DEF TickInv, Placed, Handler
    <3>3. Value(due') = Value(due) + Increment
      BY <2>1, <3>1, <3>2, NextFacts
    <3>4. /\ Value(due) \in Nat /\ Value(mtime) \in Nat
          /\ Value(mtime) >= Value(due)
      BY <2>1, <3>2, ValueOrder
    <3>5. Value(due) # -1
      BY <3>4
    <3>6. Promised!Serve
      BY <2>2, <3>1, <3>3, <3>4, <3>5 DEF Promised!Serve, SetUp
    <3> QED
      BY <3>6 DEF Promised!Next
  <2>6. CASE \/ Wait \/ ReadHigh \/ ReadLow \/ ReadAgain \/ Arm
             \/ StartFirstTask \/ TakeTick \/ MaskLow \/ WriteHigh \/ WriteLow
    <3>1. /\ UNCHANGED <<began, due>>
          /\ pc = "boot" <=> pc' = "boot"
          /\ pc \in SetUp <=> pc' \in SetUp
      BY <2>6 DEF Wait, ReadHigh, ReadLow, ReadAgain, Arm, StartFirstTask,
                  TakeTick, MaskLow, WriteHigh, WriteLow, Goto, SetUp
    <3>2. Promised!Wait
      BY <2>2, <3>1 DEF Promised!Wait, Value
    <3> QED
      BY <3>2 DEF Promised!Next
  <2> QED
    BY <1>3, <2>3, <2>4, <2>5, <2>6 DEF Next
<1> QED
  BY <1>1, <1>2, <1>3

(***************************************************************************)
(* The set-up and the handler implement a periodic tick: due one period    *)
(* apart from an instant of the set-up call, never early, none lost.       *)
(***************************************************************************)
THEOREM TickImplementsTicker == Spec => ImplementsTicker
<1>1. Init => Sampled
  BY DEF Init, Sampled, SetUp
<1>2. TickInv /\ TickInv' /\ Sampled /\ [Next]_vars => Sampled'
  BY SampledStep
<1>3. Spec => []Sampled
  BY <1>1, <1>2, TickInvariant, PTL DEF Spec
<1>4. Init => Promised!Init
  BY TickerInit
<1>5. TickInv /\ Sampled /\ [Next]_vars => [Promised!Next]_(Promised!vars)
  BY TickerStep
<1> QED
  BY <1>3, <1>4, <1>5, TickInvariant, PTL DEF Spec, ImplementsTicker, Promised!Spec
=============================================================================
