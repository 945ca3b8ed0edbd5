---------------------------- MODULE MtimerDriver ----------------------------
(***************************************************************************)
(* The timer driver of the bare-metal example (c_src/src/mtimer.c):        *)
(* set_mtimer_period, enable_mtimer and the interrupt handler, which       *)
(* assign a 64-bit sum to the compare register.  MTIMER_COUNTER and        *)
(* MTIMER_CMP are plain 64-bit lvalues: the compiler reads and writes the  *)
(* two halves in the order it likes.                                       *)
(***************************************************************************)
EXTENDS MTimer

CONSTANT Period   \* what set_mtimer_period is given, 2000 in main.c: less than a wrap of a half

ASSUME PeriodAssumption == Period \in 1 .. (Half - 1)

VARIABLES
  at,      \* "main", "read", "write", "enable", "loop"
  inIrq,   \* in the interrupt handler: interrupts are off
  left,    \* the halves still to read or to write
  count,   \* the counter as read
  \* what the properties speak of
  first, last   \* the counter at the first and at the second of the reads

driverVars == <<mtime, mtimecmp, at, inIrq, left, count, first, last>>

Halves == {"h", "l"}
TimeHalf(k) == IF k = "h" THEN "hmtime" ELSE "mtime"
CmpHalf(k)  == IF k = "h" THEN "hmtimecmp" ELSE "mtimecmp"

DriverInit ==
  /\ mtime = Zero /\ mtimecmp = Ones
  /\ at = "main" /\ inIrq = FALSE /\ left = Halves
  /\ count = Zero /\ first = Zero /\ last = Zero

\* Edges without an access: other code, such as the printing of "Tick!".
Idle == NoAccess /\ UNCHANGED <<at, inIrq, left, count, first, last>>

\* The call in main, and the interrupt taken in its last loop.
Begin ==
  /\ \/ at = "main" /\ inIrq' = FALSE
     \/ at = "loop" /\ irq /\ inIrq' = TRUE
  /\ at' = "read"
  /\ NoAccess
  /\ UNCHANGED <<left, count, first, last>>

\* MTIMER_COUNTER
ReadHalf ==
  /\ at = "read"
  /\ \E k \in left :
       /\ Read(TimeHalf(k))
       /\ count' = [count EXCEPT ![k] = mtime'[k]]
       /\ IF left = Halves
          THEN at' = at /\ left' = left \ {k} /\ first' = mtime' /\ last' = mtime'
          ELSE at' = "write" /\ left' = Halves /\ first' = first /\ last' = mtime'
  /\ UNCHANGED inIrq

\* MTIMER_CMP = MTIMER_COUNTER + period
WriteHalf ==
  /\ at = "write"
  /\ \E k \in left :
       /\ Write(CmpHalf(k), Plus(count, Period)[k])
       /\ IF left = Halves
          THEN at' = at /\ left' = left \ {k}
          ELSE at' = (IF inIrq THEN "loop" ELSE "enable") /\ left' = Halves
  /\ inIrq' = (inIrq /\ at' = "write")
  /\ UNCHANGED <<count, first, last>>

\* enable_mtimer
Enable ==
  /\ at = "enable" /\ at' = "loop"
  /\ NoAccess
  /\ UNCHANGED <<inIrq, left, count, first, last>>

DriverNext == Idle \/ Begin \/ ReadHalf \/ WriteHalf \/ Enable

DriverSpec == DriverInit /\ [][DriverNext]_driverVars

-----------------------------------------------------------------------------
Programmed == at \in {"enable", "loop"}

(***************************************************************************)
(* "mtimer set interrupt period in ticks": the next interrupt is due a     *)
(* period after an instant at which the counter was being read.            *)
(***************************************************************************)
PeriodKept ==
  Programmed =>
    \E t \in Value(first) .. Value(last) : Value(mtimecmp) = t + Period

(***************************************************************************)
(* The same, when the high half did not change between the two reads.      *)
(***************************************************************************)
PeriodKeptWithoutCarry == first.h = last.h => PeriodKept

(***************************************************************************)
(* Whatever the driver read, the interrupt is less than one wrap of the    *)
(* low half from where it should be.                                       *)
(***************************************************************************)
ErrorBounded ==
  Programmed =>
    \E t \in Value(first) .. Value(last) :
      /\ Value(mtimecmp) < t + Period + Half
      /\ Value(mtimecmp) > t + Period - Half

(***************************************************************************)
(* set_mtimer_period and the handler of mtimer.c: the next interrupt is    *)
(* due a period after an instant at which the counter was being read,      *)
(* unless its high half changed between the two reads; and even then it is *)
(* less than one wrap of the low half from where it should be.             *)
(***************************************************************************)
DriverPeriod == PeriodKeptWithoutCarry /\ ErrorBounded
=============================================================================
