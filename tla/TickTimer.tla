------------------------------ MODULE TickTimer ------------------------------
(***************************************************************************)
(* The tick of the FreeRTOS port: vPortSetupTimerInterrupt (port.c) and    *)
(* the timer branch of freertos_risc_v_trap_handler (portASM.S), one bus   *)
(* access after another, while the counter runs.  Any number of edges may  *)
(* pass between two of them.                                               *)
(***************************************************************************)
EXTENDS MTimer

CONSTANT Increment   \* uxTimerIncrementsForOneTick

ASSUME IncrementAssumption == Increment \in 1 .. (Half - 1)

VARIABLES
  pc,      \* where the software is; the handler runs with interrupts off
  time,    \* ulCurrentTimeHigh and ulCurrentTimeLow
  next,    \* ullNextTime
  \* what the properties speak of
  began,   \* the counter when the set-up was called
  due      \* the tick the compare register is set for

vars == <<mtime, mtimecmp, pc, time, next, began, due>>

SetUp   == {"boot", "high", "low", "again", "arm", "arm_high", "arm_low"}
Handler == {"mask_low", "write_high", "write_low", "advance"}

Goto(from, to) == pc = from /\ pc' = to

Init ==
  /\ mtime = Zero /\ mtimecmp = Ones
  /\ pc = "boot"
  /\ time = Zero /\ next = Zero /\ began = Zero /\ due = Zero

\* An edge on which the software does not access the timer.
Wait == NoAccess /\ UNCHANGED <<pc, time, next, began, due>>

-----------------------------------------------------------------------------
(***************************************************************************)
(* vPortSetupTimerInterrupt, with interrupts off.                          *)
(***************************************************************************)
Call ==
  /\ Goto("boot", "high")
  /\ NoAccess
  /\ began' = mtime'
  /\ UNCHANGED <<time, next, due>>

ReadHigh ==
  /\ Goto("high", "low")
  /\ Read("hmtime")
  /\ time' = [time EXCEPT !.h = mtime'.h]
  /\ UNCHANGED <<next, began, due>>

ReadLow ==
  /\ Goto("low", "again")
  /\ Read("mtime")
  /\ time' = [time EXCEPT !.l = mtime'.l]
  /\ UNCHANGED <<next, began, due>>

\* slip: the high half is not read again
ReadAgainNever ==
  /\ Goto("again", "arm")
  /\ Read("hmtime")
  /\ next' = Plus(time, Increment)
  /\ UNCHANGED <<time, began, due>>
\* while( ulCurrentTimeHigh != *pulTimeHigh )
ReadAgain ==
  /\ pc = "again"
  /\ Read("hmtime")
  /\ \/ /\ time.h = mtime'.h
        /\ pc' = "arm"
        /\ next' = Plus(time, Increment)
     \/ /\ time.h # mtime'.h
        /\ pc' = "high"
        /\ UNCHANGED next
  /\ UNCHANGED <<time, began, due>>

\* The compiler stores the two halves of ullNextTime in either order.
Arm ==
  /\ \/ Goto("arm", "arm_low") /\ Write("hmtimecmp", next.h)
     \/ Goto("arm", "arm_high") /\ Write("mtimecmp", next.l)
  /\ UNCHANGED <<time, next, began, due>>

ArmRest ==
  /\ \/ Goto("arm_high", "start") /\ Write("hmtimecmp", next.h)
     \/ Goto("arm_low", "start") /\ Write("mtimecmp", next.l)
  /\ due' = next
  /\ next' = Plus(next, Increment)
  /\ UNCHANGED <<time, began>>

\* xPortStartScheduler sets mie, xPortStartFirstTask sets mstatus.MIE.
StartFirstTask ==
  /\ Goto("start", "task")
  /\ NoAccess
  /\ UNCHANGED <<time, next, began, due>>

-----------------------------------------------------------------------------
(***************************************************************************)
(* test_if_mtimer.  The compare register is moved in three writes.         *)
(***************************************************************************)
TakeTick ==
  /\ irq
  /\ Goto("task", "mask_low")
  /\ NoAccess
  /\ UNCHANGED <<time, next, began, due>>

MaskLowSkipped ==   \* slip: the new low half is written at once
  /\ Goto("mask_low", "write_high")
  /\ Write("mtimecmp", next.l)
  /\ UNCHANGED <<time, next, began, due>>
MaskLow ==
  /\ Goto("mask_low", "write_high")
  /\ Write("mtimecmp", Half - 1)
  /\ UNCHANGED <<time, next, began, due>>

WriteHigh ==
  /\ Goto("write_high", "write_low")
  /\ Write("hmtimecmp", next.h)
  /\ UNCHANGED <<time, next, began, due>>

WriteLow ==
  /\ Goto("write_low", "advance")
  /\ Write("mtimecmp", next.l)
  /\ UNCHANGED <<time, next, began, due>>

\* add, sltu, add; then the tick is counted and mret enables interrupts.
Advance ==
  /\ Goto("advance", "task")
  /\ NoAccess
  /\ due' = next
  /\ next' = Plus(next, Increment)
  /\ UNCHANGED <<time, began>>

\* A reset of the system, at any time.
Reset ==
  /\ ResetTimer
  /\ pc' = "boot"
  /\ time' = Zero /\ next' = Zero /\ began' = Zero /\ due' = Zero

Next ==
  \/ Wait
  \/ Call \/ ReadHigh \/ ReadLow \/ ReadAgain \/ Arm \/ ArmRest \/ StartFirstTask
  \/ TakeTick \/ MaskLow \/ WriteHigh \/ WriteLow \/ Advance
  \/ Reset

Spec == Init /\ [][Next]_vars

-----------------------------------------------------------------------------
TypeOK ==
  /\ {mtime, mtimecmp, time, next, began, due} \subseteq DoubleWord
  /\ pc \in SetUp \cup Handler \cup {"start", "task"}

(***************************************************************************)
(* Ticks are due one period apart, counted from an instant of the set-up   *)
(* call (the loop that reads the two halves), are never served early, and  *)
(* none is lost when the handler is late.                                  *)
(***************************************************************************)
Promised == INSTANCE Ticker WITH
  Off   <- -1,
  now   <- Value(mtime),
  asked <- IF pc = "boot" THEN -1 ELSE Value(began),
  due   <- IF pc \in SetUp THEN -1 ELSE Value(due)

ImplementsTicker == Promised!Spec

(***************************************************************************)
(* Whenever interrupts are on the compare register holds the next tick,    *)
(* whole, and ullNextTime the one after it.                                *)
(***************************************************************************)
NextTickArmed ==
  pc \in {"start", "task"} => mtimecmp = due /\ next = Plus(due, Increment)

(***************************************************************************)
(* "No smaller than old value", "no smaller than new value": while the     *)
(* handler moves the compare register, it is never below the tick that is  *)
(* being served, and never below the next once its high half is written.   *)
(***************************************************************************)
CompareNeverBelow ==
  /\ pc \in Handler => Reached(mtimecmp, due)
  /\ pc \in {"write_low", "advance"} => Reached(mtimecmp, next)

(***************************************************************************)
(* The set-up and the handler of the tick, which write the compare         *)
(* register in several accesses: whole and armed whenever interrupts are   *)
(* on, and never on the way to there in the past of the tick that is being *)
(* served.                                                                 *)
(***************************************************************************)
CompareSound == TypeOK /\ NextTickArmed /\ CompareNeverBelow
=============================================================================
