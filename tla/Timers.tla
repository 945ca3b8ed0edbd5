------------------------------- MODULE Timers -------------------------------
(***************************************************************************)
(* Software timers (timers.c): two sorted lists of active timers that only *)
(* the daemon task touches, and a queue of commands to it.                 *)
(*                                                                         *)
(* A command carries the time at which it was given; the daemon carries it *)
(* out later, perhaps after the time it asks for, perhaps in the next turn *)
(* of the tick count.  Function calls may be sent to the daemon as well;   *)
(* here they set the bits of an event group (xEventGroupSetBitsFromISR).   *)
(*                                                                         *)
(* The state d of the timers:                                              *)
(*   timer             of each: period, reload, active, expiry (its item's *)
(*                     value), and whether it has been deleted             *)
(*   current, overflow pxCurrentTimerList, pxOverflowTimerList             *)
(*   last              xLastTime                                           *)
(*   message           the message the daemon has received                 *)
(*   expects, early    history: when a timer is due next, on a clock that  *)
(*                     does not wrap, and the timers called before that    *)
(***************************************************************************)
EXTENDS EventGroups

CONSTANT Timer
VARIABLE d

xTimerCreate(period, reload) ==
  [period |-> period, reload |-> reload, active |-> FALSE, live |-> TRUE, expiry |-> 0]

NoTimers(timers) ==
  [timer |-> timers, current |-> <<>>, overflow |-> <<>>, last |-> 0,
   message |-> [id |-> "none"], expects |-> [x \in Timer |-> 0], early |-> {}]

-----------------------------------------------------------------------------
\* The callback of x, which is due; time is that of the kernel, unwrapped.
CallBack(s, x, time) ==
  [s EXCEPT !.expects[x] = @ + s.timer[x].period,
            !.early = IF s.expects[x] > time THEN @ \cup {x} ELSE @]

Expiries(s) == [x \in Timer |-> s.timer[x].expiry]

\* The answer: the timer is due already, and in no list.
prvInsertTimerInActiveList(s, x, next, now, from) ==
  LET set   == [s EXCEPT !.timer[x].expiry = next]
      past  == next <= now /\ (now - from) % TickMod >= s.timer[x].period
      older == next > now /\ now < from /\ next >= from
  IN CASE past \/ older -> [yes |-> TRUE, d |-> set]
       [] ~past /\ next <= now ->
            [yes |-> FALSE, d |-> [set EXCEPT !.overflow = vListInsert(@, x, Expiries(set))]]
       [] ~older /\ next > now ->
            [yes |-> FALSE, d |-> [set EXCEPT !.current = vListInsert(@, x, Expiries(set))]]

\* One callback for each period that has gone by.
prvReloadTimer(s, x, expired, now, time) ==
  LET After(n)  == (expired + n * s.timer[x].period) % TickMod
      Insert(n) == prvInsertTimerInActiveList(s, x, After(n + 1), now, After(n))
      missed    == CHOOSE n \in 0..TickMod : ~Insert(n).yes /\ \A m \in 0..(n - 1) : Insert(m).yes
      Call1(r, i) == CallBack(r, x, time)
  IN FoldLeft(Call1, Insert(missed).d, [i \in 1..missed |-> i])

\* The first timer of the list has expired.
prvProcessExpiredTimer(s, now, time) ==
  LET x    == Head(s.current)
      left == [s EXCEPT !.current = Tail(@)]
  IN CallBack(IF s.timer[x].reload
              THEN prvReloadTimer(left, x, s.timer[x].expiry, now, time)
              ELSE [left EXCEPT !.timer[x].active = FALSE], x, time)

\* slip: the lists are switched first
SwitchFirst(s, time) ==
  LET Expire(r, i) == prvProcessExpiredTimer(r, portMAX_DELAY, time)
      switched == [s EXCEPT !.current = s.overflow, !.overflow = s.current]
  IN FoldLeft(Expire, switched, [i \in DOMAIN switched.current |-> i])

\* The time has wrapped: all that is left in the list of the last turn expires.
prvSwitchTimerLists(s, time) ==
  LET Expire(r, i) == prvProcessExpiredTimer(r, portMAX_DELAY, time)
      ended == FoldLeft(Expire, s, [i \in DOMAIN s.current |-> i])
  IN [ended EXCEPT !.current = ended.overflow, !.overflow = ended.current]

prvSampleTimeNow(s, time) ==
  LET now == time % TickMod
  IN [IF now < s.last THEN prvSwitchTimerLists(s, time) ELSE s EXCEPT !.last = now]

-----------------------------------------------------------------------------
(***************************************************************************)
(* Commands.                                                               *)
(***************************************************************************)
\* The time on the clock that does not wrap of a tick count that is read at most
\* one turn before.
Unwrapped(value, time) == time - ((time - value) % TickMod)

\* tmrCOMMAND_START and tmrCOMMAND_RESET.
Start(s, x, value, time) ==
  LET period   == s.timer[x].period
      next     == (value + period) % TickMod
      begun    == [s EXCEPT !.timer[x].active = TRUE,
                            !.expects[x] = Unwrapped(value, time) + period]
      inserted == prvInsertTimerInActiveList(begun, x, next, s.last, value)
  IN IF ~inserted.yes THEN inserted.d
     ELSE CallBack(IF s.timer[x].reload
                   THEN prvReloadTimer(inserted.d, x, next, s.last, time)
                   ELSE [inserted.d EXCEPT !.timer[x].active = FALSE], x, time)

\* What prvProcessReceivedCommands does with one: the timer leaves its list, the
\* time is taken after that, then the command is carried out.
ProcessCommand(s, m, time) ==
  LET left    == [s EXCEPT !.current = Remove(@, m.timer), !.overflow = Remove(@, m.timer)]
      sampled == prvSampleTimeNow(left, time)
      changed == [sampled EXCEPT !.timer[m.timer].active = TRUE,
                                 !.timer[m.timer].period = m.value,
                                 !.expects[m.timer] = time + m.value]
  IN CASE m.id = "start" -> Start(sampled, m.timer, m.value, time)
       [] m.id = "stop" -> [sampled EXCEPT !.timer[m.timer].active = FALSE]
       [] m.id = "change period" ->
            prvInsertTimerInActiveList(changed, m.timer, (time + m.value) % TickMod,
                                       sampled.last, sampled.last).d
       [] m.id = "delete" ->
            [sampled EXCEPT !.timer[m.timer].active = FALSE, !.timer[m.timer].live = FALSE]

-----------------------------------------------------------------------------
(***************************************************************************)
(* prvTimerTask.                                                           *)
(***************************************************************************)
Daemon == {"daemon"}

\* prvGetNextExpireTime reads lists that no one else touches.
ListWasEmpty   == d.current = <<>>
NextExpireTime == IF ListWasEmpty THEN 0 ELSE d.timer[Head(d.current)].expiry

BeginRound(t) ==
  /\ Running(t, Daemon, "start")
  /\ k' = vTaskSuspendAll(k)
  /\ Goto(t, "sample")
  /\ UNCHANGED <<app, queue, irqs, group, item, d>> /\ RecordDue

\* prvProcessTimerOrBlockTask.
SampleTime(t) ==
  /\ Running(t, Daemon, "sample")
  /\ d' = prvSampleTimeNow(d, KernelTime(k))
  /\ Goto(t, CASE k.tick < d.last -> "resume"
               [] k.tick >= d.last /\ ~ListWasEmpty /\ NextExpireTime <= k.tick -> "resume expired"
               [] OTHER -> "lock queue")
  /\ UNCHANGED <<app, k, queue, irqs, group, item>> /\ RecordDue

ResumeDaemon(t) ==
  /\ \E pc \in {"resume", "resume expired", "resume blocked"} :
       /\ Running(t, Daemon, pc)
       /\ k' = xTaskResumeAll(k).k
       /\ Goto(t, CASE pc = "resume" -> "commands"
                    [] pc = "resume expired" -> "expired"
                    [] pc = "resume blocked" ->
                         IF xTaskResumeAll(k).yes THEN "commands" ELSE "yield daemon")
  /\ UNCHANGED <<app, queue, irqs, group, item, d>> /\ RecordDue

\* The time is that of the sample.
ProcessExpired(t) ==
  /\ Running(t, Daemon, "expired")
  /\ d' = prvProcessExpiredTimer(d, d.last, KernelTime(k))
  /\ Goto(t, "commands")
  /\ UNCHANGED <<app, k, queue, irqs, group, item>> /\ RecordDue

\* vQueueWaitForMessageRestricted, with the queue locked around it.
LockDaemonQueue(t) ==
  /\ Running(t, Daemon, "lock queue")
  /\ Commit(t, [k |-> k, q |-> prvLockQueue(Q(t))])
  /\ Goto(t, "wait")
  /\ UNCHANGED <<app, irqs, group, item, d>> /\ RecordDue

NothingToWaitFor == ListWasEmpty /\ d.overflow = <<>>

vQueueWaitForMessageRestricted(t) ==
  /\ Running(t, Daemon, "wait")
  /\ LET wait == (NextExpireTime - d.last) % TickMod
     IN /\ k' = IF ~prvIsQueueEmpty(Q(t)) THEN k
                ELSE vTaskPlaceOnEventListRestricted(
                       k, <<Call(t).queue, "receive">>, wait, NothingToWaitFor)
        /\ Goto(t, "unlock tx")
        /\ RecordWait(wait)
  /\ UNCHANGED <<app, queue, irqs, group, item, d>>

UnlockDaemonQueue(t) ==
  /\ \/ /\ Running(t, Daemon, "unlock tx")
        /\ Commit(t, UnlockTx(k, Q(t), Call(t).queue))
        /\ Goto(t, "unlock rx")
     \/ /\ Running(t, Daemon, "unlock rx")
        /\ Commit(t, UnlockRx(k, Q(t), Call(t).queue))
        /\ Goto(t, "resume blocked")
  /\ UNCHANGED <<app, irqs, group, item, d>> /\ RecordDue

YieldDaemon(t) ==
  /\ Running(t, Daemon, "yield daemon")
  /\ k' = vTaskSwitchContext(k)
  /\ Goto(t, "commands")
  /\ UNCHANGED <<app, queue, irqs, group, item, d>> /\ RecordDue

\* The loop of prvProcessReceivedCommands, over a receive that does not wait.
ReceiveCommand(t) ==
  /\ Running(t, Daemon, "commands")
  /\ IF prvIsQueueEmpty(Q(t))
     THEN Goto(t, "start") /\ UNCHANGED <<k, queue, d>>
     ELSE /\ Commit(t, TakeItem(k, Q(t), Call(t).queue, 0))
          /\ d' = [d EXCEPT !.message = Head(Q(t).items)]
          /\ Goto(t, IF Head(Q(t).items).id = "call" THEN "call" ELSE "process")
  /\ UNCHANGED <<app, irqs, group, item>> /\ RecordDue

Process(t) ==
  /\ Running(t, Daemon, "process")
  /\ d' = ProcessCommand(d, d.message, KernelTime(k))
  /\ Goto(t, "commands")
  /\ UNCHANGED <<app, k, queue, irqs, group, item>> /\ RecordDue

\* vEventGroupSetBitsCallback.
CallFunction(t) ==
  /\ \/ /\ Running(t, Daemon, "call")
        /\ k' = vTaskSuspendAll(k)
        /\ Goto(t, "set bits")
        /\ UNCHANGED group
     \/ /\ Running(t, Daemon, "set bits")
        /\ LET g == d.message.group
               served == ServeWaiters(k, g, group[g].bits \cup d.message.bits)
           IN k' = served.k /\ group' = [group EXCEPT ![g].bits = served.bits]
        /\ Goto(t, "resume")
  /\ UNCHANGED <<app, queue, irqs, item, d>> /\ RecordDue

DaemonStep(t) ==
  \/ BeginRound(t) \/ SampleTime(t) \/ ResumeDaemon(t) \/ ProcessExpired(t)
  \/ LockDaemonQueue(t) \/ vQueueWaitForMessageRestricted(t) \/ UnlockDaemonQueue(t)
  \/ YieldDaemon(t) \/ ReceiveCommand(t) \/ Process(t) \/ CallFunction(t)

-----------------------------------------------------------------------------
(***************************************************************************)
(* The other tasks and the handlers.  A task reads the tick count, then    *)
(* sends its command; xTimerGenericCommand is a send to the queue.         *)
(***************************************************************************)
GetTickCount(t) ==
  /\ Running(t, {"get tick"}, "start")
  /\ thread' = [thread EXCEPT
                  ![t] = Begin(IF @.at = Len(app.calls[t]) THEN 1 ELSE @.at + 1, k.tick, @.rounds)]
  /\ UNCHANGED <<app, k, queue, irqs, group, item, d>> /\ RecordDue

vTimerSetReloadMode(t) ==
  /\ Running(t, {"reload mode"}, "start")
  /\ d' = [d EXCEPT !.timer[Call(t).timer].reload = Call(t).reload]
  /\ Return(t)
  /\ UNCHANGED <<app, k, queue, irqs, group, item>> /\ RecordDue

\* xTimerGenericCommand from a handler.
CommandIrq ==
  /\ k.current # NoTask
  /\ irqs < app.maxIrqs
  /\ \E h \in app.handlers :
       /\ h.op = "command"
       /\ LET r == xQueueGenericSendFromISR(k, queue[h.queue], h.queue,
                                            [h.item EXCEPT !.value = k.tick], "back")
          IN k' = r.k /\ queue' = [queue EXCEPT ![h.queue] = r.q]
  /\ irqs' = irqs + 1
  /\ UNCHANGED <<app, thread, group, item, d>> /\ RecordDue

TimerStep(t) == DaemonStep(t) \/ GetTickCount(t) \/ vTimerSetReloadMode(t)

-----------------------------------------------------------------------------
\* No timer is called before its time, counted from the time its command was given
\* and not from when that was carried out, however often it has been reloaded.
NoEarlyExpiry == d.early = {}

\* A timer is active if and only if it is in one of the lists, once; a timer that
\* has been stopped or deleted is in none, and so is never called again.
ActiveTimersListed ==
  \A x \in Timer :
    Cardinality({i \in DOMAIN d.current : d.current[i] = x})
      + Cardinality({i \in DOMAIN d.overflow : d.overflow[i] = x})
      = IF d.timer[x].active THEN 1 ELSE 0

Blocked(t) == ~InReadyList(k, t) /\ ~Contains(k.pending, t)

\* The daemon never sleeps past an expiry, across the wrap of the tick count and
\* whatever commands have come: while it waits, no active timer is due before it
\* wakes, and it does not wait for a command alone if there is one.
DaemonWakesInTime ==
  \A t \in Task :
    app.calls[t] # <<>> /\ Call(t).op \in Daemon /\ Blocked(t) =>
      \A x \in Timer : d.timer[x].active =>
        /\ InDelayedList(k, t)
        /\ due[t] <= d.expects[x] \/ due[t] = KernelTime(k)

(***************************************************************************)
(* No timer expires early, none that is active is out of the lists or in   *)
(* the wrong one, and the daemon does not sleep past one.                  *)
(***************************************************************************)
TimersKept == NoEarlyExpiry /\ ActiveTimersListed /\ DaemonWakesInTime
=============================================================================
