------------------------------- MODULE Kernel -------------------------------
(***************************************************************************)
(* The kernel at run time: tasks that call it, and the interrupts between  *)
(* any two of their steps.                                                 *)
(*                                                                         *)
(* A step of the current task is one critical section, or one stretch of   *)
(* code that runs with the scheduler suspended and touches what handlers   *)
(* leave alone then; between two steps the tick or another interrupt may   *)
(* come, and a switch of tasks.  A task runs its calls in a loop; an idle  *)
(* task has none.                                                          *)
(***************************************************************************)
EXTENDS Queues

CONSTANT
  Apps       \* the applications: tasks, queues, calls and handlers

VARIABLES
  app,       \* the application that runs
  k,         \* the state of tasks.c
  queue,     \* the state of queue.c
  thread,    \* where each task is in its calls, and the locals of the call
  irqs,      \* the interrupts so far, other than ticks
  due        \* history: when the wait or the delay of each task should end

vars == <<app, k, queue, thread, irqs, due>>

(***************************************************************************)
(* An application creates its tasks in the order of the sequence tasks,    *)
(* with the priorities prio; calls[t] are the calls of t; queues are the   *)
(* queues in their first state, and handlers what interrupts may do.       *)
(* maxTicks and maxIrqs bound the interrupts; memory is what is left of    *)
(* the heap, in blocks of any size, and firstTick is                       *)
(* configINITIAL_TICK_COUNT.                                               *)
(***************************************************************************)
\* xQueueReceive and xQueueSemaphoreTake, xQueueTakeMutexRecursive, xQueuePeek.
Takes == {"receive", "take recursive"}
Looks == Takes \cup {"peek"}
Sends == {"send", "command"}
Waits == Sends \cup Looks

\* A call of the kinds below, in a program of n calls: what it is called with.
IsCall(c, n) ==
  /\ c.op \in Waits \cup {"give recursive", "reset"} => c.queue \in Queue
  /\ c.op \in Sends \cup {"give recursive"} => c.item \in Item
  /\ c.op \in Sends => c.position \in Position
  /\ c.op = "command" => \A now \in Ticks : [c.item EXCEPT !.value = now] \in Item
  /\ c.op \in Waits \cup {"delay", "until"} => c.ticks \in Ticks
  /\ c.op \in Waits \cup {"give recursive"} => c.fail \in 1..n
  /\ c.op \in {"suspend", "resume", "abort", "priority"} => c.task \in Task
  /\ c.op = "priority" => c.prio \in Priority

\* A handler does not send to a mutex (queue.c:1206).
IsHandler(h, queues) ==
  /\ h.op \in {"send", "give", "receive"} => h.queue \in Queue
  /\ h.op \in {"send", "give"} => h.item \in Item
  /\ h.op = "send" => h.position \in Position /\ queues[h.queue].kind # "mutex"
  /\ h.op = "resume" => h.task \in Task

IsApp(a) ==
  /\ a.tasks \in Seq(Task) /\ IsInjective(a.tasks)
  /\ a.prio \in [Task -> Priority] /\ a.firstTick \in Ticks
  /\ a.queues \in [Queue -> QueueState]
  /\ {a.memory, a.maxIrqs} \subseteq Nat
  /\ \A t \in Task :
       /\ a.calls[t] \in Seq(ToSet(a.calls[t]))
       /\ \A i \in DOMAIN a.calls[t] : IsCall(a.calls[t][i], Len(a.calls[t]))
  /\ \A h \in a.handlers : IsHandler(h, a.queues)

ASSUME AppsAssumption == \A a \in Apps : IsApp(a)

Call(t) == app.calls[t][thread[t].at]

\* Ticks since the start; the kernel has counted them all but the pended ones.
KernelTime(s) == s.overflows * TickMod + s.tick

\* A call that begins, with its locals: xEntryTimeSet, xTimeOut and
\* xTicksToWait, xInheritanceOccurred, and where the code goes after it has
\* unlocked the queue and resumed the scheduler.  previous is the task's own
\* variable for xTaskDelayUntil, and rounds, for the properties, how often it has
\* moved it.
Begin(at, previous, rounds) ==
  [at |-> at, pc |-> "start", timed |-> FALSE, inherited |-> FALSE, then |-> "retry",
   wait |-> [left |-> 0, entered |-> 0, epoch |-> 0],
   previous |-> previous, rounds |-> rounds]

Goto(t, pc) == thread' = [thread EXCEPT ![t].pc = pc]

Return(t) ==
  thread' = [thread EXCEPT
               ![t] = Begin(IF @.at = Len(app.calls[t]) THEN 1 ELSE @.at + 1,
                            @.previous, @.rounds)]

\* A task whose call fails goes on at the call its program names for that.
Fail(t) == thread' = [thread EXCEPT ![t] = Begin(Call(t).fail, @.previous, @.rounds)]

Running(t, ops, pc) ==
  /\ t = k.current
  /\ app.calls[t] # <<>>
  /\ Call(t).op \in ops
  /\ thread[t].pc = pc

Q(t) == queue[Call(t).queue]

\* The state of the tasks and of the queue of t's call become those of r.
Commit(t, r) == k' = r.k /\ queue' = [queue EXCEPT ![Call(t).queue] = r.q]

\* A wait ends the given number of ticks after its call found nothing, a delay
\* after the task went to sleep.
WaitBegins(t)  == thread'[t].timed /\ ~thread[t].timed
DelayBegins(t) == ~thread[t].timed /\ InDelayedList(k', t) /\ ~InDelayedList(k, t)

RecordWait(ticks) ==
  due' = [t \in Task |->
            IF WaitBegins(t) \/ DelayBegins(t) THEN KernelTime(k) + ticks
            ELSE IF thread'[t].timed \/ InDelayedList(k', t) THEN due[t] ELSE 0]

\* The ticks are those the call of the running task names, if it names any.
RecordDue ==
  LET timed == app.calls[k.current] # <<>> /\ Call(k.current).op \in Waits \cup {"delay", "until"}
  IN RecordWait(IF timed THEN Call(k.current).ticks ELSE 0)

-----------------------------------------------------------------------------
(***************************************************************************)
(* The start: the tasks are created in order, then the scheduler starts.   *)
(* The daemon task of the timers runs first and blocks; the first of the   *)
(* application's most urgent tasks is what that leaves.                    *)
(***************************************************************************)
prvInitialiseTaskLists(a) ==
  [current |-> NoTask, ready |-> [p \in Priority |-> vListInitialise], top |-> {},
   delayed |-> <<>>, overflow |-> <<>>, pending |-> <<>>, suspended |-> {},
   events |-> [e \in EventList |-> <<>>],
   unblock |-> portMAX_DELAY, tick |-> a.firstTick, overflows |-> 0, pended |-> 0,
   schedSusp |-> 0, yieldPending |-> FALSE,
   prio |-> a.prio, base |-> a.prio, held |-> [t \in Task |-> 0],
   aborted |-> [t \in Task |-> FALSE], wake |-> [t \in Task |-> 0],
   eventValue |-> [t \in Task |-> EventValue(a.prio[t])],
   eventBits |-> [t \in Task |-> FreeBits],
   note |-> [t \in Task |-> [state |-> "none", value |-> 0]],
   terminating |-> <<>>, toClean |-> 0, tasks |-> 0, alloc |-> {}, heap |-> a.memory]

AddTasks(s, tasks) ==
  LET AddNext(new, i) == prvAddNewTaskToReadyList(new, tasks[i])
  IN InTurn(AddNext, s, Len(tasks))

Init ==
  /\ app \in Apps
  /\ k = vTaskSwitchContext(AddTasks(prvInitialiseTaskLists(app), app.tasks))
  /\ queue = app.queues
  /\ thread = [t \in Task |-> Begin(1, 0, 0)]
  /\ irqs = 0
  /\ due = [t \in Task |-> 0]

-----------------------------------------------------------------------------
(***************************************************************************)
(* xQueueGenericSend, xQueueReceive, xQueueSemaphoreTake, xQueuePeek, and  *)
(* xQueueTakeMutexRecursive, which takes what its caller does not hold.    *)
(***************************************************************************)
CanGo(t) ==
  IF Call(t).op \in Sends
  THEN HasRoom(Q(t), Call(t).position)
  ELSE ~prvIsQueueEmpty(Q(t))

HoldsAlready(t) == Call(t).op = "take recursive" /\ Q(t).holder = t

\* A command to the daemon of the timers has the time its caller has read before.
ItemSent(t) ==
  IF Call(t).op = "command" THEN [Call(t).item EXCEPT !.value = thread[t].previous]
  ELSE Call(t).item

\* xTicksToWait.
TicksToWait(t) == IF thread[t].timed THEN thread[t].wait.left ELSE Call(t).ticks

\* The head of the loop, with an item or with room.
Transfer(t) ==
  /\ Running(t, Waits, "start")
  /\ CanGo(t)
  /\ Commit(t, CASE Call(t).op \in Sends ->
                      SendWithRoom(k, Q(t), Call(t).queue, ItemSent(t), Call(t).position)
                 [] Call(t).op = "receive" -> TakeItem(k, Q(t), Call(t).queue, 0)
                 [] Call(t).op = "take recursive" -> TakeItem(k, Q(t), Call(t).queue, 1)
                 [] Call(t).op = "peek" -> PeekItem(k, Q(t), Call(t).queue))
  /\ Return(t)
  /\ UNCHANGED <<app, irqs>> /\ RecordDue

\* Without, a call that may not wait fails.
TransferFails(t) ==
  /\ Running(t, Waits, "start")
  /\ ~CanGo(t) /\ ~HoldsAlready(t)
  /\ TicksToWait(t) = 0
  /\ Fail(t)
  /\ UNCHANGED <<app, k, queue, irqs>> /\ RecordDue

\* The first time round the time of entry is noted.
StartWait(t) ==
  /\ Running(t, Waits, "start")
  /\ ~CanGo(t) /\ ~HoldsAlready(t)
  /\ TicksToWait(t) # 0
  /\ thread' = [thread EXCEPT
                  ![t] = IF @.timed THEN [@ EXCEPT !.pc = "suspend"]
                         ELSE [@ EXCEPT !.pc = "suspend", !.timed = TRUE,
                                        !.wait = vTaskInternalSetTimeOutState(k, Call(t).ticks)]]
  /\ UNCHANGED <<app, k, queue, irqs>> /\ RecordDue

SuspendScheduler(t) ==
  /\ Running(t, Waits, "suspend")
  /\ k' = vTaskSuspendAll(k)
  /\ Goto(t, "lock")
  /\ UNCHANGED <<app, queue, irqs>> /\ RecordDue

LockQueue(t) ==
  /\ Running(t, Waits, "lock")
  /\ Commit(t, [k |-> k, q |-> prvLockQueue(Q(t))])
  /\ Goto(t, "check")
  /\ UNCHANGED <<app, irqs>> /\ RecordDue

CheckTimeOut(t) ==
  /\ Running(t, Waits, "check")
  /\ LET checked == xTaskCheckForTimeOut(k, thread[t].wait)
     IN /\ k' = checked.k
        /\ thread' = [thread EXCEPT
                        ![t].wait = checked.wait,
                        ![t].pc = IF checked.yes THEN "unlockTx" ELSE "test",
                        ![t].then = IF checked.yes THEN "expired" ELSE "retry"]
  /\ UNCHANGED <<app, queue, irqs>> /\ RecordDue

\* prvIsQueueFull, prvIsQueueEmpty.
TestQueue(t) ==
  /\ Running(t, Waits, "test")
  /\ LET stuck == IF Call(t).op \in Sends THEN prvIsQueueFull(Q(t))
                  ELSE prvIsQueueEmpty(Q(t))
         mutex == Q(t).kind = "mutex" /\ Call(t).op \in Takes
     IN Goto(t, CASE ~stuck -> "unlockTx"
                  [] stuck /\ mutex -> "inherit"
                  [] stuck /\ ~mutex -> "block")
  /\ UNCHANGED <<app, k, queue, irqs>> /\ RecordDue

Inherit(t) ==
  /\ Running(t, Takes, "inherit")
  /\ LET raised == xTaskPriorityInherit(k, Q(t).holder)
     IN /\ k' = raised.k
        /\ thread' = [thread EXCEPT ![t].pc = "block", ![t].inherited = raised.yes]
  /\ UNCHANGED <<app, queue, irqs>> /\ RecordDue

Block(t) ==
  /\ Running(t, Waits, "block")
  /\ k' = vTaskPlaceOnEventList(
            k, <<Call(t).queue, IF Call(t).op \in Sends THEN "send" ELSE "receive">>,
            thread[t].wait.left)
  /\ thread' = [thread EXCEPT ![t].pc = "unlockTx", ![t].then = "blocked"]
  /\ UNCHANGED <<app, queue, irqs>> /\ RecordDue

UnlockSenders(t) ==
  /\ Running(t, Waits, "unlockTx")
  /\ Commit(t, UnlockTx(k, Q(t), Call(t).queue))
  /\ Goto(t, "unlockRx")
  /\ UNCHANGED <<app, irqs>> /\ RecordDue

UnlockReceivers(t) ==
  /\ Running(t, Waits, "unlockRx")
  /\ Commit(t, UnlockRx(k, Q(t), Call(t).queue))
  /\ Goto(t, "resume")
  /\ UNCHANGED <<app, irqs>> /\ RecordDue

\* xTaskResumeAll.  A task that has blocked yields, unless it has done so here.
\* A send whose time is over fails; a receiver looks once more.
ResumeScheduler(t) ==
  /\ Running(t, Waits, "resume")
  /\ LET resumed == xTaskResumeAll(k)
     IN /\ k' = resumed.k
        /\ CASE thread[t].then = "blocked" ->
                  Goto(t, IF resumed.yes THEN "start" ELSE "yield")
             [] thread[t].then = "retry" -> Goto(t, "start")
             [] thread[t].then = "expired" ->
                  IF Call(t).op \in Sends THEN Fail(t) ELSE Goto(t, "expired")
  /\ UNCHANGED <<app, queue, irqs>> /\ RecordDue

Yield(t) ==
  /\ Running(t, Waits, "yield")
  /\ k' = vTaskSwitchContext(k)
  /\ Goto(t, "start")
  /\ UNCHANGED <<app, queue, irqs>> /\ RecordDue

\* The last look: an item has come after all, or the call fails.
Expired(t) ==
  /\ Running(t, Looks, "expired")
  /\ IF prvIsQueueEmpty(Q(t))
     THEN IF thread[t].inherited THEN Goto(t, "disinherit") ELSE Fail(t)
     ELSE Goto(t, "start")
  /\ UNCHANGED <<app, k, queue, irqs>> /\ RecordDue

Disinherit(t) ==
  /\ Running(t, Takes, "disinherit")
  /\ k' = vTaskPriorityDisinheritAfterTimeout(
            k, Q(t).holder, HighestWaiting(k, Call(t).queue))
  /\ Fail(t)
  /\ UNCHANGED <<app, queue, irqs>> /\ RecordDue

\* xQueueTakeMutexRecursive by the holder, and xQueueGiveMutexRecursive: the
\* count is the holder's alone, and the last give is one of the mutex.
TakeAgain(t) ==
  /\ Running(t, {"take recursive"}, "start")
  /\ HoldsAlready(t)
  /\ Commit(t, [k |-> k, q |-> [Q(t) EXCEPT !.recursion = @ + 1]])
  /\ Return(t)
  /\ UNCHANGED <<app, irqs>> /\ RecordDue

GiveRecursive(t) ==
  /\ Running(t, {"give recursive"}, "start")
  /\ LET less == [Q(t) EXCEPT !.recursion = @ - 1]
     IN CASE Q(t).holder # t -> UNCHANGED <<k, queue>> /\ Fail(t)
          [] Q(t).holder = t /\ less.recursion # 0 ->
               Commit(t, [k |-> k, q |-> less]) /\ Return(t)
          [] Q(t).holder = t /\ less.recursion = 0 ->
               Commit(t, SendWithRoom(k, less, Call(t).queue, Call(t).item, "back")) /\ Return(t)
  /\ UNCHANGED <<app, irqs>> /\ RecordDue

\* xQueueReset.
Reset(t) ==
  /\ Running(t, {"reset"}, "start")
  /\ Commit(t, xQueueGenericReset(k, Q(t), Call(t).queue))
  /\ Return(t)
  /\ UNCHANGED <<app, irqs>> /\ RecordDue

QueueStep(t) ==
  \/ Transfer(t) \/ TransferFails(t) \/ StartWait(t) \/ SuspendScheduler(t)
  \/ LockQueue(t) \/ CheckTimeOut(t) \/ TestQueue(t) \/ Inherit(t) \/ Block(t)
  \/ UnlockSenders(t) \/ UnlockReceivers(t) \/ ResumeScheduler(t) \/ Yield(t)
  \/ Expired(t) \/ Disinherit(t) \/ TakeAgain(t) \/ GiveRecursive(t) \/ Reset(t)

-----------------------------------------------------------------------------
(***************************************************************************)
(* vTaskDelay, xTaskDelayUntil, vTaskSuspend, vTaskResume,                 *)
(* vTaskPrioritySet, xTaskAbortDelay.                                      *)
(***************************************************************************)
\* Their first step, for those that suspend the scheduler (no delay only
\* yields).
BeginSuspended(t) ==
  /\ Running(t, {"delay", "until", "abort"}, "start")
  /\ IF Call(t).op = "delay" /\ Call(t).ticks = 0
     THEN k' = vTaskSwitchContext(k) /\ Return(t)
     ELSE k' = vTaskSuspendAll(k) /\ Goto(t, "suspended")
  /\ UNCHANGED <<app, queue, irqs>> /\ RecordDue

Delay(t) ==
  /\ Running(t, {"delay"}, "suspended")
  /\ k' = prvAddCurrentTaskToDelayedList(k, Call(t).ticks, FALSE)
  /\ Goto(t, "resume")
  /\ UNCHANGED <<app, queue, irqs>> /\ RecordDue

\* slip: the next period starts when the task is ready for it
RestartPeriod(now, previous, increment) == (now + increment) % TickMod

\* xTimeToWake.
TimeToWake(now, previous, increment) == (previous + increment) % TickMod

\* The time to wake is to come, of which the wrap of either count is no sign.
ShouldDelay(now, previous, wake) ==
  IF now < previous THEN wake < previous /\ wake > now
  ELSE wake < previous \/ wake > now

DelayUntil(t) ==
  /\ Running(t, {"until"}, "suspended")
  /\ LET wake == TimeToWake(k.tick, thread[t].previous, Call(t).ticks)
         wait == (wake - k.tick) % TickMod
     IN /\ k' = IF ShouldDelay(k.tick, thread[t].previous, wake)
                THEN prvAddCurrentTaskToDelayedList(k, wait, FALSE) ELSE k
        /\ thread' = [thread EXCEPT ![t].pc = "resume", ![t].previous = wake,
                                    ![t].rounds = @ + 1]
        /\ RecordWait(wait)
  /\ UNCHANGED <<app, queue, irqs>>

Abort(t) ==
  /\ Running(t, {"abort"}, "suspended")
  /\ k' = xTaskAbortDelay(k, Call(t).task)
  /\ Goto(t, "resume")
  /\ UNCHANGED <<app, queue, irqs>> /\ RecordDue

EndSuspended(t) ==
  /\ Running(t, {"delay", "until", "abort"}, "resume")
  /\ LET resumed == xTaskResumeAll(k)
     IN /\ k' = resumed.k
        /\ IF resumed.yes \/ Call(t).op = "abort" THEN Return(t) ELSE Goto(t, "yield")
  /\ UNCHANGED <<app, queue, irqs>> /\ RecordDue

Suspend(t) ==
  /\ Running(t, {"suspend"}, "start")
  /\ k' = vTaskSuspend(k, Call(t).task)
  /\ Goto(t, "reset")
  /\ UNCHANGED <<app, queue, irqs>> /\ RecordDue

EndSuspend(t) ==
  /\ Running(t, {"suspend"}, "reset")
  /\ k' = prvResetNextTaskUnblockTime(k)
  /\ IF Call(t).task = t THEN Goto(t, "yield") ELSE Return(t)
  /\ UNCHANGED <<app, queue, irqs>> /\ RecordDue

YieldAndReturn(t) ==
  /\ Running(t, {"delay", "until", "suspend"}, "yield")
  /\ k' = vTaskSwitchContext(k)
  /\ Return(t)
  /\ UNCHANGED <<app, queue, irqs>> /\ RecordDue

Resume(t) ==
  /\ Running(t, {"resume"}, "start")
  /\ k' = vTaskResume(k, Call(t).task)
  /\ Return(t)
  /\ UNCHANGED <<app, queue, irqs>> /\ RecordDue

PrioritySet(t) ==
  /\ Running(t, {"priority"}, "start")
  /\ k' = vTaskPrioritySet(k, Call(t).task, Call(t).prio)
  /\ Return(t)
  /\ UNCHANGED <<app, queue, irqs>> /\ RecordDue

TaskStep(t) ==
  \/ BeginSuspended(t) \/ Delay(t) \/ DelayUntil(t) \/ Abort(t) \/ EndSuspended(t)
  \/ Suspend(t) \/ EndSuspend(t) \/ YieldAndReturn(t) \/ Resume(t) \/ PrioritySet(t)

-----------------------------------------------------------------------------
(***************************************************************************)
(* Interrupts.  The handler of the timer switches tasks if the tick says   *)
(* so; the others send to a queue, receive from one or resume a task.      *)
(***************************************************************************)
Tick ==
  /\ k.current # NoTask
  /\ KernelTime(k) + k.pended < app.maxTicks
  /\ LET ticked == xTaskIncrementTick(k)
     IN k' = YieldIf(ticked.k, ticked.yes)
  /\ UNCHANGED <<app, queue, thread, irqs>> /\ RecordDue

QueueIrq(h) ==
  /\ h.op \in {"send", "give", "receive"}
  /\ LET q == queue[h.queue]
         r == CASE h.op = "send" ->
                     xQueueGenericSendFromISR(k, q, h.queue, h.item, h.position)
                [] h.op = "give" -> xQueueGiveFromISR(k, q, h.queue, h.item)
                [] h.op = "receive" -> xQueueReceiveFromISR(k, q, h.queue)
     IN k' = r.k /\ queue' = [queue EXCEPT ![h.queue] = r.q]

ResumeIrq(h) ==
  /\ h.op = "resume"
  /\ k' = xTaskResumeFromISR(k, h.task)
  /\ UNCHANGED queue

Irq ==
  /\ k.current # NoTask
  /\ irqs < app.maxIrqs
  /\ \E h \in app.handlers : QueueIrq(h) \/ ResumeIrq(h)
  /\ irqs' = irqs + 1
  /\ UNCHANGED <<app, thread>> /\ RecordDue

Next == Tick \/ Irq \/ \E t \in Task : QueueStep(t) \/ TaskStep(t)

Spec == Init /\ [][Next]_vars
=============================================================================
