-------------------------------- MODULE Tasks -------------------------------
(***************************************************************************)
(* The task functions of the FreeRTOS kernel (tasks.c), in the             *)
(* configuration of FreeRTOSConfig.h and portmacro.h: preemption, time     *)
(* slicing, ready priorities in a bit map, mutexes, delays that can be     *)
(* aborted.  A function of the kernel is an operator from the kernel's     *)
(* state to the next one, under the name it has in the code; one that      *)
(* answers is a record of the next state k and the answer yes.             *)
(*                                                                         *)
(* The state k:                                                            *)
(*   current                    pxCurrentTCB                               *)
(*   ready, top                 pxReadyTasksLists, uxTopReadyPriority      *)
(*   delayed, overflow          pxDelayedTaskList, pxOverflowDelayed...    *)
(*   suspended, pending         xSuspendedTaskList, xPendingReadyList      *)
(*   events                     the event lists of the queues              *)
(*   unblock                    xNextTaskUnblockTime                       *)
(*   tick, overflows, pended    xTickCount, xNumOfOverflows, xPendedTicks  *)
(*   schedSusp, yieldPending    uxSchedulerSuspended, xYieldPending        *)
(*   prio, base, held, aborted  fields of the TCBs                         *)
(*   note                       their notification state and value         *)
(*   wake, eventValue           the values of their two list items         *)
(*   eventBits                  the value of the event item while an event *)
(*                              group uses it                              *)
(*   terminating, toClean       xTasksWaitingTermination, uxDeletedTasks.. *)
(*   tasks                      uxCurrentNumberOfTasks                     *)
(*   alloc, heap                the TCBs in memory, the blocks left there  *)
(*                                                                         *)
(* A definition whose comment starts with "slip" is not part of the model: *)
(* it is what its neighbour would be after a plausible mistake, and the    *)
(* properties are shown to tell the two apart.                             *)
(***************************************************************************)
EXTENDS KernelList, FiniteSets

CONSTANTS
  Task,         \* the tasks
  NoTask,       \* not one of them
  MaxPriorities,\* configMAX_PRIORITIES
  TickMod,      \* 2^32: the number of values of the tick count
  Queue,        \* the queues, semaphores and mutexes
  EventGroup,   \* the event groups
  EventBit,     \* the bits of an event group
  ValueMod      \* 2^32: the number of values of a notification

ASSUME TaskAssumption ==
  /\ NoTask \notin Task
  /\ MaxPriorities \in Nat \ {0}
  /\ TickMod \in Nat \ {0, 1}
  /\ ValueMod \in Nat \ {0, 1}

Priority == 0..(MaxPriorities - 1)
Ticks    == 0..(TickMod - 1)
portMAX_DELAY == TickMod - 1

\* The two event lists of a queue, xTasksWaitingToSend and
\* xTasksWaitingToReceive, and that of an event group, xTasksWaitingForBits.
EventList == (Queue \X {"send", "receive"}) \cup (EventGroup \X {"bits"})

\* The value of an event item that an event group uses: the bits a task waits
\* for and how, or the bits that ended its wait.
EventFlag == {"in use", "unblocked", "clear", "all"}
FreeBits == [bits |-> {}, flags |-> {}]

KernelState ==
  [current : Task \cup {NoTask},
   ready : [Priority -> [items : Seq(Task), index : Nat]],
   top : SUBSET Priority,
   delayed : Seq(Task), overflow : Seq(Task), pending : Seq(Task),
   suspended : SUBSET Task,
   events : [EventList -> Seq(Task)],
   unblock : Ticks, tick : Ticks, overflows : Nat, pended : Nat,
   schedSusp : Nat, yieldPending : BOOLEAN,
   prio : [Task -> Priority], base : [Task -> Priority],
   held : [Task -> Nat], aborted : [Task -> BOOLEAN],
   wake : [Task -> Ticks], eventValue : [Task -> 1..MaxPriorities],
   eventBits : [Task -> [bits : SUBSET EventBit, flags : SUBSET EventFlag]],
   note : [Task -> [state : {"none", "waiting", "received"}, value : 0..(ValueMod - 1)]],
   terminating : Seq(Task), toClean : Nat, tasks : Nat,
   alloc : SUBSET Task, heap : Nat]

Answer(k, b) == [k |-> k, yes |-> b]

-----------------------------------------------------------------------------
(***************************************************************************)
(* List items.  The state item of a task is in a ready list, a delayed     *)
(* list, the suspended list or the list of those that have deleted         *)
(* themselves; its event item in an event list, in the pending list or in  *)
(* none.                                                                   *)
(***************************************************************************)
InReadyList(k, t) == Contains(k.ready[k.prio[t]].items, t)
InDelayedList(k, t) == Contains(k.delayed, t) \/ Contains(k.overflow, t)
InEventList(k, t) ==
  Contains(k.pending, t) \/ \E e \in EventList : Contains(k.events[e], t)

\* The value of a state item is read in the delayed lists only: 0 elsewhere.
RemoveStateItem(k, t) ==
  [k EXCEPT !.wake[t] = 0,
            !.ready = [p \in Priority |-> uxListRemove(@[p], t)],
            !.delayed = Unlink(@, t),
            !.overflow = Unlink(@, t),
            !.suspended = @ \ {t},
            !.terminating = Unlink(@, t)]

RemoveEventItem(k, t) ==
  [k EXCEPT !.pending = Unlink(@, t),
            !.events = [e \in EventList |-> Unlink(@[e], t)]]

\* The count uxListRemove is about to return for t's state item is zero.
AloneInList(k, t) ==
  \/ \E p \in Priority : k.ready[p].items = <<t>>
  \/ k.delayed = <<t>> \/ k.overflow = <<t>> \/ k.suspended = {t}
  \/ k.terminating = <<t>>

portRESET_READY_PRIORITY(k, p) == [k EXCEPT !.top = @ \ {p}]

taskRESET_READY_PRIORITY(k, p) ==
  IF k.ready[p].items = <<>> THEN portRESET_READY_PRIORITY(k, p) ELSE k

prvAddTaskToReadyList(k, t) ==
  [k EXCEPT !.top = @ \cup {k.prio[t]},
            !.ready[k.prio[t]] = vListInsertEnd(@, t)]

\* A task leaves its ready list, and the bit of its priority p is cleared
\* when it was the last one there.
LeaveReadyList(k, t, p) ==
  IF AloneInList(k, t)
  THEN portRESET_READY_PRIORITY(RemoveStateItem(k, t), p)
  ELSE RemoveStateItem(k, t)

\* slip: it goes on waiting for its event
UnblockStateOnly(k, t) == prvAddTaskToReadyList(RemoveStateItem(k, t), t)

Unblock(k, t) ==
  prvAddTaskToReadyList(RemoveEventItem(RemoveStateItem(k, t), t), t)

-----------------------------------------------------------------------------
(***************************************************************************)
(* The scheduler.                                                          *)
(***************************************************************************)
\* portGET_HIGHEST_PRIORITY and listGET_OWNER_OF_NEXT_ENTRY.  The owner read
\* from an empty list, or with an empty bit map, is no task.
taskSELECT_HIGHEST_PRIORITY_TASK(k) ==
  LET p == CHOOSE q \in k.top : \A r \in k.top : r <= q
  IN IF k.top = {} \/ k.ready[p].items = <<>>
     THEN [k EXCEPT !.current = NoTask]
     ELSE [k EXCEPT !.current = listGET_OWNER_OF_NEXT_ENTRY(k.ready[p]),
                    !.ready[p] = WalkToNext(@)]

vTaskSwitchContext(k) ==
  IF k.schedSusp # 0
  THEN [k EXCEPT !.yieldPending = TRUE]
  ELSE taskSELECT_HIGHEST_PRIORITY_TASK([k EXCEPT !.yieldPending = FALSE])

prvResetNextTaskUnblockTime(k) ==
  [k EXCEPT !.unblock = IF k.delayed = <<>> THEN portMAX_DELAY
                        ELSE k.wake[Head(k.delayed)]]

taskSWITCH_DELAYED_LISTS(k) ==
  prvResetNextTaskUnblockTime(
    [k EXCEPT !.delayed = k.overflow, !.overflow = k.delayed, !.overflows = @ + 1])

\* The tasks at the head of the delayed list whose time has come.
DueTasks(k) ==
  LET n == Cardinality({i \in DOMAIN k.delayed :
                          \A j \in 1..i : k.wake[k.delayed[j]] <= k.tick})
  IN SubSeq(k.delayed, 1, n)

UnblockAll(k, tasks) ==
  LET UnblockNext(s, i) == Unblock(s, tasks[i]) IN InTurn(UnblockNext, k, Len(tasks))

\* Unblocks what is due, once the time for which that was put off is reached.
UnblockDueTasks(k) ==
  IF k.tick >= k.unblock
  THEN prvResetNextTaskUnblockTime(UnblockAll(k, DueTasks(k)))
  ELSE k

\* The answer: a context switch is required.
xTaskIncrementTick(k) ==
  IF k.schedSusp # 0
  THEN Answer([k EXCEPT !.pended = @ + 1], FALSE)
  ELSE LET ticked  == [k EXCEPT !.tick = (@ + 1) % TickMod]
           turned  == IF ticked.tick = 0 THEN taskSWITCH_DELAYED_LISTS(ticked)
                      ELSE ticked
           after   == UnblockDueTasks(turned)
           woken   == IF turned.tick >= turned.unblock
                      THEN ToSet(DueTasks(turned)) ELSE {}
           running == k.prio[k.current]
       IN Answer(after,
                 \/ \E t \in woken : k.prio[t] >= running
                 \/ Len(after.ready[running].items) > 1
                 \/ k.yieldPending)

vTaskSuspendAll(k) == [k EXCEPT !.schedSusp = @ + 1]

FromPending(k, t) ==
  LET moved == Unblock(k, t)
  IN IF k.prio[t] >= k.prio[k.current]
     THEN [moved EXCEPT !.yieldPending = TRUE] ELSE moved

UnblockPending(k, tasks) ==
  LET NextPending(s, i) == FromPending(s, tasks[i]) IN InTurn(NextPending, k, Len(tasks))

PendedTickQuiet(k, i) == xTaskIncrementTick(k).k   \* slip: its answer is lost
PendedTick(k, i) ==
  LET ticked == xTaskIncrementTick(k)
  IN IF ticked.yes THEN [ticked.k EXCEPT !.yieldPending = TRUE] ELSE ticked.k

\* The answer: the task has already yielded.
xTaskResumeAll(k) ==
  LET resumed == [k EXCEPT !.schedSusp = @ - 1]
      moved   == IF k.pending = <<>> THEN resumed
                 ELSE prvResetNextTaskUnblockTime(UnblockPending(resumed, k.pending))
      ticked  == [InTurn(PendedTick, moved, k.pended) EXCEPT !.pended = 0]
  IN IF resumed.schedSusp # 0 THEN Answer(resumed, FALSE)
     ELSE IF ticked.yieldPending THEN Answer(vTaskSwitchContext(ticked), TRUE)
     ELSE Answer(ticked, FALSE)

-----------------------------------------------------------------------------
(***************************************************************************)
(* Blocking and waking.                                                    *)
(***************************************************************************)
prvAddCurrentTaskToDelayedList(k, ticks, forever) ==
  LET t    == k.current
      left == LeaveReadyList([k EXCEPT !.aborted[t] = FALSE], t, k.prio[t])
      wake == (k.tick + ticks) % TickMod
      set  == [left EXCEPT !.wake[t] = wake]
  IN IF ticks = portMAX_DELAY /\ forever
     THEN [left EXCEPT !.suspended = @ \cup {t}]
     ELSE IF wake < k.tick
     THEN [set EXCEPT !.overflow = vListInsert(@, t, set.wake)]
     ELSE [set EXCEPT !.delayed = vListInsert(@, t, set.wake),
                      !.unblock = IF wake < @ THEN wake ELSE @]

vTaskPlaceOnEventList(k, e, ticks) ==
  prvAddCurrentTaskToDelayedList(
    [k EXCEPT !.events[e] = vListInsert(@, k.current, k.eventValue)], ticks, TRUE)

\* The answer: the task that was woken is more urgent than the current one.
xTaskRemoveFromEventList(k, e) ==
  LET t      == Head(k.events[e])
      urgent == k.prio[t] > k.prio[k.current]
      woken  == IF k.schedSusp = 0 THEN Unblock(k, t)
                ELSE [RemoveEventItem(k, t) EXCEPT !.pending = Append(@, t)]
  IN Answer([woken EXCEPT !.yieldPending = @ \/ urgent], urgent)

\* The daemon task's own wait: its event list has no other waiter.
vTaskPlaceOnEventListRestricted(k, e, ticks, forever) ==
  prvAddCurrentTaskToDelayedList(
    [k EXCEPT !.events[e] = Append(@, k.current)],
    IF forever THEN portMAX_DELAY ELSE ticks, forever)

\* slip: xOverflowCount is not noted
TimeOutWithoutEpoch(k, ticks) == [left |-> ticks, entered |-> k.tick, epoch |-> 0]

\* A wait: the ticks left, and the tick and overflow counts it is counted from.
vTaskInternalSetTimeOutState(k, ticks) ==
  [left |-> ticks, entered |-> k.tick, epoch |-> k.overflows]

\* The answer: the wait is over.
xTaskCheckForTimeOut(k, wait) ==
  LET elapsed == (k.tick - wait.entered) % TickMod
      none    == [wait EXCEPT !.left = 0]
  IN CASE k.aborted[k.current] ->
            [k |-> [k EXCEPT !.aborted[k.current] = FALSE], wait |-> wait, yes |-> TRUE]
       [] ~k.aborted[k.current] /\ wait.left = portMAX_DELAY ->
            [k |-> k, wait |-> wait, yes |-> FALSE]
       [] OTHER ->
            IF k.overflows # wait.epoch /\ k.tick >= wait.entered
            THEN [k |-> k, wait |-> none, yes |-> TRUE]
            ELSE IF elapsed < wait.left
            THEN [k |-> k, yes |-> FALSE,
                  wait |-> vTaskInternalSetTimeOutState(k, wait.left - elapsed)]
            ELSE [k |-> k, wait |-> none, yes |-> TRUE]

-----------------------------------------------------------------------------
(***************************************************************************)
(* Priorities.  An event item is ordered by the complement of a priority.  *)
(***************************************************************************)
EventValue(p) == MaxPriorities - p

\* While an event group uses the item, its value is not a priority.
Reprioritise(k, t, p) ==
  IF "in use" \in k.eventBits[t].flags THEN k
  ELSE [k EXCEPT !.eventValue[t] = EventValue(p)]

\* t moves between ready lists with its priority; bit is the priority whose
\* bit is cleared when its old list is left empty.
Requeue(k, t, p, bit) ==
  LET left == IF InReadyList(k, t) THEN LeaveReadyList(k, t, bit) ELSE k
      set  == [left EXCEPT !.prio[t] = p]
  IN IF InReadyList(k, t) THEN prvAddTaskToReadyList(set, t) ELSE set

\* The answer: the holder has, now or before, been raised for a waiter.
xTaskPriorityInherit(k, holder) ==
  IF holder = NoTask THEN Answer(k, FALSE)
  ELSE LET p == k.prio[k.current]
       IN IF k.prio[holder] < p
          THEN Answer(Requeue(Reprioritise(k, holder, p), holder, p, k.prio[holder]), TRUE)
          ELSE Answer(k, k.base[holder] < p)

\* The answer: the caller has lost the priority it had, and should yield.
xTaskPriorityDisinherit(k, holder) ==
  IF holder = NoTask THEN Answer(k, FALSE)
  ELSE LET given == [k EXCEPT !.held[holder] = @ - 1]
           base  == k.base[holder]
       IN IF k.prio[holder] # base /\ given.held[holder] = 0
          THEN Answer(
                 prvAddTaskToReadyList(
                   [LeaveReadyList(given, holder, k.prio[holder])
                      EXCEPT !.prio[holder] = base,
                             !.eventValue[holder] = EventValue(base)], holder),
                 TRUE)
          ELSE Answer(given, FALSE)

\* The bit that is cleared is that of the new priority, not of the list the
\* holder was in.
vTaskPriorityDisinheritAfterTimeout(k, holder, waiting) ==
  IF holder = NoTask THEN k
  ELSE LET p == IF k.base[holder] < waiting THEN waiting ELSE k.base[holder]
       IN IF k.prio[holder] # p /\ k.held[holder] = 1
          THEN Requeue(Reprioritise(k, holder, p), holder, p, p)
          ELSE k

-----------------------------------------------------------------------------
(***************************************************************************)
(* Calls of one task about another.                                        *)
(***************************************************************************)
\* The yield inside a critical section is an ecall, which is taken at once.
YieldIf(k, b) == IF b THEN vTaskSwitchContext(k) ELSE k

vTaskPrioritySet(k, t, p) ==
  LET yield == IF p > k.base[t]
               THEN t # k.current /\ p >= k.prio[k.current]
               ELSE t = k.current
      set   == Requeue(Reprioritise([k EXCEPT !.base[t] = p], t, p), t,
                       IF k.base[t] = k.prio[t] THEN p ELSE k.prio[t], k.prio[t])
  IN IF k.base[t] = p THEN k ELSE YieldIf(set, yield)

\* Up to the second critical section, which resets the next unblock time.
vTaskSuspend(k, t) ==
  LET left  == RemoveEventItem(RemoveStateItem(k, t), t)
      reset == IF AloneInList(k, t) THEN taskRESET_READY_PRIORITY(left, k.prio[t])
               ELSE left
  IN [reset EXCEPT !.suspended = @ \cup {t},
                   !.note[t].state = IF @ = "waiting" THEN "none" ELSE @]

prvTaskIsTaskSuspended(k, t) == t \in k.suspended /\ ~InEventList(k, t)

vTaskResume(k, t) ==
  IF t # k.current /\ prvTaskIsTaskSuspended(k, t)
  THEN YieldIf(prvAddTaskToReadyList(RemoveStateItem(k, t), t),
               k.prio[t] >= k.prio[k.current])
  ELSE k

\* A task that waits for a notification alone counts as suspended above, and as
\* blocked here.
eBlocked(k, t) ==
  /\ t # k.current
  /\ \/ InDelayedList(k, t)
     \/ t \in k.suspended /\ (InEventList(k, t) \/ k.note[t].state = "waiting")

\* From a handler: the pending list takes the task if the scheduler is suspended.
xTaskResumeFromISR(k, t) ==
  LET urgent == k.prio[t] >= k.prio[k.current]
  IN CASE ~prvTaskIsTaskSuspended(k, t) -> k
       [] prvTaskIsTaskSuspended(k, t) /\ k.schedSusp = 0 ->
            YieldIf([prvAddTaskToReadyList(RemoveStateItem(k, t), t)
                       EXCEPT !.yieldPending = @ \/ urgent], urgent)
       [] prvTaskIsTaskSuspended(k, t) /\ k.schedSusp # 0 ->
            [k EXCEPT !.pending = Append(@, t)]

\* With the scheduler suspended, between its suspension and its resumption.
xTaskAbortDelay(k, t) ==
  IF ~eBlocked(k, t) THEN k
  ELSE [Unblock(k, t) EXCEPT
          !.aborted[t] = @ \/ InEventList(k, t),
          !.yieldPending = @ \/ k.prio[t] > k.prio[k.current]]

-----------------------------------------------------------------------------
(***************************************************************************)
(* Tasks that begin and end.                                               *)
(***************************************************************************)
\* The TCB of a task that has just been given its memory.
prvInitialiseNewTask(k, t, p) ==
  [k EXCEPT !.prio[t] = p, !.base[t] = p, !.held[t] = 0, !.aborted[t] = FALSE,
            !.wake[t] = 0, !.eventValue[t] = EventValue(p), !.eventBits[t] = FreeBits,
            !.note[t] = [state |-> "none", value |-> 0]]

\* The critical section of prvAddNewTaskToReadyList.
prvAddNewTaskToReadyList(k, t) ==
  prvAddTaskToReadyList([k EXCEPT !.tasks = @ + 1, !.alloc = @ \cup {t}], t)

\* The critical section of vTaskDelete.  A task that deletes itself is left to
\* the idle task.
vTaskDelete(k, t) ==
  LET left  == RemoveEventItem(RemoveStateItem(k, t), t)
      reset == IF AloneInList(k, t) THEN taskRESET_READY_PRIORITY(left, k.prio[t])
               ELSE left
  IN IF t = k.current
     THEN [reset EXCEPT !.terminating = Append(@, t), !.toClean = @ + 1]
     ELSE prvResetNextTaskUnblockTime([reset EXCEPT !.tasks = @ - 1])

\* The critical section of prvCheckTasksWaitingTermination.
CleanUp(k) ==
  [RemoveStateItem(k, Head(k.terminating)) EXCEPT !.tasks = @ - 1, !.toClean = @ - 1]

\* The two blocks of prvDeleteTCB: a stack and a TCB.
FreeStack(k)  == [k EXCEPT !.heap = @ + 1]
FreeTCB(k, t) == [k EXCEPT !.heap = @ + 1, !.alloc = @ \ {t}]
=============================================================================
