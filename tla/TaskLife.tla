------------------------------ MODULE TaskLife ------------------------------
(***************************************************************************)
(* Tasks that create and delete each other (tasks.c): xTaskCreate,         *)
(* vTaskDelete, the idle task that frees what deleted itself, and          *)
(* xTaskGetHandle, which walks the lists they are in.                      *)
(*                                                                         *)
(* pvPortMalloc and vPortFree work with the scheduler suspended, and       *)
(* resuming it may switch tasks: a call that allocates or frees twice can  *)
(* be overtaken in between.                                                *)
(***************************************************************************)
EXTENDS Kernel

VARIABLE tcb   \* pxNewTCB, pxTCB: the TCB that the call of each task works on

NoTcb == [t \in Task |-> NoTask]

\* The tasks of which the TCB is being made or freed belong to no list.
InTheWorks(t) == tcb[t] # NoTask /\ thread[t].pc # "compare"
Living == k.alloc \ {tcb[c] : c \in {c \in Task : InTheWorks(c)}}

\* The answer of an allocation or a release is followed by xTaskResumeAll.
ResumeWith(state) == k' = xTaskResumeAll(state).k

-----------------------------------------------------------------------------
(***************************************************************************)
(* xTaskCreate.  The stack comes first, so that it may grow down without   *)
(* reaching the TCB; without a TCB it is given back.                       *)
(***************************************************************************)
\* What the call does next with the heap, once the scheduler is suspended.
HeapStep(op, pc) ==
  CASE op = "create" /\ pc = "start" -> "stack"
    [] op = "create" /\ pc = "more" -> "tcb"
    [] op = "create" /\ pc = "undo" -> "undone"
    [] op # "create" /\ pc = "delete" -> "stack freed"
    [] op # "create" /\ pc = "delete tcb" -> "tcb freed"

EnterHeap(t) ==
  /\ \/ Running(t, {"create"}, "start") \/ Running(t, {"create"}, "more")
     \/ Running(t, {"create"}, "undo")
     \/ Running(t, {"delete", "idle"}, "delete")
     \/ Running(t, {"delete", "idle"}, "delete tcb")
  /\ k' = vTaskSuspendAll(k)
  /\ Goto(t, HeapStep(Call(t).op, thread[t].pc))
  /\ UNCHANGED <<app, queue, irqs, tcb>> /\ RecordDue

AllocateStack(t) ==
  /\ Running(t, {"create"}, "stack")
  /\ IF k.heap = 0
     THEN ResumeWith(k) /\ Fail(t)
     ELSE ResumeWith([k EXCEPT !.heap = @ - 1]) /\ Goto(t, "more")
  /\ UNCHANGED <<app, queue, irqs, tcb>> /\ RecordDue

AllocateTCB(t) ==
  /\ Running(t, {"create"}, "tcb")
  /\ IF k.heap = 0
     THEN ResumeWith(k) /\ Goto(t, "undo") /\ UNCHANGED tcb
     ELSE \E n \in Task \ k.alloc :
            /\ ResumeWith([k EXCEPT !.heap = @ - 1, !.alloc = @ \cup {n}])
            /\ tcb' = [tcb EXCEPT ![t] = n]
            /\ Goto(t, "add")
  /\ UNCHANGED <<app, queue, irqs>> /\ RecordDue

\* slip: the stack stays allocated
KeepStack(t) ==
  /\ Running(t, {"create"}, "undone")
  /\ ResumeWith(k)
  /\ Fail(t)
  /\ UNCHANGED <<app, queue, irqs, tcb>> /\ RecordDue

UndoStack(t) ==
  /\ Running(t, {"create"}, "undone")
  /\ ResumeWith(FreeStack(k))
  /\ Fail(t)
  /\ UNCHANGED <<app, queue, irqs, tcb>> /\ RecordDue

\* The new task starts at its first call when it is first switched to.
AddTask(t) ==
  /\ Running(t, {"create"}, "add")
  /\ k' = prvAddNewTaskToReadyList(
            prvInitialiseNewTask(k, tcb[t], Call(t).prio), tcb[t])
  /\ thread' = [thread EXCEPT ![t].pc = "compare", ![tcb[t]] = Begin(1, 0, 0)]
  /\ UNCHANGED <<app, queue, irqs, tcb>> /\ RecordDue

\* After the critical section, the priority is read from the TCB again.
YieldToNew(t) ==
  /\ Running(t, {"create"}, "compare")
  /\ k' = YieldIf(k, k.prio[t] < k.prio[tcb[t]])
  /\ tcb' = [tcb EXCEPT ![t] = NoTask]
  /\ Return(t)
  /\ UNCHANGED <<app, queue, irqs>> /\ RecordDue

-----------------------------------------------------------------------------
(***************************************************************************)
(* vTaskDelete and the idle task.                                          *)
(***************************************************************************)
Delete(t) ==
  /\ Running(t, {"delete"}, "start")
  /\ k' = vTaskDelete(k, Call(t).task)
  /\ IF Call(t).task = t
     THEN Goto(t, "gone") /\ UNCHANGED tcb
     ELSE Goto(t, "delete") /\ tcb' = [tcb EXCEPT ![t] = Call(t).task]
  /\ UNCHANGED <<app, queue, irqs>> /\ RecordDue

\* The last a task does that deletes itself.
YieldForEver(t) ==
  /\ Running(t, {"delete"}, "gone")
  /\ k' = vTaskSwitchContext(k)
  /\ UNCHANGED <<app, queue, thread, irqs, tcb>> /\ RecordDue

\* prvIdleTask: prvCheckTasksWaitingTermination, for ever.
prvCheckTasksWaitingTermination(t) ==
  /\ Running(t, {"idle"}, "start")
  /\ k.toClean > 0
  /\ k' = CleanUp(k)
  /\ tcb' = [tcb EXCEPT ![t] = Head(k.terminating)]
  /\ Goto(t, "delete")
  /\ UNCHANGED <<app, queue, irqs>> /\ RecordDue

\* prvDeleteTCB.
DeleteStack(t) ==
  /\ Running(t, {"delete", "idle"}, "stack freed")
  /\ ResumeWith(FreeStack(k))
  /\ Goto(t, "delete tcb")
  /\ UNCHANGED <<app, queue, irqs, tcb>> /\ RecordDue

DeleteTCB(t) ==
  /\ Running(t, {"delete", "idle"}, "tcb freed")
  /\ ResumeWith(FreeTCB(k, tcb[t]))
  /\ tcb' = [tcb EXCEPT ![t] = NoTask]
  /\ Return(t)
  /\ UNCHANGED <<app, queue, irqs>> /\ RecordDue

-----------------------------------------------------------------------------
(***************************************************************************)
(* xTaskGetHandle.  The search moves the index of each list it walks, and  *)
(* so the turn of the tasks there.                                         *)
(***************************************************************************)
\* It starts behind the next task and ends at the task it finds, or once round.
\* Of the lists without an index nothing changes that a task could see.
prvSearchForNameWithinSingleList(list, n) ==
  IF Contains(list.items, n)
  THEN [list EXCEPT !.index = CHOOSE i \in DOMAIN list.items : list.items[i] = n]
  ELSE IF list.items = <<>> THEN list ELSE WalkToNext(list)

\* From the most urgent list down to the one it is in.
xTaskGetHandle(state, n) ==
  LET found == {p \in Priority : Contains(state.ready[p].items, n)}
  IN [state EXCEPT !.ready =
        [p \in Priority |-> IF \E q \in found : q > p THEN @[p]
                            ELSE prvSearchForNameWithinSingleList(@[p], n)]]

FindSuspended(t) ==
  /\ Running(t, {"find"}, "start")
  /\ k' = vTaskSuspendAll(k)
  /\ Goto(t, "suspended")
  /\ UNCHANGED <<app, queue, irqs, tcb>> /\ RecordDue

Find(t) ==
  /\ Running(t, {"find"}, "suspended")
  /\ ResumeWith(xTaskGetHandle(k, Call(t).task))
  /\ IF Call(t).task \in Living THEN Return(t) ELSE Fail(t)
  /\ UNCHANGED <<app, queue, irqs, tcb>> /\ RecordDue

LifeStep(t) ==
  \/ EnterHeap(t) \/ AllocateStack(t) \/ AllocateTCB(t) \/ UndoStack(t) \/ AddTask(t)
  \/ YieldToNew(t) \/ Delete(t) \/ YieldForEver(t) \/ prvCheckTasksWaitingTermination(t)
  \/ DeleteStack(t) \/ DeleteTCB(t) \/ FindSuspended(t) \/ Find(t)

-----------------------------------------------------------------------------
\* What the heap had at the start, and what of it is a stack in the hands of
\* xTaskCreate or vTaskDelete.
StacksInHand ==
  Cardinality({t \in Task : app.calls[t] # <<>> /\ Call(t).op = "create"
                            /\ thread[t].pc \in {"more", "tcb", "undo", "undone"}})
StacksGone ==
  Cardinality({t \in Task : app.calls[t] # <<>> /\ Call(t).op \in {"delete", "idle"}
                            /\ thread[t].pc \in {"delete tcb", "tcb freed"}})

Listed(t) ==
  \/ t \in k.suspended \/ InDelayedList(k, t) \/ Contains(k.terminating, t)
  \/ \E p \in Priority : Contains(k.ready[p].items, t)

\* No memory is lost or freed twice, whatever overtakes what: a task has a stack
\* and a TCB from its creation until it is freed, and a creation that fails leaves
\* nothing.
MemoryConserved ==
  k.heap + StacksInHand + 2 * Cardinality(k.alloc) - StacksGone
    = app.memory + 2 * Len(app.tasks)

\* A freed TCB is in no list and does not run; every other one is in a list; and
\* the two counts are those of the tasks that have not ended, and of those the
\* idle task has yet to free.
DeadUnlisted ==
  /\ {t \in Task : Listed(t)} = Living
  /\ {t \in Task : InEventList(k, t)} \subseteq Living
  /\ k.current \in Living
  /\ k.tasks = Cardinality(Living)
  /\ k.toClean = Len(k.terminating)
=============================================================================
