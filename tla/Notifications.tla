--------------------------- MODULE Notifications ----------------------------
(***************************************************************************)
(* Task notifications (tasks.c): a value and a state in each TCB, which    *)
(* tasks and handlers set and their owner waits for.                       *)
(*                                                                         *)
(* A wait is two critical sections of its owner: one that blocks, and one  *)
(* after it has run again that looks at what there is by then.  Nothing    *)
(* but the state says that a task which is in no event list waits.         *)
(***************************************************************************)
EXTENDS Kernel, Bitwise

NotifyWaits == {"notify take", "notify wait"}

ClearBits(value, mask) == value - (value & mask)

\* The first critical section blocks unless there is something already.
Blocks(call, note) ==
  IF call.op = "notify take" THEN note.value = 0 ELSE note.state # "received"

NoteOnEntry(call, note) ==
  [state |-> "waiting",
   value |-> IF call.op = "notify take" THEN note.value
             ELSE ClearBits(note.value, call.entry)]

\* A task that need not block, or may not, goes straight to the second.
EnterNotifyWait(state, call, ticks) ==
  LET t     == state.current
      noted == [state EXCEPT !.note[t] = NoteOnEntry(call, @)]
  IN IF ~Blocks(call, state.note[t]) THEN state
     ELSE IF ticks = 0 THEN noted
     ELSE vTaskSwitchContext(prvAddCurrentTaskToDelayedList(noted, ticks, TRUE))

NotifyBegin(t) ==
  /\ Running(t, NotifyWaits, "start")
  /\ k' = EnterNotifyWait(k, Call(t), Call(t).ticks)
  /\ Goto(t, "notified")
  /\ UNCHANGED <<app, queue, irqs>> /\ RecordDue

\* The second critical section.
NoteOnExit(call, note) ==
  [state |-> "none",
   value |-> CASE call.op = "notify take" /\ note.value # 0 ->
                    IF call.clear THEN 0 ELSE note.value - 1
               [] call.op = "notify wait" /\ note.state = "received" ->
                    ClearBits(note.value, call.exit)
               [] OTHER -> note.value]

Notified(call, note) ==
  IF call.op = "notify take" THEN note.value # 0 ELSE note.state = "received"

NotifyEnd(t) ==
  /\ Running(t, NotifyWaits, "notified")
  /\ k' = [k EXCEPT !.note[t] = NoteOnExit(Call(t), @)]
  /\ IF Notified(Call(t), k.note[t]) THEN Return(t) ELSE Fail(t)
  /\ UNCHANGED <<app, queue, irqs>> /\ RecordDue

-----------------------------------------------------------------------------
\* eNotifyAction.
NewValue(note, action, value) ==
  CASE action = "set bits" -> note.value | value
    [] action = "increment" -> (note.value + 1) % ValueMod
    [] action = "overwrite" -> value
    [] action = "no overwrite" -> IF note.state = "received" THEN note.value ELSE value
    [] action = "none" -> note.value

Note(state, t, action, value) ==
  [state EXCEPT !.note[t] = [state |-> "received", value |-> NewValue(@, action, value)]]

\* slip: the task stays in the list of the delayed
ReadyAgain(state, t) == prvAddTaskToReadyList(state, t)

\* The task leaves the list it is in, which may be a ready list if its wait is
\* over; no bit is cleared, nor is the next unblock time looked at.
Ready(state, t) == prvAddTaskToReadyList(RemoveStateItem(state, t), t)

xTaskGenericNotify(state, t, action, value) ==
  LET noted == Note(state, t, action, value)
  IN IF state.note[t].state # "waiting" THEN noted
     ELSE YieldIf(Ready(noted, t), state.prio[t] > state.prio[state.current])

\* slip: the pending list is not used
NotifyAtOnce(state, t, action, value) ==
  LET urgent == state.prio[t] > state.prio[state.current]
      noted  == Note(state, t, action, value)
  IN IF state.note[t].state # "waiting" THEN noted
     ELSE YieldIf([Ready(noted, t) EXCEPT !.yieldPending = @ \/ urgent], urgent)

\* vTaskGenericNotifyGiveFromISR is the same with the increment.
xTaskGenericNotifyFromISR(state, t, action, value) ==
  LET noted  == Note(state, t, action, value)
      urgent == state.prio[t] > state.prio[state.current]
      woken  == IF state.schedSusp = 0 THEN Ready(noted, t)
                ELSE [noted EXCEPT !.pending = Append(@, t)]
  IN IF state.note[t].state # "waiting" THEN noted
     ELSE YieldIf([woken EXCEPT !.yieldPending = @ \/ urgent], urgent)

\* slip: a task that waits is not marked any more
ClearAnyState(state, t) == [state EXCEPT !.note[t].state = "none"]

xTaskGenericNotifyStateClear(state, t) ==
  [state EXCEPT !.note[t].state = IF @ = "received" THEN "none" ELSE @]

ulTaskGenericNotifyValueClear(state, t, mask) ==
  [state EXCEPT !.note[t].value = ClearBits(@, mask)]

Notify(t) ==
  /\ Running(t, {"notify", "clear state", "clear value"}, "start")
  /\ k' = CASE Call(t).op = "notify" ->
                 xTaskGenericNotify(k, Call(t).task, Call(t).action, Call(t).value)
            [] Call(t).op = "clear state" -> xTaskGenericNotifyStateClear(k, Call(t).task)
            [] Call(t).op = "clear value" ->
                 ulTaskGenericNotifyValueClear(k, Call(t).task, Call(t).value)
  /\ Return(t)
  /\ UNCHANGED <<app, queue, irqs>> /\ RecordDue

NotifyIrq ==
  /\ k.current # NoTask
  /\ irqs < app.maxIrqs
  /\ \E h \in app.handlers :
       /\ h.op = "notify"
       /\ k' = xTaskGenericNotifyFromISR(k, h.task, h.action, h.value)
  /\ irqs' = irqs + 1
  /\ UNCHANGED <<app, queue, thread>> /\ RecordDue

NotifyStep(t) == NotifyBegin(t) \/ NotifyEnd(t) \/ Notify(t)
-----------------------------------------------------------------------------
Waiting(t) ==
  /\ app.calls[t] # <<>> /\ Call(t).op \in NotifyWaits
  /\ thread[t].pc = "notified" /\ ~InReadyList(k, t)

Suspendable(t) ==
  \E s \in Task : \E i \in DOMAIN app.calls[s] :
    app.calls[s][i].op = "suspend" /\ app.calls[s][i].task = t

\* No notification is lost: a task that sleeps in a wait is marked as waiting, so
\* that the next one wakes it, and nothing it waits for is there already; once
\* notified it is at least in the pending list.  A task that others suspend is
\* woken by them alone.
NoLostNotification ==
  \A t \in Task :
    Waiting(t) /\ ~Suspendable(t) =>
      IF Contains(k.pending, t) THEN k.note[t].state = "received"
      ELSE /\ k.note[t].state = "waiting"
           /\ Call(t).op = "notify take" => k.note[t].value = 0
=============================================================================
