----------------------------- MODULE EventGroups ----------------------------
(***************************************************************************)
(* Event groups (event_groups.c): bits that tasks set and clear, and wait  *)
(* for, some or all of a set; and the rendezvous made of them.             *)
(*                                                                         *)
(* Handlers do not touch a group, so what is done to it with the scheduler *)
(* suspended is one step.  A waiter keeps what it waits for in its event   *)
(* item, and who ends its wait puts there the bits that did.               *)
(***************************************************************************)
EXTENDS Kernel

VARIABLES
  group,     \* the groups: their bits, and whether they have been deleted
  item       \* what each task has read of its event item: uxReturn, and the new value

EventWaits == {"wait bits", "sync"}
EventOps == EventWaits \cup {"set bits", "delete group"}

xEventGroupCreate == [live |-> TRUE, bits |-> {}]
NothingRead == [bits |-> {}, flags |-> {}, value |-> 1]

G(t) == group[Call(t).group]
WithBits(t, bits) == [group EXCEPT ![Call(t).group].bits = bits]

prvTestWaitCondition(bits, wanted, all) ==
  IF all THEN wanted \subseteq bits ELSE wanted \cap bits # {}

-----------------------------------------------------------------------------
\* At the end of the list, whatever the priority.
vTaskPlaceOnUnorderedEventList(state, e, value, ticks) ==
  prvAddCurrentTaskToDelayedList(
    [state EXCEPT !.eventBits[state.current] = [value EXCEPT !.flags = @ \cup {"in use"}],
                  !.events[e] = Append(@, state.current)], ticks, TRUE)

\* slip: no one is told that the task is more urgent
RemoveUntold(state, t, bits) ==
  Unblock([state EXCEPT !.eventBits[t] = [bits |-> bits, flags |-> {"in use", "unblocked"}]], t)

\* Straight to its ready list, though the scheduler is suspended.
vTaskRemoveFromUnorderedEventList(state, t, bits) ==
  [Unblock([state EXCEPT !.eventBits[t] = [bits |-> bits, flags |-> {"in use", "unblocked"}]], t)
     EXCEPT !.yieldPending = @ \/ state.prio[t] > state.prio[state.current]]

Matches(value, bits) == prvTestWaitCondition(bits, value.bits, "all" \in value.flags)

\* slip: those who are woken do not see what they clear
ServeCleared(state, id, bits) ==
  LET Value(t) == state.eventBits[t]
      matched  == SelectSeq(state.events[<<id, "bits">>], LAMBDA t : Matches(Value(t), bits))
      cleared  == UNION {Value(t).bits : t \in {u \in ToSet(matched) : "clear" \in Value(u).flags}}
      Wake(s, t) == vTaskRemoveFromUnorderedEventList(s, t, bits \ cleared)
  IN [k |-> FoldLeft(Wake, state, matched), bits |-> bits \ cleared]

\* The walk of xEventGroupSetBits: all whose wait the bits end are woken, and
\* only then is cleared what any of them clears.
ServeWaiters(state, id, bits) ==
  LET Value(t) == state.eventBits[t]
      matched  == SelectSeq(state.events[<<id, "bits">>], LAMBDA t : Matches(Value(t), bits))
      cleared  == UNION {Value(t).bits : t \in {u \in ToSet(matched) : "clear" \in Value(u).flags}}
      Wake(s, t) == vTaskRemoveFromUnorderedEventList(s, t, bits)
  IN [k |-> FoldLeft(Wake, state, matched), bits |-> bits \ cleared]

-----------------------------------------------------------------------------
GroupSuspend(t) ==
  /\ Running(t, EventOps, "start")
  /\ k' = vTaskSuspendAll(k)
  /\ Goto(t, "suspended")
  /\ UNCHANGED <<app, queue, irqs, group, item>> /\ RecordDue

\* xEventGroupSetBits, and vEventGroupDelete, which wakes every waiter without bits.
SetBits(t) ==
  /\ Running(t, {"set bits"}, "suspended")
  /\ LET served == ServeWaiters(k, Call(t).group, G(t).bits \cup Call(t).bits)
     IN k' = served.k /\ group' = WithBits(t, served.bits)
  /\ thread' = [thread EXCEPT ![t].pc = "resume", ![t].then = "retry"]
  /\ UNCHANGED <<app, queue, irqs, item>> /\ RecordDue

DeleteGroup(t) ==
  /\ Running(t, {"delete group"}, "suspended")
  /\ LET Wake(s, w) == vTaskRemoveFromUnorderedEventList(s, w, {})
     IN k' = FoldLeft(Wake, k, k.events[<<Call(t).group, "bits">>])
  /\ group' = [group EXCEPT ![Call(t).group] = [live |-> FALSE, bits |-> {}]]
  /\ thread' = [thread EXCEPT ![t].pc = "resume", ![t].then = "retry"]
  /\ UNCHANGED <<app, queue, irqs, item>> /\ RecordDue

\* The state of the tasks once the caller has, or need not, set its own bits.
Arrived(t) ==
  IF Call(t).op = "sync"
  THEN ServeWaiters(k, Call(t).group, G(t).bits \cup Call(t).set)
  ELSE [k |-> k, bits |-> G(t).bits]

\* slip: of its own bits, those that woke others are not seen
ConditionAfter(t) == prvTestWaitCondition(Arrived(t).bits, Call(t).bits, Call(t).all)

\* The bits as they were before any waiter cleared them.
Condition(t) ==
  LET own == IF Call(t).op = "sync" THEN Call(t).set ELSE {}
  IN prvTestWaitCondition(G(t).bits \cup own, Call(t).bits, Call(t).all)

\* rounds counts, for the properties, how often a task has come to meet others.
ArriveThen(t, then) ==
  [thread EXCEPT ![t].pc = "resume", ![t].then = then,
                 ![t].rounds = IF Call(t).op = "sync" THEN @ + 1 ELSE @]

\* xEventGroupWaitBits and xEventGroupSync, which waits for all and clears them.
TestMet(t) ==
  /\ Running(t, EventWaits, "suspended")
  /\ Condition(t)
  /\ k' = Arrived(t).k
  /\ group' = WithBits(t, Arrived(t).bits \ (IF Call(t).clear THEN Call(t).bits ELSE {}))
  /\ thread' = ArriveThen(t, "retry")
  /\ UNCHANGED <<app, queue, irqs, item>> /\ RecordDue

TestFails(t) ==
  /\ Running(t, EventWaits, "suspended")
  /\ ~Condition(t)
  /\ group' = WithBits(t, Arrived(t).bits)
  /\ IF Call(t).ticks = 0
     THEN k' = Arrived(t).k /\ thread' = ArriveThen(t, "expired")
     ELSE /\ k' = vTaskPlaceOnUnorderedEventList(
                    Arrived(t).k, <<Call(t).group, "bits">>,
                    [bits |-> Call(t).bits,
                     flags |-> (IF Call(t).all THEN {"all"} ELSE {})
                               \cup (IF Call(t).clear THEN {"clear"} ELSE {})],
                    Call(t).ticks)
          /\ thread' = ArriveThen(t, "blocked")
  /\ UNCHANGED <<app, queue, irqs, item>> /\ RecordDue

GroupResume(t) ==
  /\ Running(t, EventOps, "resume")
  /\ LET resumed == xTaskResumeAll(k)
     IN /\ k' = resumed.k
        /\ CASE thread[t].then = "retry" -> Return(t)
             [] thread[t].then = "expired" -> Fail(t)
             [] thread[t].then = "blocked" -> Goto(t, IF resumed.yes THEN "woken" ELSE "yield")
  /\ UNCHANGED <<app, queue, irqs, group, item>> /\ RecordDue

GroupYield(t) ==
  /\ Running(t, EventWaits, "yield")
  /\ k' = vTaskSwitchContext(k)
  /\ Goto(t, "woken")
  /\ UNCHANGED <<app, queue, irqs, group, item>> /\ RecordDue

\* uxTaskResetEventItemValue, in no critical section: the item and the priority
\* are read before the item is written.
ReadItem(t) ==
  /\ Running(t, EventWaits, "woken")
  /\ item' = [item EXCEPT ![t] = [bits |-> k.eventBits[t].bits, flags |-> k.eventBits[t].flags,
                                  value |-> EventValue(k.prio[t])]]
  /\ Goto(t, "reset item")
  /\ UNCHANGED <<app, k, queue, irqs, group>> /\ RecordDue

uxTaskResetEventItemValue(t) ==
  /\ Running(t, EventWaits, "reset item")
  /\ k' = [k EXCEPT !.eventBits[t] = FreeBits, !.eventValue[t] = item[t].value]
  /\ IF "unblocked" \in item[t].flags THEN Return(t) ELSE Goto(t, "late")
  /\ UNCHANGED <<app, queue, irqs, group, item>> /\ RecordDue

\* The last look of a wait that no one has ended.
LateLook(t) ==
  /\ Running(t, EventWaits, "late")
  /\ IF prvTestWaitCondition(G(t).bits, Call(t).bits, Call(t).all)
     THEN group' = WithBits(t, G(t).bits \ (IF Call(t).clear THEN Call(t).bits ELSE {}))
          /\ Return(t)
     ELSE UNCHANGED group /\ Fail(t)
  /\ UNCHANGED <<app, k, queue, irqs, item>> /\ RecordDue

\* xEventGroupClearBits.
ClearGroup(t) ==
  /\ Running(t, {"clear bits"}, "start")
  /\ group' = WithBits(t, G(t).bits \ Call(t).bits)
  /\ Return(t)
  /\ UNCHANGED <<app, k, queue, irqs, item>> /\ RecordDue

EventStep(t) ==
  \/ GroupSuspend(t) \/ SetBits(t) \/ DeleteGroup(t) \/ TestMet(t) \/ TestFails(t)
  \/ GroupResume(t) \/ GroupYield(t) \/ ReadItem(t) \/ uxTaskResetEventItemValue(t)
  \/ LateLook(t) \/ ClearGroup(t)

-----------------------------------------------------------------------------
\* No event is missed: no task is left waiting for bits that are there.
NoMissedEvent ==
  \A g \in EventGroup : \A t \in ToSet(k.events[<<g, "bits">>]) :
    ~Matches(k.eventBits[t], group[g].bits)

\* The bits that a task is woken with are what it waits for, even when others
\* have cleared them before it runs; the waiters of a deleted group get none.
WokenByItsBits ==
  \A t \in Task :
    "unblocked" \in k.eventBits[t].flags =>
      \/ prvTestWaitCondition(k.eventBits[t].bits, Call(t).bits, Call(t).all)
      \/ ~G(t).live /\ k.eventBits[t].bits = {}

\* The event item of a task is in a group's list only with a value of its wait,
\* and has the value of a priority again before it can be in another's.
ItemsNotMixed ==
  \A t \in Task :
    \/ FreeBits = k.eventBits[t] /\ ~\E g \in EventGroup : Contains(k.events[<<g, "bits">>], t)
    \/ k.eventBits[t] # FreeBits /\ ~\E q \in Queue : \E d \in {"send", "receive"} :
         Contains(k.events[<<q, d>>], t)

-----------------------------------------------------------------------------
\* The tasks that meet at group g; those of them that have come and not yet left;
\* and how often each has met the others.
Meeting(g) ==
  {t \in Task : \E i \in DOMAIN app.calls[t] :
     /\ app.calls[t][i].op = "sync" /\ app.calls[t][i].group = g
     /\ app.calls[t][i].ticks = portMAX_DELAY}
Arriving == {"resume", "yield", "woken", "reset item", "late"}
Meetings(t) ==
  thread[t].rounds - (IF Call(t).op = "sync" /\ thread[t].pc \in Arriving THEN 1 ELSE 0)

\* xEventGroupSync is a barrier, round after round: no task leaves a meeting that
\* some other has not come to, and when all have come not all are left waiting.
SyncBarrier ==
  \A g \in EventGroup :
    /\ \A t, u \in Meeting(g) : Meetings(t) <= thread[u].rounds
    /\ Meeting(g) # {} => \E t \in Meeting(g) : ~Contains(k.events[<<g, "bits">>], t)

(***************************************************************************)
(* No waiter sleeps over its bits, each that is woken returns the bits     *)
(* that woke it, and event items hold bits in event groups alone.          *)
(***************************************************************************)
EventsSound == NoMissedEvent /\ WokenByItsBits /\ ItemsNotMixed
=============================================================================
