------------------------------ MODULE Services ------------------------------
(***************************************************************************)
(* The kernel with all that is built on it: tasks that come and go,        *)
(* notifications, event groups, software timers and stream buffers.  A     *)
(* task may call any of them, and so may the handlers.                     *)
(***************************************************************************)
EXTENDS KernelCorrect, TaskLife, Timers, StreamBuffers

serviceVars == <<tcb, group, item, d, stream, local>>
allVars == <<vars, serviceVars>>

\* An application has, beyond what Kernel says, the timers and the stream buffers
\* it has created.
ServicesInit ==
  /\ Init
  /\ tcb = NoTcb
  /\ group = [g \in EventGroup |-> xEventGroupCreate]
  /\ item = [t \in Task |-> NothingRead]
  /\ d = NoTimers(app.timers)
  /\ stream = app.streams
  /\ local = [t \in Task |-> NoLocals]

Interrupt ==
  \/ Tick /\ UNCHANGED serviceVars
  \/ Irq /\ UNCHANGED serviceVars
  \/ NotifyIrq /\ UNCHANGED serviceVars
  \/ CommandIrq /\ UNCHANGED <<tcb, stream, local>>
  \/ StreamIrq /\ UNCHANGED <<tcb, group, item, d>>

ServicesNext ==
  \/ Interrupt
  \/ \E t \in Task :
       \/ (QueueStep(t) \/ TaskStep(t) \/ NotifyStep(t)) /\ UNCHANGED serviceVars
       \/ LifeStep(t) /\ UNCHANGED <<group, item, d, stream, local>>
       \/ EventStep(t) /\ UNCHANGED <<tcb, d, stream, local>>
       \/ TimerStep(t) /\ UNCHANGED <<tcb, stream, local>>
       \/ StreamStep(t) /\ UNCHANGED <<tcb, group, item, d>>

ServicesSpec == ServicesInit /\ [][ServicesNext]_allVars

-----------------------------------------------------------------------------
TimerState ==
  [period : Ticks \ {0}, reload : BOOLEAN, active : BOOLEAN, live : BOOLEAN, expiry : Ticks]

\* Types of what the services add: among them that an index never leaves its ring.
ServicesTypeOK ==
  /\ tcb \in [Task -> Task \cup {NoTask}]
  /\ group \in [EventGroup -> [live : BOOLEAN, bits : SUBSET EventBit]]
  /\ \A x \in Timer : d.timer[x] \in TimerState
  /\ d.last \in Ticks
  /\ \A id \in Stream :
       /\ {stream[id].head, stream[id].tail} \subseteq DOMAIN stream[id].cells
       /\ stream[id].trigger \in 1..stream[id].length
       /\ {stream[id].reader, stream[id].writer} \subseteq Task \cup {NoTask}
  /\ \A t \in Task : local[t].n \in Nat

\* No wake-up by a service is without its switch: whenever the scheduler is not
\* suspended, no ready task is more urgent than the one that runs, but for a new
\* task of which the creator has not yet compared the priority.
UrgentRuns ==
  k.schedSusp = 0 /\ thread[k.current].pc # "compare" =>
    \A t \in Task : InReadyList(k, t) => k.prio[t] <= k.prio[k.current]

\* A handler leaves alone what a task may be working on with the scheduler
\* suspended: the lists of the tasks, the tick count, and who waits for bits.
HandlersKeepOut ==
  [][k.schedSusp > 0 /\ thread' = thread =>
       /\ <<k'.ready, k'.delayed, k'.overflow, k'.suspended, k'.terminating, k'.tick>>
            = <<k.ready, k.delayed, k.overflow, k.suspended, k.terminating, k.tick>>
       /\ \A g \in EventGroup : k'.events[<<g, "bits">>] = k.events[<<g, "bits">>]]_allVars

\* Every living task is in exactly one list, once, and waits for at most one
\* event, whichever of the services has put it there, and whoever took it out; a
\* task that is ready, if only because its wait was aborted, waits for none.
LivingListsSound ==
  \A t \in Living :
    /\ StateLists(t) = 1
    /\ \A p \in Priority : Contains(k.ready[p].items, t) => p = k.prio[t]
    /\ EventLists(t) <= 1
    /\ InReadyList(k, t) => ~\E e \in EventList : Contains(k.events[e], t)

(***************************************************************************)
(* Creation, deletion, notifications, events, timers and streams all move  *)
(* the same tasks between the same lists: each task is in those of its     *)
(* state, and one that is deleted is in none.                              *)
(***************************************************************************)
ServicesSound == ServicesTypeOK /\ LivingListsSound /\ DeadUnlisted
=============================================================================
