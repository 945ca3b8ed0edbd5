----------------------------- MODULE CoRoutines -----------------------------
(***************************************************************************)
(* The co-routines (croutine.c, croutine.h) and their access to a queue    *)
(* (xQueueCR... of queue.c).  vCoRoutineSchedule runs in one task; what    *)
(* happens between its steps is interrupts, which tick, and send to and    *)
(* receive from the queue.  A step ends where interrupts are enabled       *)
(* between two accesses to what the handlers share: the queue, its event   *)
(* lists and the list of pending co-routines, here together in q.          *)
(*                                                                         *)
(* A co-routine does any sequence of the calls that it makes.              *)
(***************************************************************************)
EXTENDS KernelList, FiniteSetsExt

CONSTANTS
  CoRoutine,     \* the control blocks that can be allocated
  NoCoRoutine,   \* NULL
  uxPriority,    \* the priority of each
  Calls,         \* those each makes, of "delay", "send" and "receive"
  uxLength,      \* the length of the queue
  TickMod,       \* TickType_t counts modulo TickMod
  Late           \* bound: the most ticks between two calls of vCoRoutineSchedule

VARIABLES
  pxReadyCoRoutineLists,          \* one list for each priority
  pxDelayedCoRoutineList, pxOverflowDelayedCoRoutineList,
  uxTopCoRoutineReadyPriority, pxCurrentCoRoutine,
  xTickCount, xCoRoutineTickCount, xLastTickCount, xPassedTicks,
  value,     \* the value of the generic item of each co-routine
  uxState,   \* where each goes on, or "absent"
  q,         \* uxMessagesWaiting, the event lists, xPendingReadyCoRoutineList
  pc,        \* the next step of vCoRoutineSchedule, or of the co-routine it calls
  pxCRCB,    \* the co-routine that is between two lists
  \* What the properties remember:
  ticksLeft, \* the ticks of its delay that each has not yet seen pass
  unserved   \* the kinds of handlers that served the queue and woke none that waits

scheduler == <<pxReadyCoRoutineLists, uxTopCoRoutineReadyPriority, pxCurrentCoRoutine>>
delays == <<pxDelayedCoRoutineList, pxOverflowDelayedCoRoutineList, value, ticksLeft>>
ticks == <<xCoRoutineTickCount, xLastTickCount, xPassedTicks>>
vars == <<scheduler, delays, ticks, xTickCount, uxState, q, pc, pxCRCB, unserved>>

Priorities == 0 .. 1   \* configMAX_CO_ROUTINE_PRIORITIES is 2
TickCounts == 0 .. (TickMod - 1)

Init ==
  /\ pxReadyCoRoutineLists = [p \in Priorities |-> vListInitialise]
  /\ pxDelayedCoRoutineList = <<>> /\ pxOverflowDelayedCoRoutineList = <<>>
  /\ uxTopCoRoutineReadyPriority = 0 /\ pxCurrentCoRoutine = NoCoRoutine
  /\ xTickCount = 0 /\ xCoRoutineTickCount = 0 /\ xLastTickCount = 0 /\ xPassedTicks = 0
  /\ value = [c \in CoRoutine |-> 0] /\ ticksLeft = [c \in CoRoutine |-> 0]
  /\ uxState = [c \in CoRoutine |-> "absent"]
  /\ q = [messages |-> 0, toSend |-> <<>>, toReceive |-> <<>>, pending |-> <<>>]
  /\ pc = "out" /\ pxCRCB = NoCoRoutine /\ unserved = {}

-----------------------------------------------------------------------------
(* The lists of the scheduler.                                             *)

prvAddCoRoutineToReadyQueue(c) ==
  /\ pxReadyCoRoutineLists' = [pxReadyCoRoutineLists EXCEPT ![uxPriority[c]] = vListInsertEnd(@, c)]
  /\ uxTopCoRoutineReadyPriority' = Max({uxTopCoRoutineReadyPriority, uxPriority[c]})

(***************************************************************************)
(* main, or the co-routine that runs, creates another: the first becomes   *)
(* the current one.  Without memory nothing is done.                       *)
(***************************************************************************)
xCoRoutineCreate(c) ==
  /\ uxState[c] = "absent"
  /\ pc = "body" \/ pc = "out"
  /\ uxState' = [uxState EXCEPT ![c] = "going"]
  /\ prvAddCoRoutineToReadyQueue(c)
  /\ pxCurrentCoRoutine' = IF pxCurrentCoRoutine = NoCoRoutine THEN c ELSE pxCurrentCoRoutine
  /\ UNCHANGED <<delays, ticks, xTickCount, q, pc, pxCRCB, unserved>>

\* The current co-routine, of which the wake time may wrap.
vCoRoutineAddToDelayedList(n) ==
  LET c == pxCurrentCoRoutine
      xTimeToWake == (xCoRoutineTickCount + n) % TickMod
      wraps == xTimeToWake < xCoRoutineTickCount
  IN /\ pxReadyCoRoutineLists' = [pxReadyCoRoutineLists EXCEPT ![uxPriority[c]] = uxListRemove(@, c)]
     /\ value' = [value EXCEPT ![c] = xTimeToWake]
     /\ ticksLeft' = [ticksLeft EXCEPT ![c] = n]
     /\ IF wraps
        THEN /\ pxOverflowDelayedCoRoutineList' = vListInsert(pxOverflowDelayedCoRoutineList, c, value')
             /\ UNCHANGED pxDelayedCoRoutineList
        ELSE /\ pxDelayedCoRoutineList' = vListInsert(pxDelayedCoRoutineList, c, value')
             /\ UNCHANGED pxOverflowDelayedCoRoutineList
     /\ UNCHANGED <<uxTopCoRoutineReadyPriority, pxCurrentCoRoutine>>

\* The generic item of c leaves the delayed list that holds it.
LeaveDelayed(c) ==
  /\ pxDelayedCoRoutineList' = SelectSeq(pxDelayedCoRoutineList, LAMBDA x : x # c)
  /\ pxOverflowDelayedCoRoutineList' = SelectSeq(pxOverflowDelayedCoRoutineList, LAMBDA x : x # c)

\* The first of the event list goes to the end of the pending list.
xCoRoutineRemoveFromEventList(s, list) ==
  [s EXCEPT ![list] = Tail(@), !.pending = Append(@, Head(s[list]))]

\* Whether the one that is woken is not below the current co-routine.
WakesUrgent(s, list) == uxPriority[Head(s[list])] >= uxPriority[pxCurrentCoRoutine]

-----------------------------------------------------------------------------
(* vCoRoutineSchedule.                                                     *)

vCoRoutineSchedule ==
  /\ pc = "out" /\ pxCurrentCoRoutine # NoCoRoutine
  /\ pc' = "pending"
  /\ UNCHANGED <<scheduler, delays, ticks, xTickCount, uxState, q, pxCRCB, unserved>>

\* prvCheckPendingReadyList: the event item, with interrupts disabled ...
TakePending ==
  /\ pc = "pending" /\ q.pending # <<>>
  /\ pxCRCB' = Head(q.pending)
  /\ q' = [q EXCEPT !.pending = Tail(@)]
  /\ pc' = "pended"
  /\ UNCHANGED <<scheduler, delays, ticks, xTickCount, uxState, unserved>>

\* ... and the generic item, with interrupts enabled.
ReadyPending ==
  /\ pc = "pended"
  /\ LeaveDelayed(pxCRCB)
  /\ prvAddCoRoutineToReadyQueue(pxCRCB)
  /\ pxCRCB' = NoCoRoutine /\ pc' = "pending"
  /\ UNCHANGED <<pxCurrentCoRoutine, value, ticksLeft, ticks, xTickCount, uxState, q, unserved>>

\* prvCheckDelayedList: the ticks that have passed since it was last called.
StartTicks ==
  /\ pc = "pending" /\ q.pending = <<>>
  /\ xPassedTicks' = (xTickCount - xLastTickCount) % TickMod
  /\ pc' = "tick"
  /\ UNCHANGED <<scheduler, delays, xCoRoutineTickCount, xLastTickCount, xTickCount,
                 uxState, q, pxCRCB, unserved>>

\* One of them: the lists are swapped when the count returns to 0.
PassTick ==
  LET count == (xCoRoutineTickCount + 1) % TickMod
  IN /\ pc = "tick" /\ xPassedTicks > 0
     /\ xCoRoutineTickCount' = count /\ xPassedTicks' = xPassedTicks - 1
     /\ IF count = 0
        THEN /\ pxDelayedCoRoutineList' = pxOverflowDelayedCoRoutineList
             /\ pxOverflowDelayedCoRoutineList' = pxDelayedCoRoutineList
        ELSE UNCHANGED <<pxDelayedCoRoutineList, pxOverflowDelayedCoRoutineList>>
     /\ ticksLeft' = [c \in CoRoutine |-> Max({ticksLeft[c] - 1, 0})]
     /\ pc' = "expire"
     /\ UNCHANGED <<scheduler, value, xLastTickCount, xTickCount, uxState, q, pxCRCB, unserved>>

\* slip: the tick after
ExpiredBefore ==
  /\ pxDelayedCoRoutineList # <<>>
  /\ value[Head(pxDelayedCoRoutineList)] < xCoRoutineTickCount

Expired ==
  /\ pxDelayedCoRoutineList # <<>>
  /\ value[Head(pxDelayedCoRoutineList)] <= xCoRoutineTickCount

\* slip: the event item stays in its list
TakeFromDelayed ==
  /\ pc = "expire" /\ Expired
  /\ LeaveDelayed(Head(pxDelayedCoRoutineList))
  /\ pxCRCB' = Head(pxDelayedCoRoutineList) /\ pc' = "expired"
  /\ UNCHANGED <<scheduler, value, ticksLeft, ticks, xTickCount, uxState, q, unserved>>

\* The first one's time has come: it leaves its list, and any list of events.
TakeExpired ==
  LET c == Head(pxDelayedCoRoutineList)
      Without(list) == SelectSeq(list, LAMBDA x : x # c)
  IN /\ pc = "expire" /\ Expired
     /\ LeaveDelayed(c)
     /\ q' = [q EXCEPT !.toSend = Without(@), !.toReceive = Without(@), !.pending = Without(@)]
     /\ pxCRCB' = c /\ pc' = "expired"
     /\ UNCHANGED <<scheduler, value, ticksLeft, ticks, xTickCount, uxState, unserved>>

ReadyExpired ==
  /\ pc = "expired"
  /\ prvAddCoRoutineToReadyQueue(pxCRCB)
  /\ pxCRCB' = NoCoRoutine /\ pc' = "expire"
  /\ UNCHANGED <<pxCurrentCoRoutine, delays, ticks, xTickCount, uxState, q, unserved>>

NextTick ==
  /\ pc = "expire" /\ ~Expired
  /\ pc' = "tick"
  /\ UNCHANGED <<scheduler, delays, ticks, xTickCount, uxState, q, pxCRCB, unserved>>

EndTicks ==
  /\ pc = "tick" /\ xPassedTicks = 0
  /\ xLastTickCount' = xCoRoutineTickCount
  /\ pc' = "search"
  /\ UNCHANGED <<scheduler, delays, xCoRoutineTickCount, xPassedTicks, xTickCount,
                 uxState, q, pxCRCB, unserved>>

Occupied == {p \in Priorities : /\ p <= uxTopCoRoutineReadyPriority
                                /\ pxReadyCoRoutineLists[p].items # <<>>}

\* Down from the top to the first list that is not empty, of which the next
\* co-routine in turn is called.
CallNext ==
  /\ pc = "search"
  /\ uxTopCoRoutineReadyPriority' = IF Occupied = {} THEN 0 ELSE Max(Occupied)
  /\ IF Occupied = {}
     THEN /\ pc' = "out"
          /\ UNCHANGED <<pxReadyCoRoutineLists, pxCurrentCoRoutine>>
     ELSE LET p == Max(Occupied)
          IN /\ pxCurrentCoRoutine' = listGET_OWNER_OF_NEXT_ENTRY(pxReadyCoRoutineLists[p])
             /\ pxReadyCoRoutineLists' = [pxReadyCoRoutineLists EXCEPT ![p] = WalkToNext(@)]
             /\ pc' = "body"
  /\ UNCHANGED <<delays, ticks, xTickCount, uxState, q, pxCRCB, unserved>>

-----------------------------------------------------------------------------
(* What a co-routine does.  At "out" it has returned to the scheduler.     *)

GoesOnAt(where) == uxState' = [uxState EXCEPT ![pxCurrentCoRoutine] = where]

\* It is about to make a call of a kind it makes.
Chooses(kind) ==
  /\ pc = "body" /\ uxState[pxCurrentCoRoutine] = "going"
  /\ kind \in Calls[pxCurrentCoRoutine]

\* It was scheduled after blocking in a call, which it repeats without a wait.
Repeats(kind, n) == pc = "body" /\ uxState[pxCurrentCoRoutine] = kind /\ n = 0

crDELAY(n) ==
  /\ Chooses("delay")
  /\ IF n > 0 THEN vCoRoutineAddToDelayedList(n) ELSE UNCHANGED <<scheduler, delays>>
  /\ pc' = "out"
  /\ UNCHANGED <<ticks, xTickCount, uxState, q, pxCRCB, unserved>>

\* By their priorities, behind the equal ones.
InPriorityOrder(list, c) == vListInsert(list, c, [x \in CoRoutine |-> 2 - uxPriority[x]])

BlockOn(list, n, where) ==
  /\ vCoRoutineAddToDelayedList(n)
  /\ q' = [q EXCEPT ![list] = InPriorityOrder(@, pxCurrentCoRoutine)]
  /\ GoesOnAt(where) /\ pc' = "out"

GoOn(next) == GoesOnAt("going") /\ pc' = next /\ UNCHANGED <<scheduler, delays, q>>

\* The first critical section of xQueueCRSend: full, it blocks or it fails.
xQueueCRSend(n) ==
  /\ IF q.messages < uxLength THEN GoOn("put")
     ELSE IF n > 0 THEN BlockOn("toSend", n, "send")
     ELSE GoOn("body")
  /\ UNCHANGED <<ticks, xTickCount, pxCRCB, unserved>>

xQueueCRReceive(n) ==
  /\ IF q.messages > 0 THEN GoOn("get")
     ELSE IF n > 0 THEN BlockOn("toReceive", n, "receive")
     ELSE GoOn("body")
  /\ UNCHANGED <<ticks, xTickCount, pxCRCB, unserved>>

crQUEUE_SEND(n) == (Chooses("send") \/ Repeats("send", n)) /\ xQueueCRSend(n)

crQUEUE_RECEIVE(n) == (Chooses("receive") \/ Repeats("receive", n)) /\ xQueueCRReceive(n)

\* The kinds that are still to be remembered once the queue is s.
Unserved(s, kinds) ==
  {k \in kinds : IF k = "send" THEN s.toReceive # <<>> /\ s.messages > 0
                 ELSE s.toSend # <<>> /\ s.messages < uxLength}

\* The end of the second critical section: one that waits is woken, and the
\* co-routine returns when that one is not below it (errQUEUE_YIELD).
WakeAndYield(s, list) ==
  /\ q' = IF s[list] = <<>> THEN s ELSE xCoRoutineRemoveFromEventList(s, list)
  /\ pc' = IF s[list] # <<>> /\ WakesUrgent(s, list) THEN "out" ELSE "body"
  /\ unserved' = Unserved(q', unserved)
  /\ UNCHANGED <<scheduler, delays, ticks, xTickCount, uxState, pxCRCB>>

\* By now an interrupt may have filled or emptied the queue.
Fails ==
  /\ pc' = "body"
  /\ UNCHANGED <<scheduler, delays, ticks, xTickCount, uxState, q, pxCRCB, unserved>>

Put ==
  /\ pc = "put"
  /\ IF q.messages < uxLength
     THEN WakeAndYield([q EXCEPT !.messages = @ + 1], "toReceive")
     ELSE Fails

Get ==
  /\ pc = "get"
  /\ IF q.messages > 0
     THEN WakeAndYield([q EXCEPT !.messages = @ - 1], "toSend")
     ELSE Fails

-----------------------------------------------------------------------------
(* Interrupts.  A handler that calls again passes on what it was told.     *)

\* s is the queue and whether a co-routine at or above the current one was woken.
xQueueCRSendFromISR(s) ==
  IF s.q.messages = uxLength THEN s
  ELSE LET r == [s.q EXCEPT !.messages = @ + 1]
       IN IF s.woken \/ r.toReceive = <<>> THEN [s EXCEPT !.q = r]
          ELSE [q |-> xCoRoutineRemoveFromEventList(r, "toReceive"),
                woken |-> WakesUrgent(r, "toReceive")]

xQueueCRReceiveFromISR(s) ==
  IF s.q.messages = 0 THEN s
  ELSE LET r == [s.q EXCEPT !.messages = @ - 1]
       IN IF s.woken \/ r.toSend = <<>> THEN [s EXCEPT !.q = r]
          ELSE [q |-> xCoRoutineRemoveFromEventList(r, "toSend"),
                woken |-> WakesUrgent(r, "toSend")]

Handled == {"send", "receive"}

\* One call or two, of the same kind.
QueueIrq(kind, calls) ==
  LET Call(s) == IF kind = "send" THEN xQueueCRSendFromISR(s) ELSE xQueueCRReceiveFromISR(s)
      once == Call([q |-> q, woken |-> FALSE])
      last == IF calls = 1 THEN once ELSE Call(once)
  IN /\ pxCurrentCoRoutine # NoCoRoutine
     /\ q' = last.q
     /\ unserved' = Unserved(last.q, IF calls = 2 /\ once.woken THEN unserved \cup {kind} ELSE unserved)
     /\ UNCHANGED <<scheduler, delays, ticks, xTickCount, uxState, pc, pxCRCB>>

\* The tick interrupt of the kernel.
Tick ==
  /\ (xTickCount - xLastTickCount) % TickMod < Late
  /\ xTickCount' = (xTickCount + 1) % TickMod
  /\ UNCHANGED <<scheduler, delays, ticks, uxState, q, pc, pxCRCB, unserved>>

-----------------------------------------------------------------------------
Schedule ==
  \/ vCoRoutineSchedule \/ TakePending \/ ReadyPending \/ StartTicks \/ PassTick
  \/ TakeExpired \/ ReadyExpired \/ NextTick \/ EndTicks \/ CallNext

Body ==
  \/ \E n \in TickCounts : crDELAY(n) \/ crQUEUE_SEND(n) \/ crQUEUE_RECEIVE(n)
  \/ Put \/ Get

Interrupt == Tick \/ \E kind \in Handled, calls \in 1..2 : QueueIrq(kind, calls)

Next == Schedule \/ Body \/ Interrupt \/ \E c \in CoRoutine : xCoRoutineCreate(c)

Spec == Init /\ [][Next]_vars

-----------------------------------------------------------------------------
Generic(c) ==
  (IF c \in ToSet(pxReadyCoRoutineLists[uxPriority[c]].items) THEN {"ready"} ELSE {})
    \cup (IF c \in ToSet(pxDelayedCoRoutineList) THEN {"delayed"} ELSE {})
    \cup (IF c \in ToSet(pxOverflowDelayedCoRoutineList) THEN {"overflow"} ELSE {})

EventLists == {"toSend", "toReceive", "pending"}

Created == {c \in CoRoutine : uxState[c] # "absent"}

CoRoutinesTypeOK ==
  /\ uxTopCoRoutineReadyPriority \in Priorities
  /\ pxCurrentCoRoutine \in CoRoutine \cup {NoCoRoutine}
  /\ {xTickCount, xCoRoutineTickCount, xLastTickCount, xPassedTicks} \subseteq TickCounts
  /\ uxState \in [CoRoutine -> {"absent", "going", "send", "receive"}]
  /\ q.messages \in 0..uxLength
  /\ unserved \subseteq Handled

(***************************************************************************)
(* Whatever handlers do between the steps of the scheduler, each item is   *)
(* in one list: the generic item of a co-routine is in the ready list of   *)
(* its priority or in one of the delayed lists, but for the co-routine     *)
(* that prvCheckDelayedList is moving; an event item is in one list at     *)
(* most, and only while its co-routine is delayed.                         *)
(***************************************************************************)
EachInOneList ==
  /\ \A c \in Created :
       Cardinality(Generic(c)) = IF pc = "expired" /\ c = pxCRCB THEN 0 ELSE 1
  /\ \A list \in EventLists : \A i \in DOMAIN q[list] :
       /\ Generic(q[list][i]) \subseteq {"delayed", "overflow"}
       /\ Generic(q[list][i]) # {}
       /\ \A l \in EventLists : \A j \in DOMAIN q[l] :
            q[l][j] = q[list][i] => l = list /\ j = i

(***************************************************************************)
(* Event lists serve the highest priority first (the value of the event    *)
(* item that xCoRoutineCreate sets), and the search of vCoRoutineSchedule  *)
(* starts at or above every ready co-routine.                              *)
(***************************************************************************)
HighestFirst ==
  /\ \A list \in {"toSend", "toReceive"} : \A i \in DOMAIN q[list] : \A j \in 1..i :
       uxPriority[q[list][j]] >= uxPriority[q[list][i]]
  /\ \A p \in Priorities :
       pxReadyCoRoutineLists[p].items # <<>> => p <= uxTopCoRoutineReadyPriority

(***************************************************************************)
(* A co-routine that is not woken by an event leaves the delayed list in   *)
(* the tick in which its delay is over, no earlier and no later, though    *)
(* several ticks pass between two calls of prvCheckDelayedList and the     *)
(* count wraps among them.                                                 *)
(***************************************************************************)
DelaysKept ==
  /\ pc = "expired" => ticksLeft[pxCRCB] = 0
  /\ pc \notin {"expire", "expired"} =>
       \A c \in Created : Generic(c) \cap {"delayed", "overflow"} # {} => ticksLeft[c] > 0

\* Those that are to make their blocked call again, or are about to complete it.
OnTheirWay(state, list, step) ==
  Cardinality({c \in CoRoutine : uxState[c] = state /\ c \notin ToSet(q[list])})
    + IF pc = step THEN 1 ELSE 0

(***************************************************************************)
(* A co-routine waits for an item, or for room, only while each item or    *)
(* place has a co-routine on its way to it, unless a handler that had      *)
(* already woken one made another call (croutine.h:595-598).               *)
(***************************************************************************)
NoLostCoRoutine ==
  /\ q.toReceive # <<>> /\ "send" \notin unserved =>
       q.messages <= OnTheirWay("receive", "toReceive", "get")
  /\ q.toSend # <<>> /\ "receive" \notin unserved =>
       uxLength - q.messages <= OnTheirWay("send", "toSend", "put")

(***************************************************************************)
(* The lists of croutine.c, of which a handler and the scheduler may each  *)
(* have put the same co-routine in one, hold it once, and the most urgent  *)
(* ready one runs.                                                         *)
(***************************************************************************)
CoRoutinesSound == CoRoutinesTypeOK /\ EachInOneList /\ HighestFirst

(***************************************************************************)
(* No co-routine sleeps past its delay, or next to an item or a slot it    *)
(* waits for.                                                              *)
(***************************************************************************)
CoRoutinesServed == DelaysKept /\ NoLostCoRoutine
=============================================================================
