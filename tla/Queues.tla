------------------------------- MODULE Queues -------------------------------
(***************************************************************************)
(* The queue functions of the FreeRTOS kernel (queue.c): what a queue, a   *)
(* semaphore or a mutex does to itself and to the tasks inside one         *)
(* critical section or one interrupt handler.                              *)
(*                                                                         *)
(* A queue is a record: its kind (a semaphore is a queue whose items have  *)
(* no contents), uxLength, its items (uxMessagesWaiting is their number),  *)
(* the task that holds the mutex and how often it has taken a recursive    *)
(* one, and the counts of cRxLock and cTxLock, queueUNLOCKED or the items  *)
(* received and sent by interrupt handlers while a task had the queue      *)
(* locked.  Where in its storage an item goes is in QueueStorage.          *)
(***************************************************************************)
EXTENDS Tasks

CONSTANT
  Item       \* what a queue carries; a semaphore carries an item of no meaning

queueUNLOCKED == -1
queueLOCKED_UNMODIFIED == 0

QueueState ==
  [kind : {"none", "queue", "mutex"}, length : Nat, items : Seq(Item),
   holder : Task \cup {NoTask}, recursion : Nat, rxLock : Int, txLock : Int]

uxQueueMessagesWaiting(q) == Len(q.items)
uxQueueSpacesAvailable(q) == q.length - Len(q.items)
prvIsQueueEmpty(q) == uxQueueMessagesWaiting(q) = 0
prvIsQueueFull(q)  == uxQueueMessagesWaiting(q) = q.length

\* There is room to send, or the item that is there is to be overwritten.
HasRoom(q, position) == uxQueueMessagesWaiting(q) < q.length \/ position = "overwrite"

\* No queue yet, or no longer: vQueueDelete.
NoQueue == [kind |-> "none", length |-> 0, items |-> <<>>, holder |-> NoTask,
            recursion |-> 0, rxLock |-> queueUNLOCKED, txLock |-> queueUNLOCKED]

\* The memory of a queue that is created, without waiting tasks.
prvInitialiseNewQueue(kind, length) ==
  [NoQueue EXCEPT !.kind = kind, !.length = length]

\* The token of a mutex is sent to it once it is initialised.
prvInitialiseMutex(q, token) == [q EXCEPT !.items = <<token>>]

xQueueCreateMutex(token) == prvInitialiseMutex(prvInitialiseNewQueue("mutex", 1), token)

\* A semaphore starts with a count.
xQueueCreateCountingSemaphore(count, first, token) ==
  [prvInitialiseNewQueue("queue", count) EXCEPT !.items = [i \in 1..first |-> token]]

-----------------------------------------------------------------------------
\* slip: a mutex is given back like any other queue
CopyWithoutDisinherit(k, q, item, position) ==
  [k |-> k, q |-> [q EXCEPT !.items = Append(@, item)], yes |-> FALSE]

\* Where an item is put: queueSEND_TO_BACK, queueSEND_TO_FRONT, queueOVERWRITE.
Position == {"back", "front", "overwrite"}

Put(items, item, position) ==
  CASE position = "back" -> Append(items, item)
    [] position = "front" -> <<item>> \o items
    [] position = "overwrite" -> <<item>> \o (IF items = <<>> THEN <<>> ELSE Tail(items))

\* The answer of the three below is the state k of the tasks, the queue q, and
\* yes when the caller should yield.
prvCopyDataToQueue(k, q, item, position) ==
  LET given == xTaskPriorityDisinherit(k, q.holder)
      put   == [q EXCEPT !.items = Put(@, item, position)]
  IN IF q.kind = "mutex"
     THEN [k |-> given.k, q |-> [put EXCEPT !.holder = NoTask], yes |-> given.yes]
     ELSE [k |-> k, q |-> put, yes |-> FALSE]

\* One waiting task is woken, and the caller yields if that one is more urgent.
WakeOne(k, e) ==
  LET woken == xTaskRemoveFromEventList(k, e)
  IN IF k.events[e] = <<>> THEN k ELSE YieldIf(woken.k, woken.yes)

\* The body of the critical section of xQueueGenericSend when there is room:
\* a waiting receiver is woken, and only without one is the lost priority of a
\* mutex a reason to yield.
SendWithRoom(k, q, id, item, position) ==
  LET copied == prvCopyDataToQueue(k, q, item, position)
  IN [q |-> copied.q,
      k |-> IF copied.k.events[<<id, "receive">>] # <<>>
            THEN WakeOne(copied.k, <<id, "receive">>)
            ELSE YieldIf(copied.k, copied.yes)]

\* The same of xQueueReceive and xQueueSemaphoreTake when there is an item.
\* again is 1 for xQueueTakeMutexRecursive, which counts what its holder takes.
TakeItem(k, q, id, again) ==
  LET mutex == q.kind = "mutex"
      taken == IF mutex THEN [k EXCEPT !.held[k.current] = @ + 1] ELSE k
  IN [q |-> [q EXCEPT !.items = Tail(@), !.recursion = @ + again,
                      !.holder = IF mutex THEN k.current ELSE @],
      k |-> WakeOne(taken, <<id, "send">>)]

\* The same of xQueuePeek: the item stays, and wakes the next that waits for it.
PeekItem(k, q, id) == [k |-> WakeOne(k, <<id, "receive">>), q |-> q]

\* An empty queue wakes one sender, however much room there is now.
xQueueGenericReset(k, q, id) ==
  [q |-> [q EXCEPT !.items = <<>>, !.rxLock = queueUNLOCKED, !.txLock = queueUNLOCKED],
   k |-> WakeOne(k, <<id, "send">>)]

-----------------------------------------------------------------------------
(***************************************************************************)
(* Locks.  While a task has a queue locked, handlers do not touch its      *)
(* event lists but count what they did; unlocking makes up for it.         *)
(***************************************************************************)
prvLockQueue(q) ==
  [q EXCEPT !.rxLock = IF @ = queueUNLOCKED THEN queueLOCKED_UNMODIFIED ELSE @,
            !.txLock = IF @ = queueUNLOCKED THEN queueLOCKED_UNMODIFIED ELSE @]

\* One waiting task is woken for each counted item.  vTaskMissedYield is the
\* flag that xTaskRemoveFromEventList has set.
WakeCounted(k, e, count) ==
  LET n == IF count < Len(k.events[e]) THEN count ELSE Len(k.events[e])
      Wake(state, i) == xTaskRemoveFromEventList(state, e).k
  IN InTurn(Wake, k, IF n < 0 THEN 0 ELSE n)

\* slip: what handlers sent is not looked at
UnlockTxOnly(k, q, id) == [k |-> k, q |-> [q EXCEPT !.txLock = queueUNLOCKED]]

\* The two critical sections of prvUnlockQueue.
UnlockTx(k, q, id) ==
  [k |-> WakeCounted(k, <<id, "receive">>, q.txLock),
   q |-> [q EXCEPT !.txLock = queueUNLOCKED]]

UnlockRx(k, q, id) ==
  [k |-> WakeCounted(k, <<id, "send">>, q.rxLock),
   q |-> [q EXCEPT !.rxLock = queueUNLOCKED]]

-----------------------------------------------------------------------------
(***************************************************************************)
(* Interrupt handlers, which end with portYIELD_FROM_ISR.                  *)
(***************************************************************************)
\* xQueueGiveFromISR on a semaphore does the same with an item of no meaning.
xQueueGenericSendFromISR(k, q, id, item, position) ==
  LET copied == prvCopyDataToQueue(k, q, item, position)
      room   == HasRoom(q, position)
  IN CASE ~room -> [k |-> k, q |-> q]
       [] room /\ q.txLock = queueUNLOCKED ->
            [k |-> WakeOne(copied.k, <<id, "receive">>), q |-> copied.q]
       [] room /\ q.txLock # queueUNLOCKED ->
            [k |-> copied.k, q |-> [copied.q EXCEPT !.txLock = @ + 1]]

\* Nothing is copied, and a mutex is not given back by a handler.
xQueueGiveFromISR(k, q, id, token) ==
  LET given == [q EXCEPT !.items = Append(@, token)]
      room  == HasRoom(q, "back")
  IN CASE ~room -> [k |-> k, q |-> q]
       [] room /\ q.txLock = queueUNLOCKED ->
            [k |-> WakeOne(k, <<id, "receive">>), q |-> given]
       [] room /\ q.txLock # queueUNLOCKED ->
            [k |-> k, q |-> [given EXCEPT !.txLock = @ + 1]]

xQueueReceiveFromISR(k, q, id) ==
  LET received == [q EXCEPT !.items = Tail(@)]
      some     == ~prvIsQueueEmpty(q)
  IN CASE ~some -> [k |-> k, q |-> q]
       [] some /\ q.rxLock = queueUNLOCKED ->
            [k |-> WakeOne(k, <<id, "send">>), q |-> received]
       [] some /\ q.rxLock # queueUNLOCKED ->
            [k |-> k, q |-> [received EXCEPT !.rxLock = @ + 1]]

-----------------------------------------------------------------------------
HighestIgnored(k, id) == 0   \* slip: who else waits is not looked at

\* prvGetDisinheritPriorityAfterTimeout: read back from the value of the item
\* at the head.
HighestWaiting(k, id) ==
  LET waiting == k.events[<<id, "receive">>]
  IN IF waiting = <<>> THEN 0 ELSE MaxPriorities - k.eventValue[Head(waiting)]
=============================================================================
