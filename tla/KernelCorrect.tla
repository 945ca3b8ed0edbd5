--------------------------- MODULE KernelCorrect ----------------------------
(***************************************************************************)
(* What the kernel promises its tasks.                                     *)
(***************************************************************************)
EXTENDS Kernel

ThreadState ==
  [at : Nat \ {0},
   pc : {"start", "suspend", "lock", "check", "test", "inherit", "block", "unlockTx",
         "unlockRx", "resume", "yield", "expired", "disinherit", "suspended", "reset"},
   timed : BOOLEAN, inherited : BOOLEAN, then : {"retry", "blocked", "expired"},
   wait : [left : Ticks, entered : Ticks, epoch : Nat], previous : Ticks, rounds : Nat]

\* Types.
TypeOK ==
  /\ k \in KernelState
  /\ queue \in [Queue -> QueueState]
  /\ thread \in [Task -> ThreadState]
  /\ irqs \in 0..app.maxIrqs
  /\ due \in [Task -> Nat]

-----------------------------------------------------------------------------
Count(items, t) == Cardinality({i \in DOMAIN items : items[i] = t})

\* How often t's state item, and its event item, is in some list; of the ready
\* lists, in that of its priority.
StateLists(t) ==
  Count(k.delayed, t) + Count(k.overflow, t) + (IF t \in k.suspended THEN 1 ELSE 0)
  + Count(k.terminating, t) + Count(k.ready[k.prio[t]].items, t)

EventLists(t) ==
  Count(k.pending, t)
  + Cardinality({e \in EventList : Contains(k.events[e], t)})

\* A task is in exactly one of the ready, delayed and suspended lists, once,
\* and if it is ready, in the list of the priority it has now; it waits for at
\* most one event, and not when it is ready.
ListsSound ==
  \A t \in ToSet(app.tasks) :
    /\ StateLists(t) = 1
    /\ \A p \in Priority : Contains(k.ready[p].items, t) => p = k.prio[t]
    /\ EventLists(t) = 0 \/ (EventLists(t) = 1 /\ ~InReadyList(k, t))

\* The bit map of the priorities tells which ready lists are not empty
\* (uxTopReadyPriority).
ReadyBitsExact == k.top = {p \in Priority : k.ready[p].items # <<>>}

\* Whenever the scheduler is not suspended, no ready task is more urgent than
\* the one that runs.
HighestReadyRuns ==
  k.schedSusp = 0 =>
    \A t \in Task : InReadyList(k, t) => k.prio[t] <= k.prio[k.current]

\* The time before which the tick does not look at the delayed list is never
\* later than the time of the first task there.
UnblockTimeSound == k.delayed # <<>> => k.unblock <= k.wake[Head(k.delayed)]

Sorted(items, value) ==
  \A i, j \in DOMAIN items : i < j => value[items[i]] <= value[items[j]]

\* No task sleeps past the time it asked for, across the wrap of the tick
\* count: a sleeping task's time is still to come, its item has that time, and
\* it is in the list of this turn of the tick count or of the next.
SleepersOnTime ==
  /\ Sorted(k.delayed, k.wake) /\ Sorted(k.overflow, k.wake)
  /\ \A t \in Task :
       InDelayedList(k, t) =>
         /\ due[t] > KernelTime(k)
         /\ k.wake[t] = due[t] % TickMod
         /\ due[t] \div TickMod =
              IF Contains(k.delayed, t) THEN k.overflows ELSE k.overflows + 1

\* A task that waits for the clock alone is not woken before its time, unless
\* it is notified, or another task suspends it, deletes it or aborts its delay.
NoEarlyWake ==
  [][\A t \in Task :
       InDelayedList(k, t) /\ ~InEventList(k, t) /\ ~InDelayedList(k', t) =>
         \/ KernelTime(k') >= due[t]
         \/ k.note[t].state = "waiting" /\ k'.note[t].state = "received"
         \/ Call(k.current).op \in {"suspend", "abort", "delete"}]_vars

\* A periodic task does not drift: called less than a turn of the tick count after
\* its last period began, xTaskDelayUntil sleeps if its next period is to come,
\* and then until exactly that, across the wrap of the tick count.
NoDrift ==
  [][\A t \in Task :
       Running(t, {"until"}, "suspended") /\ thread'[t].pc = "resume" =>
         LET last == thread[t].rounds * Call(t).ticks
             next == last + Call(t).ticks
         IN KernelTime(k) - last \in 0..(TickMod - 1) =>
              /\ InDelayedList(k', t) <=> KernelTime(k) < next
              /\ InDelayedList(k', t) => due'[t] = next]_vars

\* A call that gives up has waited the time it was given, however often it was
\* woken in between and found the item gone; only an aborted one has ticks left.
NoEarlyTimeout ==
  \A t \in Task :
    thread[t].then = "expired" /\ thread[t].wait.left = 0 => KernelTime(k) >= due[t]

-----------------------------------------------------------------------------
\* The tasks that are in a call of the kind op on queue q and in no event list:
\* they will look at the queue before they block again.
Looking(q, ops) ==
  {t \in Task : /\ app.calls[t] # <<>>
                /\ Call(t).op \in ops /\ Call(t).queue = q
                /\ ~\E e \in EventList : Contains(k.events[e], t)}

\* No wakeup is lost: while a task waits for an item (for room) and the queue
\* is not locked, each item (each place) has a task that will look at it.
NoLostWakeup ==
  \A q \in Queue :
    /\ k.events[<<q, "receive">>] # <<>> /\ queue[q].txLock = queueUNLOCKED =>
         uxQueueMessagesWaiting(queue[q]) <= Cardinality(Looking(q, Looks))
    /\ k.events[<<q, "send">>] # <<>> /\ queue[q].rxLock = queueUNLOCKED =>
         uxQueueSpacesAvailable(queue[q]) <= Cardinality(Looking(q, {"send"}))

Mutexes == {q \in Queue : queue[q].kind = "mutex"}

\* A mutex is held by one task or is there to be taken, and a task's count of
\* mutexes is that of those it holds.
MutexesHeld ==
  /\ \A q \in Mutexes : (queue[q].holder = NoTask) <=> ~prvIsQueueEmpty(queue[q])
  /\ \A t \in Task : k.held[t] = Cardinality({q \in Mutexes : queue[q].holder = t})

\* A running task is about to put the item of a mutex back.
GivesMutex(t) ==
  /\ \/ Running(t, Sends, "start") /\ CanGo(t)
     \/ Running(t, {"give recursive"}, "start") /\ Q(t).holder = t /\ Q(t).recursion = 1
  /\ Q(t).kind = "mutex"

\* Who gives a mutex back holds it, and has it in its count (tasks.c:4175-4176,
\* assertions that this configuration leaves out).
GivenByHolder ==
  \A t \in Task :
    GivesMutex(t) => Q(t).holder = NoTask \/ (Q(t).holder = t /\ k.held[t] > 0)

\* The count of the takes of a recursive mutex does not go below zero: its holder
\* has taken it as such (queue.c:655-659, where no underflow check is thought needed).
GivenAsTaken ==
  \A t \in Task :
    Running(t, {"give recursive"}, "start") /\ Q(t).holder = t => Q(t).recursion > 0

\* A task that gives its only mutex back with an inherited priority gives it to
\* one more urgent than it then is, or to none: it yields to the task that it
\* wakes, and not because of what it loses (queue.c:904-927).
GivenToUrgent ==
  \A t \in Task :
    LET waiting == k.events[<<Call(t).queue, "receive">>]
        loses   == k.held[t] = 1 /\ k.base[t] < k.prio[t]
    IN GivesMutex(t) /\ Q(t).holder = t /\ loses /\ waiting # <<>> =>
         k.prio[Head(waiting)] > k.base[t]

\* A task that gives up waiting for a mutex leaves its holder a priority no higher
\* than its own, and if the holder is ready and loses one by it, not the only
\* one in its ready list: the bit of that list would stay set (tasks.c:4311-4318).
GivenUpQuietly ==
  \A t \in Task :
    LET holder  == Q(t).holder
        waiting == HighestWaiting(k, Call(t).queue)
        left    == IF k.base[holder] < waiting THEN waiting ELSE k.base[holder]
        loses   == k.prio[holder] # left /\ k.held[holder] = 1
    IN Running(t, Takes, "disinherit") /\ holder # NoTask /\ loses /\ InReadyList(k, holder) =>
         holder # t /\ left <= k.prio[t] /\ k.ready[k.prio[holder]].items # <<holder>>

Recursive ==
  {q \in Mutexes : \E t \in Task : \E i \in DOMAIN app.calls[t] :
      app.calls[t][i].op = "take recursive" /\ app.calls[t][i].queue = q}

\* A recursive mutex is given back with the last of its takes: it has a holder
\* for as long as some take has not been given.
TakesCounted ==
  \A q \in Recursive : (queue[q].recursion = 0) <=> (queue[q].holder = NoTask)

\* The holder of a mutex is as urgent as any task that
\* waits for it; and a task without a mutex is back at its own priority.
HoldersUrgent ==
  /\ \A q \in Mutexes : \A t \in ToSet(k.events[<<q, "receive">>]) :
       queue[q].holder # NoTask => k.prio[queue[q].holder] >= k.prio[t]
  /\ \A t \in Task : k.held[t] = 0 => k.prio[t] = k.base[t]

(***************************************************************************)
(* What the scheduler chooses by agrees with the lists: the bit map is     *)
(* that of the ready lists, and while it is free to choose, the running    *)
(* task is a most urgent one.  With the types of all that is kept.         *)
(***************************************************************************)
SchedulerSound == TypeOK /\ ReadyBitsExact /\ HighestReadyRuns

(***************************************************************************)
(* However the tick count wraps, no task sleeps past its time, no time-out *)
(* comes before its time, and the tick looks at the delayed lists early    *)
(* enough.                                                                 *)
(***************************************************************************)
TimeKept == SleepersOnTime /\ UnblockTimeSound /\ NoEarlyTimeout

(***************************************************************************)
(* A delay is exact on the other side too: no task is woken before its     *)
(* time by the tick, and a periodic one keeps its period.                  *)
(***************************************************************************)
DelaysExact == NoEarlyWake /\ NoDrift

\* What xTaskCheckForTimeOut takes for granted: a task that waits with a time-out is
\* not kept from the processor for two turns of the tick count before it looks at the
\* clock again.  What it notes tells one turn from none, and no more of them
\* (tasks.c:3354); with more, a wait can last a turn too long.
LookedAtInTime ==
  \A t \in Task :
    Running(t, Waits, "check") /\ thread[t].wait.left # portMAX_DELAY =>
      k.overflows <= thread[t].wait.epoch + 1

\* Each task that delays itself periodically has one period.
OnePeriod ==
  \A a \in Apps : \A t \in Task : \A i, j \in DOMAIN a.calls[t] :
    a.calls[t][i].op = "until" /\ a.calls[t][j].op = "until" =>
      a.calls[t][i].ticks = a.calls[t][j].ticks

\* No call gives up after a time.
NoTimeouts ==
  \A a \in Apps : \A t \in Task : \A i \in DOMAIN a.calls[t] :
    a.calls[t][i].op \in Waits => a.calls[t][i].ticks \in {0, portMAX_DELAY}

(***************************************************************************)
(* What a mutex records, its holder, its item and the count of its takes,  *)
(* and what the tasks record, the number of mutexes each holds, agree; and *)
(* no task gives back what it does not hold.                               *)
(***************************************************************************)
MutexesSound == MutexesHeld /\ TakesCounted /\ GivenByHolder /\ GivenAsTaken

(***************************************************************************)
(* No holder of a mutex is less urgent than who waits for it, also with    *)
(* two mutexes and waits that time out; and none loses an inherited        *)
(* priority where the scheduler does not look.  The latter holds of the    *)
(* applications that are checked, not of every one: MCKernel has two that  *)
(* give and one that times out where it does not.                          *)
(***************************************************************************)
NoInversion == HoldersUrgent /\ GivenToUrgent /\ GivenUpQuietly

-----------------------------------------------------------------------------
(***************************************************************************)
(* How an application is to use its mutexes: a task gives back what it has *)
(* taken, as it has taken it, and nothing else.  It is a matter of its     *)
(* program, in which it can be told at each call what the task holds.      *)
(***************************************************************************)
Plain == {"receive"} \cup Sends
Counted == {"take recursive", "give recursive"}
Gives == Sends \cup {"give recursive"}

MutexesOf(a) == {q \in Queue : a.queues[q].kind = "mutex"}

\* A call on queue q.
On(c, q) == c.op \in Waits \cup Gives \cup {"reset"} /\ c.queue = q

\* Of the task that has taken q, n times more than it has given it back, some calls
\* cannot fail, and one cannot succeed: giving what it does not hold.
Certain(c, q, n) == On(c, q) /\ (c.op \in Sends \/ (c.op \in Counted /\ n > 0))
Vain(c, q, n)    == On(c, q) /\ c.op \in Gives /\ n = 0

\* How often it has taken it after a call that succeeds.
TakenAfter(c, q, n) ==
  CASE On(c, q) /\ c.op \in Takes -> n + 1
    [] On(c, q) /\ c.op \in Gives -> n - 1
    [] OTHER -> n

NextOf(calls, i) == IF i = Len(calls) THEN 1 ELSE i + 1

\* taken[i] is how often a task with these calls has taken q when it comes to call i,
\* whichever way it comes there.
Tracks(calls, q, taken) ==
  \A i \in DOMAIN calls :
    LET c == calls[i]
        n == taken[i]
    IN /\ i = 1 => n = 0
       /\ On(c, q) => /\ c.op # "reset"
                      /\ c.op = "receive" => n = 0
                      /\ c.op \in Sends => n = 1
       /\ ~Vain(c, q, n) => taken[NextOf(calls, i)] = TakenAfter(c, q, n)
       /\ c.op \in Waits \cup Gives /\ ~Certain(c, q, n) => taken[c.fail] = n

Counts(calls) == [DOMAIN calls -> 0..Len(calls)]

UsedBy(a, q, ops) ==
  \E t \in Task : \E i \in DOMAIN a.calls[t] : On(a.calls[t][i], q) /\ a.calls[t][i].op \in ops

\* a gives back what it takes.  No mutex is taken once plainly and once recursively,
\* and no handler takes or gives one.
GivesBack(a) ==
  /\ \A q \in Queue : a.queues[q].holder = NoTask
  /\ \A q \in MutexesOf(a) :
       /\ a.queues[q].length = 1 /\ Len(a.queues[q].items) = 1 /\ a.queues[q].recursion = 0
       /\ ~UsedBy(a, q, Plain) \/ ~UsedBy(a, q, Counted)
       /\ \A h \in a.handlers : h.op \in {"give", "receive"} => h.queue # q
       /\ \A t \in Task : \E taken \in Counts(a.calls[t]) : Tracks(a.calls[t], q, taken)

MutexesGivenBack == \A a \in Apps : GivesBack(a)

-----------------------------------------------------------------------------
(***************************************************************************)
(* What the code says of itself and does not do in every application.      *)
(***************************************************************************)

\* tasks.c:178: the ready list that the scheduler takes the next task from is
\* not empty (the owner of the end marker of an empty one is no task).
SelectedListNotEmpty == k.current # NoTask

\* queue.c:1581-1586: a task that gives up a mutex without waiting has not had
\* its priority inherited.
NoInheritanceGivenUp ==
  \A t \in Task :
    Running(t, Takes, "start") /\ ~CanGo(t) /\ TicksToWait(t) = 0 =>
      ~thread[t].inherited

\* tasks.c:3188-3190: the first task of an event list is the most urgent one.
FirstIsMostUrgent ==
  \A e \in EventList : \A i \in DOMAIN k.events[e] :
    k.prio[k.events[e][i]] <= k.prio[Head(k.events[e])]
=============================================================================
