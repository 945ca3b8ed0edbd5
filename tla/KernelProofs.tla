----------------------------- MODULE KernelProofs ----------------------------
(***************************************************************************)
(* The lists of the kernel in every behaviour of every application: no     *)
(* task is lost, and none is in two lists at once.                         *)
(*                                                                         *)
(* The invariant says, beside the lists, who may change them: only the     *)
(* running task suspends the scheduler, once, and while it does no other   *)
(* is switched to; and the running task is in its ready list, unless it    *)
(* has put itself to sleep and has not yielded yet.                        *)
(*                                                                         *)
(* And the task that runs is a most urgent one, which takes the same       *)
(* invariant, the bits of the priorities, and what the application does    *)
(* with its mutexes.                                                       *)
(*                                                                         *)
(* And time is kept: what the lists, the locals of the calls and the tick  *)
(* count say of when a task is to wake is when it was to, in turns of the  *)
(* tick count, and no step wakes one early.                                *)
(*                                                                         *)
(* And mutexes are kept: in an application that gives back what it takes,  *)
(* what a mutex records of who has taken it, how often and with what is    *)
(* what has been taken at that place of the program of each task.          *)
(***************************************************************************)
EXTENDS KernelCorrect, TasksProofs

\* Where a call has the scheduler suspended.
Locked == {"lock", "check", "test", "inherit", "block", "unlockTx", "unlockRx",
           "resume", "suspended"}

\* t, with the locals th, may have left its ready list and will yield.
Leaving(calls, t, th) ==
  \/ th.pc = "yield"
  \/ th.pc = "reset" /\ calls[t][th.at].task = t
  \/ th.pc \in {"unlockTx", "unlockRx", "resume"} /\ th.then = "blocked"
     /\ calls[t][th.at].op \in Waits
  \/ th.pc = "resume" /\ calls[t][th.at].op \in {"delay", "until"}

\* Each task is somewhere in its program.
CallsTyped ==
  /\ app \in Apps
  /\ thread \in [Task -> ThreadState]
  /\ \A t \in Task : app.calls[t] # <<>> => thread[t].at \in DOMAIN app.calls[t]

\* The queues q are of the kinds the application made.
QueuesTyped(q) == q \in [Queue -> AnyQueue] /\ \A id \in Queue : q[id].kind = app.queues[id].kind

\* The scheduler is suspended, once, while the running task is where it has suspended it.
SuspendedByRunning ==
  /\ k.schedSusp = IF k.current \in Task /\ thread[k.current].pc \in Locked THEN 1 ELSE 0
  /\ \A t \in Task : thread[t].pc \in Locked => t = k.current

\* The running task is ready, unless it is about to yield.
RunningIsReady ==
  k.current \in Task => Leaving(app.calls, k.current, thread[k.current]) \/ IsReady(k, k.current)

\* The inductive invariant.
KernelInv ==
  /\ CallsTyped
  /\ k \in Good
  /\ QueuesTyped(queue)
  /\ \A t \in ToSet(app.tasks) : ~Away(k, t)
  /\ SuspendedByRunning
  /\ RunningIsReady

-----------------------------------------------------------------------------
(***************************************************************************)
(* What an application is, and where a call goes.                          *)
(***************************************************************************)
LEMMA AppTyped ==
  ASSUME CallsTyped, NEW t \in Task, app.calls[t] # <<>>
  PROVE  /\ IsApp(app)
         /\ Len(app.calls[t]) \in Nat \ {0} /\ DOMAIN app.calls[t] = 1..Len(app.calls[t])
         /\ IsCall(Call(t), Len(app.calls[t]))
         /\ thread[t] \in ThreadState /\ thread[t].at \in 1..Len(app.calls[t])
<1>1. IsApp(app)
  BY AppsAssumption DEF CallsTyped
<1>2. app.calls[t] \in Seq(ToSet(app.calls[t]))
  BY <1>1 DEF IsApp
<1> DEFINE n == Len(app.calls[t])
<1>3. n \in Nat \ {0} /\ DOMAIN app.calls[t] = 1..n
  BY <1>2
<1>4. \A i \in DOMAIN app.calls[t] : IsCall(app.calls[t][i], n)
  BY <1>1 DEF IsApp
<1>5. thread[t] \in ThreadState /\ thread[t].at \in DOMAIN app.calls[t]
  BY DEF CallsTyped
<1> QED
  BY <1>1, <1>3, <1>4, <1>5 DEF Call

\* The places of a program start at 1.
LEMMA PositiveUpTo ==
  ASSUME NEW n \in Nat
  PROVE  \A i \in 1..n : i \in Nat \ {0}
OBVIOUS

\* A call that begins.
LEMMA BeginTyped ==
  ASSUME NEW at \in Nat \ {0}, NEW previous \in Ticks, NEW rounds \in Nat
  PROVE  /\ Begin(at, previous, rounds) \in ThreadState
         /\ Begin(at, previous, rounds).at = at /\ Begin(at, previous, rounds).pc = "start"
<1>1. 0 \in Ticks
  BY TaskAssumption DEF Ticks
<1> QED
  BY <1>1 DEF Begin, ThreadState

\* The locals th are where a call of t begins.
Starts(t, th) == th \in ThreadState /\ th.at \in DOMAIN app.calls[t] /\ th.pc = "start"

\* After a call the next one of the program begins,
LEMMA ReturnStarts ==
  ASSUME CallsTyped, NEW t \in Task, app.calls[t] # <<>>, Return(t)
  PROVE  \E th : Starts(t, th) /\ thread' = [thread EXCEPT ![t] = th]
<1> DEFINE n == Len(app.calls[t])
           at == IF thread[t].at = n THEN 1 ELSE thread[t].at + 1
           th == Begin(at, thread[t].previous, thread[t].rounds)
<1>1. /\ n \in Nat \ {0} /\ DOMAIN app.calls[t] = 1..n
      /\ thread[t] \in ThreadState /\ thread[t].at \in 1..n
  BY AppTyped
<1>2. thread' = [thread EXCEPT ![t] = th]
  BY DEF Return
<1> HIDE DEF n
<1>3. at \in 1..n /\ at \in Nat \ {0}
  BY <1>1
<1>4. thread[t].previous \in Ticks /\ thread[t].rounds \in Nat
  BY <1>1 DEF ThreadState
<1> HIDE DEF at
<1>5. th \in ThreadState /\ th.at = at /\ th.pc = "start"
  BY <1>3, <1>4, BeginTyped
<1> HIDE DEF th
<1>6. Starts(t, th)
  BY <1>1, <1>3, <1>5 DEF Starts
<1> QED
  BY <1>2, <1>6

\* and after one that failed, the one its program names.
LEMMA FailStarts ==
  ASSUME CallsTyped, NEW t \in Task, app.calls[t] # <<>>, Fail(t),
         Call(t).op \in Waits \cup {"give recursive"}
  PROVE  \E th : Starts(t, th) /\ thread' = [thread EXCEPT ![t] = th]
<1> DEFINE n == Len(app.calls[t])
           th == Begin(Call(t).fail, thread[t].previous, thread[t].rounds)
<1>1. /\ n \in Nat \ {0} /\ DOMAIN app.calls[t] = 1..n
      /\ thread[t] \in ThreadState
  BY AppTyped
<1>0. IsCall(Call(t), n)
  BY AppTyped
<1>2. thread' = [thread EXCEPT ![t] = th]
  BY DEF Fail
<1> HIDE DEF n
<1>3. Call(t).fail \in 1..n
  BY <1>0 DEF IsCall
<1>4. thread[t].previous \in Ticks /\ thread[t].rounds \in Nat
  BY <1>1 DEF ThreadState
<1> DEFINE at == Call(t).fail
<1>5. at \in 1..n /\ at \in Nat \ {0} /\ th = Begin(at, thread[t].previous, thread[t].rounds)
  <2>1. at \in 1..n
    BY <1>3
  <2>2. th = Begin(at, thread[t].previous, thread[t].rounds)
    OBVIOUS
  <2> HIDE DEF at, th
  <2>3. \A i \in 1..n : i \in Nat \ {0}
    BY <1>1, PositiveUpTo
  <2> QED
    BY <2>1, <2>2, <2>3
<1> HIDE DEF at, th
<1>6. th \in ThreadState /\ th.at = at /\ th.pc = "start"
  BY <1>4, <1>5, BeginTyped
<1>7. Starts(t, th)
  BY <1>1, <1>5, <1>6 DEF Starts
<1> QED
  BY <1>2, <1>7 DEF th

-----------------------------------------------------------------------------
(***************************************************************************)
(* What of a step keeps the invariant.                                     *)
(***************************************************************************)
\* The running task t takes a step, to the locals th.
Steps(t, th) ==
  /\ t = k.current /\ app.calls[t] # <<>> /\ app' = app
  /\ th \in ThreadState /\ th.at \in DOMAIN app.calls[t]
  /\ thread' = [thread EXCEPT ![t] = th]

\* A step of the running task: what it has to show, of the kernel and of the task.
LEMMA StepKeeps ==
  ASSUME KernelInv, NEW t \in Task, NEW th, Steps(t, th), QueuesTyped(queue'),
         k' \in Good, \A u \in Task : ~Away(k, u) => ~Away(k', u),
         k'.schedSusp = IF th.pc \in Locked THEN 1 ELSE 0,
         th.pc \in Locked => k'.current = t,
         k'.current \in Task =>
           \/ k'.current = t /\ Leaving(app.calls, t, th)
           \/ IsReady(k', k'.current)
  PROVE  KernelInv'
<1>1. /\ app' = app /\ thread \in [Task -> ThreadState] /\ t = k.current
      /\ thread'[t] = th /\ \A u \in Task \ {t} : thread'[u] = thread[u]
      /\ thread' \in [Task -> ThreadState]
  BY DEF KernelInv, CallsTyped, Steps
<1>2. CallsTyped'
  BY <1>1 DEF KernelInv, CallsTyped, Steps
<1>3. QueuesTyped(queue)'
  BY <1>1 DEF QueuesTyped
<1>4. \A u \in Task : thread'[u].pc \in Locked => u = k'.current
  BY <1>1 DEF KernelInv, SuspendedByRunning
<1>5. SuspendedByRunning'
  <2>1. CASE k'.current = t
    BY <1>1, <1>4, <2>1 DEF SuspendedByRunning
  <2>2. CASE k'.current # t
    <3>1. th.pc \notin Locked /\ k'.schedSusp = 0
      BY <2>2
    <3>2. \A u \in Task \ {t} : thread'[u].pc \notin Locked
      BY <1>1 DEF KernelInv, SuspendedByRunning
    <3> QED
      BY <1>4, <2>2, <3>1, <3>2 DEF SuspendedByRunning
  <2> QED
    BY <2>1, <2>2
<1>6. RunningIsReady'
  BY <1>1 DEF RunningIsReady
<1>7. (\A u \in ToSet(app.tasks) : ~Away(k, u))'
  <2>1. ToSet(app.tasks) \subseteq Task
    BY AppsAssumption DEF KernelInv, CallsTyped, IsApp, ToSet
  <2> QED
    BY <1>1, <2>1 DEF KernelInv
<1> QED
  BY <1>2, <1>3, <1>5, <1>6, <1>7 DEF KernelInv

\* A step that moves tasks, and neither suspends the scheduler nor resumes it.
LEMMA MovingStepKeeps ==
  ASSUME KernelInv, NEW t \in Task, NEW th, Steps(t, th), QueuesTyped(queue'),
         Moves(k, k'), th.pc \in Locked <=> thread[t].pc \in Locked,
         Leaving(app.calls, t, th) \/ IsReady(k, t) \/ Settled(k')
  PROVE  KernelInv'
<1>1. k' \in Good /\ k'.schedSusp = k.schedSusp /\ t = k.current
  BY DEF Moves, Steps
<1>2. k.schedSusp = IF th.pc \in Locked THEN 1 ELSE 0
  BY <1>1 DEF KernelInv, SuspendedByRunning
<1>3. th.pc \in Locked => k'.current = t
  BY <1>1, <1>2 DEF Moves
<1>4. ASSUME k'.current \in Task
      PROVE  \/ k'.current = t /\ Leaving(app.calls, t, th)
             \/ IsReady(k', k'.current)
  <2>1. Settled(k') => IsReady(k', k'.current)
    BY <1>4, TaskAssumption DEF Settled
  <2>2. CASE k'.current = t
    BY <2>1, <2>2 DEF Moves
  <2>3. CASE k'.current # t
    BY <1>1, <2>1, <2>3 DEF Moves
  <2> QED
    BY <2>2, <2>3
<1> QED
  BY <1>1, <1>2, <1>3, <1>4, StepKeeps DEF Moves

\* A step that changes only the task's locals, or its queue.
LEMMA QuietStepKeeps ==
  ASSUME KernelInv, NEW t \in Task, NEW th, Steps(t, th), QueuesTyped(queue'),
         k' = k, th.pc \in Locked <=> thread[t].pc \in Locked,
         Leaving(app.calls, t, th) \/ IsReady(k, t)
  PROVE  KernelInv'
<1>1. Moves(k, k')
  BY DEF KernelInv, Moves
<1> QED
  BY <1>1, MovingStepKeeps

\* A step that puts a task to sleep, the running one or another.
LEMMA SleepingStepKeeps ==
  ASSUME KernelInv, NEW t \in Task, NEW th, Steps(t, th), queue' = queue,
         NEW u \in Task, SleepsIn(k, k', u), th.pc \in Locked <=> thread[t].pc \in Locked,
         Leaving(app.calls, t, th) \/ (t # u /\ IsReady(k, t))
  PROVE  KernelInv'
<1>1. /\ k' \in Good /\ k'.schedSusp = k.schedSusp /\ t = k.current /\ k'.current = k.current
      /\ \A v \in Task : ~Away(k, v) => ~Away(k', v)
      /\ \A v \in Task \ {u} : IsReady(k', v) <=> IsReady(k, v)
  BY DEF SleepsIn, Others, Steps
<1>2. k.schedSusp = IF th.pc \in Locked THEN 1 ELSE 0
  BY <1>1 DEF KernelInv, SuspendedByRunning
<1>3. QueuesTyped(queue')
  BY DEF KernelInv
<1> QED
  BY <1>1, <1>2, <1>3, StepKeeps

\* The running task suspends the scheduler.
LEMMA SuspendAllKeeps ==
  ASSUME KernelInv, NEW t \in Task, NEW th, Steps(t, th), queue' = queue,
         k' = vTaskSuspendAll(k), thread[t].pc \notin Locked, th.pc \in Locked, IsReady(k, t)
  PROVE  KernelInv'
<1>1. k \in Good /\ k \in KernelState /\ k.schedSusp = 0 /\ t = k.current
  BY DEF KernelInv, SuspendedByRunning, Good, Steps
<1>3. k' \in Good /\ k'.current = t /\ k'.schedSusp = 1
      /\ \A u \in Task : (Away(k', u) <=> Away(k, u)) /\ (IsReady(k', u) <=> IsReady(k, u))
  BY <1>1, SuspendAllGood
<1>4. QueuesTyped(queue')
  BY DEF KernelInv
<1> QED
  BY <1>3, <1>4, StepKeeps

\* The running task resumes it: ready, or about to yield, or switched.
LEMMA ResumeAllKeeps ==
  ASSUME KernelInv, NEW t \in Task, NEW th, Steps(t, th), queue' = queue,
         k' = xTaskResumeAll(k).k, thread[t].pc \in Locked, th.pc \notin Locked,
         Leaving(app.calls, t, th) \/ IsReady(k, t) \/ xTaskResumeAll(k).yes
  PROVE  KernelInv'
<1> DEFINE s == [k EXCEPT !.schedSusp = @ - 1]
<1>1. k \in Good /\ k \in KernelState /\ k.schedSusp = 1 /\ t = k.current
  BY DEF KernelInv, SuspendedByRunning, Good, Steps
<1>2. Moves(s, k') /\ k'.schedSusp = 0 /\ (xTaskResumeAll(k).yes => Settled(k'))
  BY <1>1, ResumeAllGood
<1>3. s.current = t /\ \A u \in Task : (Away(s, u) <=> Away(k, u)) /\ (IsReady(s, u) <=> IsReady(k, u))
  BY <1>1 DEF KernelState, Away, IsReady
<1> HIDE DEF s
<1>4. QueuesTyped(queue')
  BY DEF KernelInv
<1>5. ASSUME k'.current \in Task
      PROVE  \/ k'.current = t /\ Leaving(app.calls, t, th)
             \/ IsReady(k', k'.current)
  <2>1. Settled(k') => IsReady(k', k'.current)
    BY <1>5, TaskAssumption DEF Settled
  <2> QED
    BY <1>2, <1>3, <2>1 DEF Moves
<1> QED
  BY <1>2, <1>3, <1>4, <1>5, StepKeeps DEF Moves

\* An interrupt, between two steps of the tasks.
LEMMA InterruptKeeps ==
  ASSUME KernelInv, app' = app, thread' = thread, QueuesTyped(queue'), Moves(k, k')
  PROVE  KernelInv'
<1>1. CallsTyped'
  BY DEF KernelInv, CallsTyped
<1>2. k' \in Good /\ k'.schedSusp = k.schedSusp
  BY DEF Moves
<1>3. (\A u \in ToSet(app.tasks) : ~Away(k, u))'
  <2>1. ToSet(app.tasks) \subseteq Task
    BY AppsAssumption DEF KernelInv, CallsTyped, IsApp, ToSet
  <2> QED
    BY <2>1 DEF KernelInv, Moves
<1>4. CASE k'.current = k.current
  <2>1. SuspendedByRunning'
    BY <1>2, <1>4 DEF KernelInv, SuspendedByRunning
  <2>2. RunningIsReady'
    BY <1>4 DEF KernelInv, RunningIsReady, Moves
  <2> QED
    BY <1>1, <1>2, <1>3, <2>1, <2>2 DEF KernelInv, QueuesTyped
<1>5. CASE k'.current # k.current
  <2>1. k.schedSusp = 0 /\ Settled(k')
    BY <1>5 DEF Moves
  <2>2. \A u \in Task : thread[u].pc \notin Locked
    BY <2>1 DEF KernelInv, SuspendedByRunning
  <2>3. SuspendedByRunning'
    BY <1>2, <2>1, <2>2 DEF SuspendedByRunning
  <2>4. RunningIsReady'
    BY <2>1, TaskAssumption DEF RunningIsReady, Settled
  <2> QED
    BY <1>1, <1>2, <1>3, <2>3, <2>4 DEF KernelInv, QueuesTyped
<1> QED
  BY <1>4, <1>5

-----------------------------------------------------------------------------
(***************************************************************************)
(* The steps of the calls of queue.c.                                      *)
(***************************************************************************)
\* Where a running task is in its ready list.
Awake == {"start", "suspend", "lock", "check", "test", "inherit", "block", "expired",
          "disinherit", "suspended"}

PCs == Awake \cup {"unlockTx", "unlockRx", "resume", "yield", "reset"}

\* What the guard of an action says of its task.
LEMMA RunningFacts ==
  ASSUME KernelInv, NEW t \in Task, NEW ops, NEW pc, Running(t, ops, pc)
  PROVE  /\ t = k.current /\ k.current \in Task /\ app.calls[t] # <<>>
         /\ Call(t).op \in ops /\ thread[t].pc = pc
         /\ IsCall(Call(t), Len(app.calls[t]))
         /\ thread[t] \in ThreadState /\ thread[t].at \in DOMAIN app.calls[t]
         /\ CallsTyped /\ k \in Good /\ QueuesTyped(queue)
         /\ pc \in Awake => IsReady(k, t)
<1>1. t = k.current /\ app.calls[t] # <<>> /\ Call(t).op \in ops /\ thread[t].pc = pc
  BY DEF Running
<1>2. CallsTyped /\ k \in Good /\ QueuesTyped(queue)
  BY DEF KernelInv
<1>3. /\ IsCall(Call(t), Len(app.calls[t])) /\ thread[t] \in ThreadState
      /\ thread[t].at \in DOMAIN app.calls[t]
  BY <1>1, <1>2, AppTyped
<1>4. pc \in Awake => IsReady(k, t)
  BY <1>1 DEF KernelInv, RunningIsReady, Leaving, Awake
<1> QED
  BY <1>1, <1>2, <1>3, <1>4

\* At the start of a call the scheduler is not suspended.
LEMMA StartSteps ==
  ASSUME NEW t \in Task, t = k.current, app.calls[t] # <<>>, app' = app,
         NEW th, Starts(t, th), thread' = [thread EXCEPT ![t] = th]
  PROVE  Steps(t, th) /\ th.pc \notin Locked
BY DEF Starts, Steps, Locked

\* A step that only goes elsewhere in the same call.
LEMMA GotoSteps ==
  ASSUME NEW t \in Task, t = k.current, app.calls[t] # <<>>, app' = app, CallsTyped,
         NEW pc \in PCs, Goto(t, pc)
  PROVE  \E th : /\ Steps(t, th) /\ th.pc = pc /\ th.at = thread[t].at /\ th.then = thread[t].then
<1> DEFINE th == [thread[t] EXCEPT !.pc = pc]
<1>1. thread \in [Task -> ThreadState] /\ thread[t].at \in DOMAIN app.calls[t]
  BY DEF CallsTyped
<1>2. thread[t] \in ThreadState
  BY <1>1
<1>3. th \in ThreadState /\ th.pc = pc /\ th.at = thread[t].at /\ th.then = thread[t].then
  BY <1>2 DEF ThreadState, PCs, Awake
<1>4. thread' = [thread EXCEPT ![t] = th]
  BY <1>1 DEF Goto
<1> HIDE DEF th
<1> QED
  BY <1>1, <1>3, <1>4 DEF Steps

\* A function of a queue is committed.
LEMMA CommitMoves ==
  ASSUME QueuesTyped(queue), NEW t \in Task, Call(t).queue \in Queue,
         NEW r, QueueMoves(k, Q(t), r), Commit(t, r)
  PROVE  Moves(k, k') /\ QueuesTyped(queue')
<1> DEFINE id == Call(t).queue
<1>1. r.q \in AnyQueue /\ r.q.kind = queue[id].kind /\ Moves(k, r.k)
  BY DEF QueueMoves, Q
<1>2. k' = r.k /\ queue' = [queue EXCEPT ![id] = r.q]
  BY DEF Commit
<1> HIDE DEF id
<1>3. QueuesTyped(queue')
  BY <1>1, <1>2 DEF QueuesTyped
<1> QED
  BY <1>1, <1>2, <1>3

\* The first critical section of xQueueGenericSend, xQueueReceive, xQueueSemaphoreTake
\* and xQueuePeek, when it succeeds.  A mutex is given back here.
LEMMA TransferKeeps ==
  ASSUME KernelInv, GivenByHolder, NEW t \in Task, Transfer(t)
  PROVE  KernelInv'
<1> DEFINE call == Call(t)
           q == Q(t)
           id == call.queue
<1>1. Running(t, Waits, "start") /\ CanGo(t) /\ app' = app /\ Return(t)
  BY DEF Transfer
<1>2. /\ t = k.current /\ k.current \in Task /\ app.calls[t] # <<>>
      /\ call.op \in Waits /\ IsCall(call, Len(app.calls[t])) /\ thread[t].pc = "start"
      /\ thread[t] \in ThreadState /\ CallsTyped /\ k \in Good /\ QueuesTyped(queue)
      /\ IsReady(k, t)
  BY <1>1, RunningFacts DEF Awake
<1>3. id \in Queue /\ q \in AnyQueue
  BY <1>2 DEF IsCall, QueuesTyped, Q
<1>4. Moves(k, k') /\ QueuesTyped(queue')
  <2>1. CASE call.op \in Sends
    <3> DEFINE r == SendWithRoom(k, q, id, ItemSent(t), call.position)
    <3>1. ItemSent(t) \in Item
      BY <1>2, <2>1 DEF ItemSent, IsCall, ThreadState
    <3>2. call.position \in Position
      BY <1>2, <2>1 DEF IsCall
    <3>3. HeldBy(k, q, t)
      <4>1. Running(t, Sends, "start")
        BY <1>1, <2>1 DEF Running
      <4> QED
        BY <1>1, <4>1 DEF GivenByHolder, GivesMutex, HeldBy
    <3>4. QueueMoves(k, q, r)
      BY <1>2, <1>3, <3>1, <3>2, <3>3, SendWithRoomGood
    <3>5. Commit(t, r)
      BY <2>1 DEF Transfer, Sends
    <3> HIDE DEF r
    <3> QED
      BY <1>2, <1>3, <3>4, <3>5, CommitMoves
  <2>2. CASE call.op \in Looks
    <3>1. q.items # <<>>
      BY <1>1, <2>2 DEF CanGo, Looks, Takes, Sends, prvIsQueueEmpty, uxQueueMessagesWaiting
    <3>2. \A n \in Nat : QueueMoves(k, q, TakeItem(k, q, id, n))
      BY <1>2, <1>3, <3>1, TakeItemGood
    <3>3. QueueMoves(k, q, PeekItem(k, q, id))
      BY <1>2, <1>3, PeekItemGood
    <3>4. \/ Commit(t, TakeItem(k, q, id, 0)) \/ Commit(t, TakeItem(k, q, id, 1))
          \/ Commit(t, PeekItem(k, q, id))
      <4>1. CASE call.op = "receive"
        BY <4>1 DEF Transfer, Sends
      <4>2. CASE call.op = "take recursive"
        BY <4>2 DEF Transfer, Sends
      <4>3. CASE call.op = "peek"
        BY <4>3 DEF Transfer, Sends
      <4> QED
        BY <2>2, <4>1, <4>2, <4>3 DEF Looks, Takes
    <3> QED
      BY <1>2, <1>3, <3>2, <3>3, <3>4, CommitMoves
  <2> QED
    BY <1>2, <2>1, <2>2 DEF Waits
<1>5. PICK th : Starts(t, th) /\ thread' = [thread EXCEPT ![t] = th]
  BY <1>1, <1>2, ReturnStarts
<1>6. Steps(t, th) /\ th.pc \notin Locked /\ thread[t].pc \notin Locked
  BY <1>1, <1>2, <1>5, StartSteps DEF Locked
<1> QED
  BY <1>2, <1>4, <1>6, MovingStepKeeps

\* The same without time to wait,
LEMMA TransferFailsKeeps ==
  ASSUME KernelInv, NEW t \in Task, TransferFails(t)
  PROVE  KernelInv'
<1>1. Running(t, Waits, "start") /\ app' = app /\ Fail(t) /\ k' = k /\ queue' = queue
  BY DEF TransferFails
<1>2. /\ t = k.current /\ app.calls[t] # <<>> /\ Call(t).op \in Waits /\ thread[t].pc = "start"
      /\ CallsTyped /\ QueuesTyped(queue) /\ IsReady(k, t)
  BY <1>1, RunningFacts DEF Awake
<1>3. PICK th : Starts(t, th) /\ thread' = [thread EXCEPT ![t] = th]
  BY <1>1, <1>2, FailStarts
<1>4. Steps(t, th) /\ th.pc \notin Locked /\ thread[t].pc \notin Locked
  BY <1>1, <1>2, <1>3, StartSteps DEF Locked
<1> QED
  BY <1>1, <1>2, <1>4, QuietStepKeeps

\* and with it: vTaskInternalSetTimeOutState.
LEMMA StartWaitKeeps ==
  ASSUME KernelInv, NEW t \in Task, StartWait(t)
  PROVE  KernelInv'
<1> DEFINE wait == vTaskInternalSetTimeOutState(k, Call(t).ticks)
           th == IF thread[t].timed THEN [thread[t] EXCEPT !.pc = "suspend"]
                 ELSE [thread[t] EXCEPT !.pc = "suspend", !.timed = TRUE, !.wait = wait]
<1>1. Running(t, Waits, "start") /\ app' = app /\ k' = k /\ queue' = queue
  BY DEF StartWait
<1>2. /\ t = k.current /\ app.calls[t] # <<>> /\ Call(t).op \in Waits /\ thread[t].pc = "start"
      /\ CallsTyped /\ QueuesTyped(queue) /\ IsReady(k, t) /\ k \in Good
      /\ IsCall(Call(t), Len(app.calls[t])) /\ thread[t] \in ThreadState
      /\ thread[t].at \in DOMAIN app.calls[t]
  BY <1>1, RunningFacts DEF Awake
<1>3. wait \in [left : Ticks, entered : Ticks, epoch : Nat]
  BY <1>2, SetTimeOutTyped DEF IsCall, Wait
<1>4. thread' = [thread EXCEPT ![t] = th]
  BY DEF StartWait
<1> HIDE DEF wait
<1>5. th \in ThreadState /\ th.pc = "suspend" /\ th.at = thread[t].at
  BY <1>2, <1>3 DEF ThreadState
<1> HIDE DEF th
<1>6. Steps(t, th) /\ th.pc \notin Locked /\ thread[t].pc \notin Locked
  BY <1>1, <1>2, <1>4, <1>5 DEF Steps, Locked
<1> QED
  BY <1>1, <1>2, <1>6, QuietStepKeeps

\* vTaskSuspendAll, in a call of a queue.
LEMMA SuspendSchedulerKeeps ==
  ASSUME KernelInv, NEW t \in Task, SuspendScheduler(t)
  PROVE  KernelInv'
<1>1. /\ Running(t, Waits, "suspend") /\ app' = app /\ queue' = queue
      /\ k' = vTaskSuspendAll(k) /\ Goto(t, "lock")
  BY DEF SuspendScheduler
<1>2. /\ t = k.current /\ app.calls[t] # <<>> /\ thread[t].pc = "suspend" /\ CallsTyped
      /\ IsReady(k, t)
  BY <1>1, RunningFacts DEF Awake
<1>3. PICK th : Steps(t, th) /\ th.pc = "lock"
  BY <1>1, <1>2, GotoSteps DEF PCs, Awake
<1> QED
  BY <1>1, <1>2, <1>3, SuspendAllKeeps DEF Locked

\* prvLockQueue
LEMMA LockQueueKeeps ==
  ASSUME KernelInv, NEW t \in Task, LockQueue(t)
  PROVE  KernelInv'
<1> DEFINE r == [k |-> k, q |-> prvLockQueue(Q(t))]
<1>1. /\ Running(t, Waits, "lock") /\ app' = app /\ Commit(t, r) /\ Goto(t, "check")
  BY DEF LockQueue
<1>2. /\ t = k.current /\ app.calls[t] # <<>> /\ thread[t].pc = "lock" /\ CallsTyped
      /\ IsReady(k, t) /\ k \in Good /\ QueuesTyped(queue) /\ Call(t).op \in Waits
      /\ IsCall(Call(t), Len(app.calls[t]))
  BY <1>1, RunningFacts DEF Awake
<1>3. Call(t).queue \in Queue /\ Q(t) \in AnyQueue
  BY <1>2 DEF IsCall, QueuesTyped, Q
<1>4. QueueMoves(k, Q(t), r)
  BY <1>2, <1>3, LockTyped DEF QueueMoves, Moves
<1>5. Moves(k, k') /\ QueuesTyped(queue')
  BY <1>1, <1>2, <1>3, <1>4, CommitMoves
<1>6. PICK th : Steps(t, th) /\ th.pc = "check"
  BY <1>1, <1>2, GotoSteps DEF PCs, Awake
<1>7. th.pc \in Locked /\ thread[t].pc \in Locked
  BY <1>2, <1>6 DEF Locked
<1> QED
  BY <1>2, <1>5, <1>6, <1>7, MovingStepKeeps

\* xTaskCheckForTimeOut
LEMMA CheckTimeOutKeeps ==
  ASSUME KernelInv, NEW t \in Task, CheckTimeOut(t)
  PROVE  KernelInv'
<1> DEFINE checked == xTaskCheckForTimeOut(k, thread[t].wait)
           pc == IF checked.yes THEN "unlockTx" ELSE "test"
           then == IF checked.yes THEN "expired" ELSE "retry"
           wait == checked.wait
           th == [thread[t] EXCEPT !.wait = wait, !.pc = pc, !.then = then]
<1>1. /\ Running(t, Waits, "check") /\ app' = app /\ queue' = queue /\ k' = checked.k
      /\ thread' = [thread EXCEPT ![t].wait = checked.wait, ![t].pc = pc, ![t].then = then]
  BY DEF CheckTimeOut
<1>2. /\ t = k.current /\ k.current \in Task /\ app.calls[t] # <<>> /\ thread[t].pc = "check"
      /\ CallsTyped /\ IsReady(k, t) /\ k \in Good /\ QueuesTyped(queue)
      /\ thread[t] \in ThreadState /\ thread[t].at \in DOMAIN app.calls[t]
  BY <1>1, RunningFacts DEF Awake
<1>3. Moves(k, k') /\ wait \in [left : Ticks, entered : Ticks, epoch : Nat]
  BY <1>1, <1>2, CheckForTimeOutGood DEF ThreadState, Wait
<1>4. pc \in {"unlockTx", "test"} /\ then \in {"expired", "retry"}
  OBVIOUS
<1> HIDE DEF checked, pc, then
<1>5. thread' = [thread EXCEPT ![t] = th]
  BY <1>1, <1>2 DEF CallsTyped
<1> HIDE DEF wait
<1>6. th \in ThreadState /\ th.pc \in {"unlockTx", "test"} /\ th.at = thread[t].at
  BY <1>2, <1>3, <1>4 DEF ThreadState
<1> HIDE DEF th
<1>7. Steps(t, th) /\ th.pc \in Locked /\ thread[t].pc \in Locked
  BY <1>1, <1>2, <1>5, <1>6 DEF Steps, Locked
<1> QED
  BY <1>1, <1>2, <1>3, <1>7, MovingStepKeeps

\* prvIsQueueFull and prvIsQueueEmpty, with the queue locked.
LEMMA TestQueueKeeps ==
  ASSUME KernelInv, NEW t \in Task, TestQueue(t)
  PROVE  KernelInv'
<1>1. /\ Running(t, Waits, "test") /\ app' = app /\ k' = k /\ queue' = queue
      /\ Goto(t, "unlockTx") \/ Goto(t, "inherit") \/ Goto(t, "block")
  BY DEF TestQueue
<1>2. /\ t = k.current /\ app.calls[t] # <<>> /\ thread[t].pc = "test" /\ CallsTyped
      /\ IsReady(k, t) /\ QueuesTyped(queue)
  BY <1>1, RunningFacts DEF Awake
<1>3. PICK th : Steps(t, th) /\ th.pc \in {"unlockTx", "inherit", "block"}
  BY <1>1, <1>2, GotoSteps DEF PCs, Awake
<1>4. th.pc \in Locked /\ thread[t].pc \in Locked
  BY <1>2, <1>3 DEF Locked
<1> QED
  BY <1>1, <1>2, <1>3, <1>4, QuietStepKeeps

\* xTaskPriorityInherit, before the taker of a mutex goes to sleep.
LEMMA InheritKeeps ==
  ASSUME KernelInv, NEW t \in Task, Inherit(t)
  PROVE  KernelInv'
<1> DEFINE raised == xTaskPriorityInherit(k, Q(t).holder)
           yes == raised.yes
           th == [thread[t] EXCEPT !.pc = "block", !.inherited = yes]
<1>1. /\ Running(t, Takes, "inherit") /\ app' = app /\ k' = raised.k /\ queue' = queue
      /\ thread' = [thread EXCEPT ![t].pc = "block", ![t].inherited = yes]
  BY DEF Inherit
<1>2. /\ t = k.current /\ k.current \in Task /\ app.calls[t] # <<>> /\ thread[t].pc = "inherit"
      /\ CallsTyped /\ IsReady(k, t) /\ QueuesTyped(queue) /\ k \in Good
      /\ Call(t).op \in Takes /\ IsCall(Call(t), Len(app.calls[t]))
      /\ thread[t] \in ThreadState /\ thread[t].at \in DOMAIN app.calls[t]
  BY <1>1, RunningFacts DEF Awake
<1>3. Q(t).holder \in Task \cup {NoTask}
  BY <1>2 DEF IsCall, QueuesTyped, Q, AnyQueue, Waits, Looks
<1>4. Moves(k, k') /\ yes \in BOOLEAN
  <2>1. Moves(k, k')
    BY <1>1, <1>2, <1>3, InheritGood
  <2>2. yes = TRUE \/ yes = FALSE \/ yes = (k.base[Q(t).holder] < k.prio[k.current])
    BY DEF xTaskPriorityInherit, Answer
  <2> HIDE DEF yes
  <2>3. (k.base[Q(t).holder] < k.prio[k.current]) \in BOOLEAN
    OBVIOUS
  <2> QED
    BY <2>1, <2>2, <2>3, Zenon
<1> HIDE DEF raised
<1>5. thread' = [thread EXCEPT ![t] = th]
  BY <1>1, <1>2 DEF CallsTyped
<1> HIDE DEF yes
<1>6. th \in ThreadState /\ th.pc = "block" /\ th.at = thread[t].at
  BY <1>2, <1>4 DEF ThreadState
<1> HIDE DEF th
<1>7. Steps(t, th) /\ th.pc \in Locked /\ thread[t].pc \in Locked
  BY <1>1, <1>2, <1>5, <1>6 DEF Steps, Locked
<1> QED
  BY <1>1, <1>2, <1>4, <1>7, MovingStepKeeps

\* vTaskPlaceOnEventList: the task sleeps while it has the scheduler suspended.
LEMMA BlockKeeps ==
  ASSUME KernelInv, NEW t \in Task, Block(t)
  PROVE  KernelInv'
<1> DEFINE e == <<Call(t).queue, IF Call(t).op \in Sends THEN "send" ELSE "receive">>
           th == [thread[t] EXCEPT !.pc = "unlockTx", !.then = "blocked"]
<1>1. /\ Running(t, Waits, "block") /\ app' = app /\ queue' = queue
      /\ k' = vTaskPlaceOnEventList(k, e, thread[t].wait.left)
      /\ thread' = [thread EXCEPT ![t].pc = "unlockTx", ![t].then = "blocked"]
  BY DEF Block
<1>2. /\ t = k.current /\ k.current \in Task /\ app.calls[t] # <<>> /\ thread[t].pc = "block"
      /\ CallsTyped /\ IsReady(k, t) /\ k \in Good
      /\ Call(t).op \in Waits /\ IsCall(Call(t), Len(app.calls[t]))
      /\ thread[t] \in ThreadState /\ thread[t].at \in DOMAIN app.calls[t]
  BY <1>1, RunningFacts DEF Awake
<1>3. e \in EventList
  BY <1>2 DEF IsCall, EventList
<1>4. Free(k, t) /\ thread[t].wait.left \in Ticks
  BY <1>2, ReadyIsNotAway DEF ThreadState
<1> HIDE DEF e
<1>5. SleepsIn(k, k', t)
  BY <1>1, <1>2, <1>3, <1>4, PlaceOnEventListGood
<1>6. thread' = [thread EXCEPT ![t] = th]
  BY <1>1, <1>2 DEF CallsTyped
<1>7. th \in ThreadState /\ th.pc = "unlockTx" /\ th.at = thread[t].at /\ th.then = "blocked"
  BY <1>2 DEF ThreadState
<1> HIDE DEF th
<1>8. Steps(t, th) /\ th.pc \in Locked /\ thread[t].pc \in Locked
  BY <1>1, <1>2, <1>6, <1>7 DEF Steps, Locked
<1>9. Leaving(app.calls, t, th)
  BY <1>2, <1>7 DEF Leaving, Call
<1> QED
  BY <1>1, <1>5, <1>8, <1>9, SleepingStepKeeps

\* Between blocking and yielding: what holds of a task there stays so.
LEMMA UnlockKeeps ==
  ASSUME KernelInv, NEW t \in Task, UnlockSenders(t) \/ UnlockReceivers(t)
  PROVE  KernelInv'
<1>1. PICK pc \in {"unlockTx", "unlockRx"}, next \in {"unlockRx", "resume"} :
        Running(t, Waits, pc) /\ app' = app /\ Goto(t, next)
  BY DEF UnlockSenders, UnlockReceivers
<1>2. /\ t = k.current /\ app.calls[t] # <<>> /\ thread[t].pc \in {"unlockTx", "unlockRx"}
      /\ CallsTyped /\ k \in Good /\ QueuesTyped(queue) /\ Call(t).op \in Waits
      /\ IsCall(Call(t), Len(app.calls[t]))
  BY <1>1, RunningFacts
<1>3. Call(t).queue \in Queue /\ Q(t) \in AnyQueue
  BY <1>2 DEF IsCall, QueuesTyped, Q
<1>4. PICK r : QueueMoves(k, Q(t), r) /\ Commit(t, r)
  BY <1>2, <1>3, UnlockGood DEF UnlockSenders, UnlockReceivers
<1>5. Moves(k, k') /\ QueuesTyped(queue')
  BY <1>2, <1>3, <1>4, CommitMoves
<1>6. PICK th : /\ Steps(t, th) /\ th.pc \in {"unlockRx", "resume"}
                /\ th.at = thread[t].at /\ th.then = thread[t].then
  BY <1>1, <1>2, GotoSteps DEF PCs, Awake
<1>7. th.pc \in Locked /\ thread[t].pc \in Locked
  BY <1>2, <1>6 DEF Locked
<1>8. Leaving(app.calls, t, thread[t]) => Leaving(app.calls, t, th)
  BY <1>2, <1>6 DEF Leaving, Call
<1>9. Leaving(app.calls, t, th) \/ IsReady(k, t)
  BY <1>2, <1>8 DEF KernelInv, RunningIsReady
<1> QED
  BY <1>5, <1>6, <1>7, <1>9, MovingStepKeeps

\* xTaskResumeAll, which may switch to another task.
LEMMA ResumeSchedulerKeeps ==
  ASSUME KernelInv, NEW t \in Task, ResumeScheduler(t)
  PROVE  KernelInv'
<1> DEFINE resumed == xTaskResumeAll(k)
<1>1. /\ Running(t, Waits, "resume") /\ app' = app /\ queue' = queue /\ k' = resumed.k
  BY DEF ResumeScheduler
<1>2. /\ t = k.current /\ k.current \in Task /\ app.calls[t] # <<>> /\ thread[t].pc = "resume"
      /\ CallsTyped /\ k \in Good /\ Call(t).op \in Waits /\ thread[t] \in ThreadState
  BY <1>1, RunningFacts
<1>3. thread[t].then # "blocked" => IsReady(k, t)
  <2>1. Call(t).op \notin {"delay", "until"}
    BY <1>2 DEF Waits, Sends, Looks, Takes
  <2> QED
    BY <1>2, <2>1 DEF KernelInv, RunningIsReady, Leaving, Call
<1> HIDE DEF resumed
<1>4. \E th : /\ Steps(t, th) /\ th.pc \notin Locked
              /\ th.pc = "yield" \/ IsReady(k, t) \/ resumed.yes
  <2>1. CASE thread[t].then = "blocked"
    <3>1. Goto(t, IF resumed.yes THEN "start" ELSE "yield")
      BY <2>1 DEF ResumeScheduler, resumed
    <3>2. CASE resumed.yes
      <4>1. Goto(t, "start")
        BY <3>1, <3>2
      <4> QED
        BY <1>1, <1>2, <3>2, <4>1, GotoSteps DEF PCs, Awake, Locked
    <3>3. CASE ~resumed.yes
      <4>1. Goto(t, "yield")
        BY <3>1, <3>3
      <4> QED
        BY <1>1, <1>2, <4>1, GotoSteps DEF PCs, Awake, Locked
    <3> QED
      BY <3>2, <3>3
  <2>2. CASE thread[t].then = "retry"
    <3>1. Goto(t, "start")
      BY <2>2 DEF ResumeScheduler
    <3> QED
      BY <1>1, <1>2, <1>3, <2>2, <3>1, GotoSteps DEF PCs, Awake, Locked
  <2>3. CASE thread[t].then = "expired"
    <3>1. Fail(t) \/ Goto(t, "expired")
      BY <2>3 DEF ResumeScheduler
    <3>2. CASE Fail(t)
      BY <1>1, <1>2, <1>3, <2>3, <3>2, FailStarts, StartSteps
    <3>3. CASE Goto(t, "expired")
      BY <1>1, <1>2, <1>3, <2>3, <3>3, GotoSteps DEF PCs, Awake, Locked
    <3> QED
      BY <3>1, <3>2, <3>3
  <2> QED
    BY <1>2, <2>1, <2>2, <2>3 DEF ThreadState
<1>5. PICK th : /\ Steps(t, th) /\ th.pc \notin Locked
                /\ th.pc = "yield" \/ IsReady(k, t) \/ resumed.yes
  BY <1>4
<1>6. thread[t].pc \in Locked /\ (th.pc = "yield" => Leaving(app.calls, t, th))
  BY <1>2 DEF Locked, Leaving
<1> QED
  BY <1>1, <1>5, <1>6, ResumeAllKeeps DEF resumed

\* A yield, after which the task's call goes on or has ended.
LEMMA YieldKeeps ==
  ASSUME KernelInv, NEW t \in Task, Yield(t) \/ YieldAndReturn(t)
  PROVE  KernelInv'
<1>1. /\ Running(t, Waits, "yield") \/ Running(t, {"delay", "until", "suspend"}, "yield")
      /\ app' = app /\ queue' = queue /\ k' = vTaskSwitchContext(k)
      /\ Goto(t, "start") \/ Return(t)
  BY DEF Yield, YieldAndReturn
<1>2. /\ t = k.current /\ k.current \in Task /\ app.calls[t] # <<>> /\ thread[t].pc = "yield"
      /\ CallsTyped /\ k \in Good /\ QueuesTyped(queue)
  BY <1>1, RunningFacts
<1>3. PICK th : Steps(t, th) /\ th.pc \notin Locked
  <2>1. CASE Goto(t, "start")
    BY <1>1, <1>2, <2>1, GotoSteps DEF PCs, Awake, Locked
  <2>2. CASE Return(t)
    BY <1>1, <1>2, <2>2, ReturnStarts, StartSteps
  <2> QED
    BY <1>1, <2>1, <2>2
<1>4. thread[t].pc \notin Locked /\ k.schedSusp = 0
  BY <1>2 DEF KernelInv, SuspendedByRunning, Locked
<1>5. Moves(k, k') /\ Settled(k')
  BY <1>1, <1>2, <1>4, SwitchGood
<1> QED
  BY <1>1, <1>2, <1>3, <1>4, <1>5, MovingStepKeeps

\* The time is over: the queue is looked at once more.
LEMMA ExpiredKeeps ==
  ASSUME KernelInv, NEW t \in Task, Expired(t)
  PROVE  KernelInv'
<1>1. /\ Running(t, Looks, "expired") /\ app' = app /\ k' = k /\ queue' = queue
      /\ Goto(t, "disinherit") \/ Goto(t, "start") \/ Fail(t)
  BY DEF Expired
<1>2. /\ t = k.current /\ app.calls[t] # <<>> /\ thread[t].pc = "expired" /\ CallsTyped
      /\ IsReady(k, t) /\ QueuesTyped(queue) /\ Call(t).op \in Waits
  BY <1>1, RunningFacts DEF Awake, Waits
<1>3. PICK th : Steps(t, th) /\ th.pc \notin Locked
  <2>1. CASE Goto(t, "disinherit")
    BY <1>1, <1>2, <2>1, GotoSteps DEF PCs, Awake, Locked
  <2>2. CASE Goto(t, "start")
    BY <1>1, <1>2, <2>2, GotoSteps DEF PCs, Awake, Locked
  <2>3. CASE Fail(t)
    BY <1>1, <1>2, <2>3, FailStarts, StartSteps
  <2> QED
    BY <1>1, <2>1, <2>2, <2>3
<1>4. thread[t].pc \notin Locked
  BY <1>2 DEF Locked
<1> QED
  BY <1>1, <1>2, <1>3, <1>4, QuietStepKeeps

\* vTaskPriorityDisinheritAfterTimeout
LEMMA DisinheritKeeps ==
  ASSUME KernelInv, NEW t \in Task, Disinherit(t)
  PROVE  KernelInv'
<1>1. /\ Running(t, Takes, "disinherit") /\ app' = app /\ queue' = queue /\ Fail(t)
      /\ k' = vTaskPriorityDisinheritAfterTimeout(
                k, Q(t).holder, HighestWaiting(k, Call(t).queue))
  BY DEF Disinherit
<1>2. /\ t = k.current /\ app.calls[t] # <<>> /\ thread[t].pc = "disinherit" /\ CallsTyped
      /\ IsReady(k, t) /\ QueuesTyped(queue) /\ k \in Good /\ Call(t).op \in Waits
      /\ IsCall(Call(t), Len(app.calls[t]))
  BY <1>1, RunningFacts DEF Awake, Waits, Looks
<1>3. Call(t).queue \in Queue /\ Q(t).holder \in Task \cup {NoTask}
  BY <1>2 DEF IsCall, QueuesTyped, Q, AnyQueue
<1>4. Moves(k, k')
  BY <1>1, <1>2, <1>3, HighestWaitingTyped, DisinheritAfterTimeoutGood
<1>5. PICK th : Steps(t, th) /\ th.pc \notin Locked
  BY <1>1, <1>2, FailStarts, StartSteps
<1>6. thread[t].pc \notin Locked
  BY <1>2 DEF Locked
<1> QED
  BY <1>1, <1>2, <1>4, <1>5, <1>6, MovingStepKeeps

\* A mutex that its taker holds already.
LEMMA TakeAgainKeeps ==
  ASSUME KernelInv, NEW t \in Task, TakeAgain(t)
  PROVE  KernelInv'
<1> DEFINE ops == {"take recursive"}
<1>0. Running(t, ops, "start")
  BY DEF TakeAgain
<1> HIDE DEF ops
<1>2. /\ t = k.current /\ app.calls[t] # <<>> /\ thread[t].pc = "start" /\ CallsTyped
      /\ IsReady(k, t) /\ QueuesTyped(queue) /\ k \in Good /\ Call(t).op \in ops
      /\ IsCall(Call(t), Len(app.calls[t]))
  BY <1>0, RunningFacts DEF Awake
<1> DEFINE more == [Q(t) EXCEPT !.recursion = @ + 1]
           r == [k |-> k, q |-> more]
<1>1. app' = app /\ Return(t) /\ Commit(t, r)
  BY DEF TakeAgain
<1>3. Call(t).queue \in Queue /\ Q(t) \in AnyQueue
  BY <1>2 DEF IsCall, QueuesTyped, Q, Waits, Looks, Takes, ops
<1>4. more \in AnyQueue /\ more.kind = Q(t).kind
  BY <1>3, RecursionTyped
<1> HIDE DEF more
<1>5. QueueMoves(k, Q(t), r)
  BY <1>2, <1>4 DEF QueueMoves, Moves
<1>6. Moves(k, k') /\ QueuesTyped(queue')
  BY <1>1, <1>2, <1>3, <1>5, CommitMoves
<1>7. PICK th : Steps(t, th) /\ th.pc \notin Locked
  BY <1>1, <1>2, ReturnStarts, StartSteps
<1>8. thread[t].pc \notin Locked
  BY <1>2 DEF Locked
<1> QED
  BY <1>2, <1>6, <1>7, <1>8, MovingStepKeeps

\* xQueueGiveMutexRecursive, whose last give puts the mutex back.
LEMMA GiveRecursiveKeeps ==
  ASSUME KernelInv, GivenByHolder, NEW t \in Task, GiveRecursive(t)
  PROVE  KernelInv'
<1> DEFINE ops == {"give recursive"}
<1>1. Running(t, ops, "start") /\ app' = app
  BY DEF GiveRecursive
<1> HIDE DEF ops
<1>2. /\ t = k.current /\ app.calls[t] # <<>> /\ thread[t].pc = "start" /\ CallsTyped
      /\ IsReady(k, t) /\ QueuesTyped(queue) /\ k \in Good /\ Call(t).op \in ops
      /\ IsCall(Call(t), Len(app.calls[t]))
  BY <1>1, RunningFacts DEF Awake
<1> DEFINE q == Q(t)
           less == [q EXCEPT !.recursion = @ - 1]
           quiet == [k |-> k, q |-> less]
           given == SendWithRoom(k, less, Call(t).queue, Call(t).item, "back")
<1>3. Call(t).queue \in Queue /\ Call(t).item \in Item /\ q \in AnyQueue
  BY <1>2 DEF IsCall, QueuesTyped, Q, ops
<1>4. less \in AnyQueue /\ less.kind = q.kind /\ less.holder = q.holder
      /\ (less.recursion = 0 => q.recursion = 1)
  BY <1>3, RecursionTyped
<1>5. Moves(k, k') /\ QueuesTyped(queue') /\ (Return(t) \/ Fail(t))
  <2>1. CASE q.holder # t
    <3>1. k' = k /\ queue' = queue /\ Fail(t)
      BY <2>1 DEF GiveRecursive
    <3> QED
      BY <1>2, <3>1 DEF Moves
  <2>2. CASE q.holder = t /\ less.recursion # 0
    <3>1. Commit(t, quiet) /\ Return(t)
      BY <2>2 DEF GiveRecursive
    <3> HIDE DEF less, q
    <3>2. QueueMoves(k, Q(t), quiet)
      BY <1>2, <1>4 DEF QueueMoves, Moves, q
    <3> HIDE DEF quiet
    <3> QED
      BY <1>2, <1>3, <3>1, <3>2, CommitMoves
  <2>3. CASE q.holder = t /\ less.recursion = 0
    <3>1. Commit(t, given) /\ Return(t)
      BY <2>3 DEF GiveRecursive
    <3>2. q.kind = "mutex" => k.held[t] > 0
      BY <1>1, <1>4, <2>3, TaskAssumption DEF GivenByHolder, GivesMutex, ops
    <3> HIDE DEF less
    <3>3. HeldBy(k, less, t) /\ "back" \in Position
      BY <1>4, <2>3, <3>2 DEF HeldBy, Position
    <3>4. QueueMoves(k, less, given)
      BY <1>2, <1>3, <1>4, <3>3, SendWithRoomGood
    <3> HIDE DEF given, q
    <3>5. QueueMoves(k, Q(t), given)
      BY <1>4, <3>4 DEF QueueMoves, q
    <3> QED
      BY <1>2, <1>3, <3>1, <3>5, CommitMoves
  <2> QED
    BY <2>1, <2>2, <2>3
<1>6. PICK th : Steps(t, th) /\ th.pc \notin Locked
  BY <1>1, <1>2, <1>5, ReturnStarts, FailStarts, StartSteps DEF ops
<1>7. thread[t].pc \notin Locked
  BY <1>2 DEF Locked
<1> QED
  BY <1>2, <1>5, <1>6, <1>7, MovingStepKeeps

\* xQueueGenericReset
LEMMA ResetKeeps ==
  ASSUME KernelInv, NEW t \in Task, Reset(t)
  PROVE  KernelInv'
<1> DEFINE r == xQueueGenericReset(k, Q(t), Call(t).queue)
<1>1. Running(t, {"reset"}, "start") /\ app' = app /\ Return(t) /\ Commit(t, r)
  BY DEF Reset
<1>2. /\ t = k.current /\ app.calls[t] # <<>> /\ thread[t].pc = "start" /\ CallsTyped
      /\ IsReady(k, t) /\ QueuesTyped(queue) /\ k \in Good /\ Call(t).op = "reset"
      /\ IsCall(Call(t), Len(app.calls[t]))
  BY <1>1, RunningFacts DEF Awake
<1>3. Call(t).queue \in Queue /\ Q(t) \in AnyQueue
  BY <1>2 DEF IsCall, QueuesTyped, Q
<1>4. QueueMoves(k, Q(t), r)
  BY <1>2, <1>3, QueueResetGood
<1> HIDE DEF r
<1>5. Moves(k, k') /\ QueuesTyped(queue')
  BY <1>1, <1>2, <1>3, <1>4, CommitMoves
<1>6. PICK th : Steps(t, th) /\ th.pc \notin Locked
  BY <1>1, <1>2, ReturnStarts, StartSteps
<1>7. thread[t].pc \notin Locked
  BY <1>2 DEF Locked
<1> QED
  BY <1>2, <1>5, <1>6, <1>7, MovingStepKeeps

\* Every step of a call of a queue keeps the invariant,
LEMMA QueueStepKeeps ==
  ASSUME KernelInv, GivenByHolder, NEW t \in Task, QueueStep(t)
  PROVE  KernelInv'
BY TransferKeeps, TransferFailsKeeps, StartWaitKeeps, SuspendSchedulerKeeps, LockQueueKeeps,
   CheckTimeOutKeeps, TestQueueKeeps, InheritKeeps, BlockKeeps, UnlockKeeps,
   ResumeSchedulerKeeps, YieldKeeps, ExpiredKeeps, DisinheritKeeps, TakeAgainKeeps,
   GiveRecursiveKeeps, ResetKeeps DEF QueueStep

-----------------------------------------------------------------------------
(***************************************************************************)
(* The steps of the calls of tasks.c.                                      *)
(***************************************************************************)
LEMMA BeginSuspendedKeeps ==
  ASSUME KernelInv, NEW t \in Task, BeginSuspended(t)
  PROVE  KernelInv'
<1>1. Running(t, {"delay", "until", "abort"}, "start") /\ app' = app /\ queue' = queue
  BY DEF BeginSuspended
<1>2. /\ t = k.current /\ k.current \in Task /\ app.calls[t] # <<>> /\ thread[t].pc = "start"
      /\ CallsTyped /\ IsReady(k, t) /\ k \in Good /\ QueuesTyped(queue)
  BY <1>1, RunningFacts DEF Awake
<1>3. thread[t].pc \notin Locked
  BY <1>2 DEF Locked
<1>4. CASE k' = vTaskSwitchContext(k) /\ Return(t)
  <2>1. Moves(k, k')
    BY <1>2, <1>4, SwitchGood
  <2>2. PICK th : Steps(t, th) /\ th.pc \notin Locked
    BY <1>1, <1>2, <1>4, ReturnStarts, StartSteps
  <2> QED
    BY <1>1, <1>2, <1>3, <2>1, <2>2, MovingStepKeeps
<1>5. CASE k' = vTaskSuspendAll(k) /\ Goto(t, "suspended")
  <2>1. PICK th : Steps(t, th) /\ th.pc \in Locked
    BY <1>1, <1>2, <1>5, GotoSteps DEF PCs, Awake, Locked
  <2> QED
    BY <1>1, <1>2, <1>3, <1>5, <2>1, SuspendAllKeeps
<1> QED
  BY <1>4, <1>5 DEF BeginSuspended

\* vTaskDelay
LEMMA DelayKeeps ==
  ASSUME KernelInv, NEW t \in Task, Delay(t)
  PROVE  KernelInv'
<1>1. /\ Running(t, {"delay"}, "suspended") /\ app' = app /\ queue' = queue
      /\ k' = prvAddCurrentTaskToDelayedList(k, Call(t).ticks, FALSE) /\ Goto(t, "resume")
  BY DEF Delay
<1>2. /\ t = k.current /\ k.current \in Task /\ app.calls[t] # <<>> /\ thread[t].pc = "suspended"
      /\ CallsTyped /\ k \in Good /\ Call(t).op = "delay" /\ IsCall(Call(t), Len(app.calls[t]))
  BY <1>1, RunningFacts
<1>3. Call(t).ticks \in Ticks
  BY <1>2 DEF IsCall
<1>4. SleepsIn(k, k', t)
  BY <1>1, <1>2, <1>3, AddToDelayedGood
<1>5. PICK th : Steps(t, th) /\ th.pc = "resume" /\ th.at = thread[t].at
  BY <1>1, <1>2, GotoSteps DEF PCs, Awake
<1>6. Leaving(app.calls, t, th) /\ th.pc \in Locked /\ thread[t].pc \in Locked
  BY <1>2, <1>5 DEF Leaving, Call, Locked
<1> QED
  BY <1>1, <1>4, <1>5, <1>6, SleepingStepKeeps

\* xTaskDelayUntil
LEMMA DelayUntilKeeps ==
  ASSUME KernelInv, NEW t \in Task, DelayUntil(t)
  PROVE  KernelInv'
<1> DEFINE wake == TimeToWake(k.tick, thread[t].previous, Call(t).ticks)
           wait == (wake - k.tick) % TickMod
           rounds == thread[t].rounds + 1
           th == [thread[t] EXCEPT !.pc = "resume", !.previous = wake, !.rounds = rounds]
<1>1. /\ Running(t, {"until"}, "suspended") /\ app' = app /\ queue' = queue
      /\ k' = prvAddCurrentTaskToDelayedList(k, wait, FALSE) \/ k' = k
      /\ thread' = [thread EXCEPT ![t].pc = "resume", ![t].previous = wake, ![t].rounds = @ + 1]
  BY DEF DelayUntil
<1>2. /\ t = k.current /\ k.current \in Task /\ app.calls[t] # <<>> /\ thread[t].pc = "suspended"
      /\ CallsTyped /\ k \in Good /\ Call(t).op = "until" /\ IsCall(Call(t), Len(app.calls[t]))
      /\ QueuesTyped(queue) /\ IsReady(k, t)
      /\ thread[t] \in ThreadState /\ thread[t].at \in DOMAIN app.calls[t]
  BY <1>1, RunningFacts DEF Awake
<1>3. wake \in Ticks
  <2>1. thread[t].previous \in Int /\ Call(t).ticks \in Int
    BY <1>2 DEF IsCall, ThreadState, Ticks
  <2> QED
    BY <2>1, TicksWrap DEF TimeToWake
<1>4. rounds \in Nat
  BY <1>2 DEF ThreadState
<1>5. thread' = [thread EXCEPT ![t] = th]
  BY <1>1, <1>2 DEF CallsTyped
<1> HIDE DEF wake, rounds
<1>6. wait \in Ticks
  <2>1. wake - k.tick \in Int
    BY <1>2, <1>3 DEF Good, KernelState, Ticks
  <2> QED
    BY <2>1, TicksWrap
<1> HIDE DEF wait
<1>7. th \in ThreadState /\ th.pc = "resume" /\ th.at = thread[t].at
  BY <1>2, <1>3, <1>4 DEF ThreadState
<1> HIDE DEF th
<1>8. Steps(t, th)
  BY <1>1, <1>2, <1>5, <1>7 DEF Steps
<1>9. Leaving(app.calls, t, th) /\ th.pc \in Locked /\ thread[t].pc \in Locked
  BY <1>2, <1>7 DEF Leaving, Call, Locked
<1>10. CASE k' = prvAddCurrentTaskToDelayedList(k, wait, FALSE)
  <2>1. SleepsIn(k, k', t)
    BY <1>2, <1>6, <1>10, AddToDelayedGood
  <2> QED
    BY <1>1, <1>8, <1>9, <2>1, SleepingStepKeeps
<1>11. CASE k' = k
  BY <1>1, <1>2, <1>8, <1>9, <1>11, QuietStepKeeps
<1> QED
  BY <1>1, <1>10, <1>11

\* xTaskAbortDelay
LEMMA AbortKeeps ==
  ASSUME KernelInv, NEW t \in Task, Abort(t)
  PROVE  KernelInv'
<1>1. /\ Running(t, {"abort"}, "suspended") /\ app' = app /\ queue' = queue
      /\ k' = xTaskAbortDelay(k, Call(t).task) /\ Goto(t, "resume")
  BY DEF Abort
<1>2. /\ t = k.current /\ app.calls[t] # <<>> /\ thread[t].pc = "suspended" /\ CallsTyped
      /\ k \in Good /\ QueuesTyped(queue) /\ IsReady(k, t)
      /\ Call(t).op = "abort" /\ IsCall(Call(t), Len(app.calls[t]))
  BY <1>1, RunningFacts DEF Awake
<1>3. Call(t).task \in Task
  BY <1>2 DEF IsCall
<1>4. Moves(k, k')
  BY <1>1, <1>2, <1>3, AbortDelayGood
<1>5. PICK th : Steps(t, th) /\ th.pc = "resume"
  BY <1>1, <1>2, GotoSteps DEF PCs, Awake
<1>6. th.pc \in Locked /\ thread[t].pc \in Locked
  BY <1>2, <1>5 DEF Locked
<1> QED
  BY <1>1, <1>2, <1>4, <1>5, <1>6, MovingStepKeeps

\* The end of the three calls that suspend the scheduler.
LEMMA EndSuspendedKeeps ==
  ASSUME KernelInv, NEW t \in Task, EndSuspended(t)
  PROVE  KernelInv'
<1> DEFINE resumed == xTaskResumeAll(k)
<1>1. /\ Running(t, {"delay", "until", "abort"}, "resume") /\ app' = app /\ queue' = queue
      /\ k' = resumed.k
      /\ IF resumed.yes \/ Call(t).op = "abort" THEN Return(t) ELSE Goto(t, "yield")
  BY DEF EndSuspended
<1>2. /\ t = k.current /\ k.current \in Task /\ app.calls[t] # <<>> /\ thread[t].pc = "resume"
      /\ CallsTyped /\ Call(t).op \in {"delay", "until", "abort"}
  BY <1>1, RunningFacts
<1>3. Call(t).op = "abort" => IsReady(k, t)
  BY <1>2 DEF KernelInv, RunningIsReady, Leaving, Call, Waits, Sends, Looks, Takes
<1> HIDE DEF resumed
<1>4. PICK th : /\ Steps(t, th) /\ th.pc \notin Locked
                /\ th.pc = "yield" \/ IsReady(k, t) \/ resumed.yes
  <2>1. CASE resumed.yes \/ Call(t).op = "abort"
    BY <1>1, <1>2, <1>3, <2>1, ReturnStarts, StartSteps
  <2>2. CASE ~(resumed.yes \/ Call(t).op = "abort")
    BY <1>1, <1>2, <2>2, GotoSteps DEF PCs, Awake, Locked
  <2> QED
    BY <2>1, <2>2
<1>5. thread[t].pc \in Locked /\ (th.pc = "yield" => Leaving(app.calls, t, th))
  BY <1>2 DEF Locked, Leaving
<1> QED
  BY <1>1, <1>4, <1>5, ResumeAllKeeps DEF resumed

\* vTaskSuspend, of another task or of the running one,
LEMMA SuspendKeeps ==
  ASSUME KernelInv, NEW t \in Task, Suspend(t)
  PROVE  KernelInv'
<1>1. /\ Running(t, {"suspend"}, "start") /\ app' = app /\ queue' = queue
      /\ k' = vTaskSuspend(k, Call(t).task) /\ Goto(t, "reset")
  BY DEF Suspend
<1>2. /\ t = k.current /\ app.calls[t] # <<>> /\ thread[t].pc = "start" /\ CallsTyped
      /\ k \in Good /\ IsReady(k, t)
      /\ Call(t).op = "suspend" /\ IsCall(Call(t), Len(app.calls[t]))
  BY <1>1, RunningFacts DEF Awake
<1> DEFINE u == Call(t).task
<1>3. u \in Task
  BY <1>2 DEF IsCall
<1>4. SleepsIn(k, k', u)
  BY <1>1, <1>2, <1>3, SuspendGood
<1>5. PICK th : Steps(t, th) /\ th.pc = "reset" /\ th.at = thread[t].at
  BY <1>1, <1>2, GotoSteps DEF PCs, Awake
<1>6. u = t => Leaving(app.calls, t, th)
  BY <1>5 DEF Leaving, Call
<1> HIDE DEF u
<1>7. th.pc \notin Locked /\ thread[t].pc \notin Locked
  BY <1>2, <1>5 DEF Locked
<1> QED
  BY <1>1, <1>2, <1>3, <1>4, <1>5, <1>6, <1>7, SleepingStepKeeps

\* which yields then.
LEMMA EndSuspendKeeps ==
  ASSUME KernelInv, NEW t \in Task, EndSuspend(t)
  PROVE  KernelInv'
<1>1. /\ Running(t, {"suspend"}, "reset") /\ app' = app /\ queue' = queue
      /\ k' = prvResetNextTaskUnblockTime(k)
      /\ IF Call(t).task = t THEN Goto(t, "yield") ELSE Return(t)
  BY DEF EndSuspend
<1>2. /\ t = k.current /\ k.current \in Task /\ app.calls[t] # <<>> /\ thread[t].pc = "reset"
      /\ CallsTyped /\ k \in Good /\ QueuesTyped(queue)
  BY <1>1, RunningFacts
<1>3. Call(t).task # t => IsReady(k, t)
  BY <1>2 DEF KernelInv, RunningIsReady, Leaving, Call
<1>4. Moves(k, k')
  BY <1>1, <1>2, ResetUnblockGood
<1>5. PICK th : Steps(t, th) /\ th.pc \notin Locked /\ (th.pc = "yield" \/ IsReady(k, t))
  <2>1. CASE Call(t).task = t
    BY <1>1, <1>2, <2>1, GotoSteps DEF PCs, Awake, Locked
  <2>2. CASE Call(t).task # t
    BY <1>1, <1>2, <1>3, <2>2, ReturnStarts, StartSteps
  <2> QED
    BY <2>1, <2>2
<1>6. thread[t].pc \notin Locked /\ (th.pc = "yield" => Leaving(app.calls, t, th))
  BY <1>2 DEF Locked, Leaving
<1> QED
  BY <1>1, <1>2, <1>4, <1>5, <1>6, MovingStepKeeps

\* vTaskResume and vTaskPrioritySet.
LEMMA ResumeKeeps ==
  ASSUME KernelInv, NEW t \in Task, Resume(t) \/ PrioritySet(t)
  PROVE  KernelInv'
<1>1. /\ Running(t, {"resume", "priority"}, "start") /\ app' = app /\ queue' = queue /\ Return(t)
      /\ \/ Call(t).op = "resume" /\ k' = vTaskResume(k, Call(t).task)
         \/ Call(t).op = "priority" /\ k' = vTaskPrioritySet(k, Call(t).task, Call(t).prio)
  BY DEF Resume, PrioritySet, Running
<1>2. /\ t = k.current /\ app.calls[t] # <<>> /\ thread[t].pc = "start" /\ CallsTyped
      /\ k \in Good /\ IsReady(k, t) /\ QueuesTyped(queue)
      /\ IsCall(Call(t), Len(app.calls[t]))
  BY <1>1, RunningFacts DEF Awake
<1>3. Moves(k, k')
  BY <1>1, <1>2, ResumeGood, PrioritySetGood DEF IsCall
<1>4. PICK th : Steps(t, th) /\ th.pc \notin Locked
  BY <1>1, <1>2, ReturnStarts, StartSteps
<1>5. thread[t].pc \notin Locked
  BY <1>2 DEF Locked
<1> QED
  BY <1>1, <1>2, <1>3, <1>4, <1>5, MovingStepKeeps

\* and every step of a call of a task.
LEMMA TaskStepKeeps ==
  ASSUME KernelInv, NEW t \in Task, TaskStep(t)
  PROVE  KernelInv'
BY BeginSuspendedKeeps, DelayKeeps, DelayUntilKeeps, AbortKeeps, EndSuspendedKeeps,
   SuspendKeeps, EndSuspendKeeps, YieldKeeps, ResumeKeeps DEF TaskStep

-----------------------------------------------------------------------------
(***************************************************************************)
(* Interrupts.                                                             *)
(***************************************************************************)
LEMMA TickKeeps ==
  ASSUME KernelInv, Tick
  PROVE  KernelInv'
<1> DEFINE ticked == xTaskIncrementTick(k)
<1>1. k \in Good /\ QueuesTyped(queue)
  BY DEF KernelInv
<1>2. k' = YieldIf(ticked.k, ticked.yes) /\ app' = app /\ thread' = thread /\ queue' = queue
  BY DEF Tick
<1>3. Moves(k, ticked.k) /\ ticked.k \in Good
  BY <1>1, IncrementTickGood DEF Moves
<1> HIDE DEF ticked
<1>4. Moves(ticked.k, k') /\ k' \in Good
  BY <1>2, <1>3, YieldIfGood DEF Moves
<1>5. Moves(k, k')
  BY <1>1, <1>3, <1>4, MovesTransitive
<1> QED
  BY <1>1, <1>2, <1>5, InterruptKeeps

\* The calls an interrupt handler makes.
LEMMA IrqKeeps ==
  ASSUME KernelInv, Irq
  PROVE  KernelInv'
<1>1. k \in Good /\ QueuesTyped(queue) /\ IsApp(app)
  BY AppsAssumption DEF KernelInv, CallsTyped
<1>2. app' = app /\ thread' = thread
  BY DEF Irq
<1>3. PICK h \in app.handlers : QueueIrq(h) \/ ResumeIrq(h)
  BY DEF Irq
<1>4. IsHandler(h, app.queues)
  BY <1>1 DEF IsApp
<1>5. CASE QueueIrq(h)
  <2> DEFINE id == h.queue
             q == queue[id]
             sent == xQueueGenericSendFromISR(k, q, id, h.item, h.position)
             given == xQueueGiveFromISR(k, q, id, h.item)
             received == xQueueReceiveFromISR(k, q, id)
             Is(r) == k' = r.k /\ queue' = [queue EXCEPT ![id] = r.q]
  <2>1. \/ h.op = "send" /\ Is(sent)
        \/ h.op = "give" /\ Is(given)
        \/ h.op = "receive" /\ Is(received)
    <3> DEFINE r == CASE h.op = "send" -> sent
                      [] h.op = "give" -> given
                      [] h.op = "receive" -> received
    <3>0. Is(r)
      BY <1>5 DEF QueueIrq
    <3> HIDE DEF sent, given, received, Is, id, q
    <3>a. h.op = "send" => r = sent
      OBVIOUS
    <3>b. h.op = "give" => r = given
      OBVIOUS
    <3>c. h.op = "receive" => r = received
      OBVIOUS
    <3> HIDE DEF r
    <3>1. CASE h.op = "send"
      BY <3>0, <3>1, <3>a
    <3>2. CASE h.op = "give"
      BY <3>0, <3>2, <3>b
    <3>3. CASE h.op = "receive"
      BY <3>0, <3>3, <3>c
    <3>4. h.op \in {"send", "give", "receive"}
      BY <1>5 DEF QueueIrq
    <3> QED
      BY <3>1, <3>2, <3>3, <3>4
  <2>2. id \in Queue /\ q \in AnyQueue /\ q.kind = app.queues[id].kind
    BY <1>1, <1>4, <2>1 DEF IsHandler, QueuesTyped
  <2>3. \E r : Is(r) /\ QueueMoves(k, q, r)
    <3>1. CASE h.op = "send" /\ Is(sent)
      <4>1. q.kind # "mutex" /\ h.item \in Item /\ h.position \in Position
        BY <1>4, <2>2, <3>1 DEF IsHandler
      <4>2. QueueMoves(k, q, sent)
        BY <1>1, <2>2, <4>1, SendFromISRGood
      <4> QED
        BY <3>1, <4>2
    <3>2. CASE h.op = "give" /\ Is(given)
      <4>1. QueueMoves(k, q, given)
        BY <1>1, <1>4, <2>2, <3>2, GiveFromISRGood DEF IsHandler
      <4> QED
        BY <3>2, <4>1
    <3>3. CASE h.op = "receive" /\ Is(received)
      <4>1. QueueMoves(k, q, received)
        BY <1>1, <2>2, ReceiveFromISRGood
      <4> QED
        BY <3>3, <4>1
    <3> QED
      BY <2>1, <3>1, <3>2, <3>3
  <2>4. PICK r : Is(r) /\ QueueMoves(k, q, r)
    BY <2>3
  <2> HIDE DEF id
  <2>5. Moves(k, k') /\ QueuesTyped(queue')
    BY <1>1, <2>2, <2>4 DEF QueueMoves, QueuesTyped
  <2> QED
    BY <1>2, <2>5, InterruptKeeps
<1>6. CASE ResumeIrq(h)
  <2>1. h.task \in Task /\ k' = xTaskResumeFromISR(k, h.task) /\ queue' = queue
    BY <1>4, <1>6 DEF ResumeIrq, IsHandler
  <2>2. Moves(k, k')
    BY <1>1, <2>1, ResumeFromISRGood
  <2> QED
    BY <1>1, <1>2, <2>1, <2>2, InterruptKeeps
<1> QED
  BY <1>3, <1>5, <1>6

-----------------------------------------------------------------------------
(***************************************************************************)
(* The start.                                                              *)
(***************************************************************************)
LEMMA EmptyListsGood ==
  ASSUME NEW a, IsApp(a)
  PROVE  LET s == prvInitialiseTaskLists(a)
         IN /\ s \in Good /\ s.current = NoTask /\ s.schedSusp = 0
            /\ \A t \in Task : Away(s, t) /\ Free(s, t)
<1> DEFINE s == prvInitialiseTaskLists(a)
           ready == [p \in Priority |-> vListInitialise]
           none == [e \in EventList |-> <<>>]
           values == [t \in Task |-> EventValue(a.prio[t])]
           bits == [t \in Task |-> FreeBits]
           notes == [t \in Task |-> [state |-> "none", value |-> 0]]
           zeros == [t \in Task |-> 0]
           falses == [t \in Task |-> FALSE]
           empty == <<>>
           last == portMAX_DELAY
           made == [current |-> NoTask, ready |-> ready, top |-> {},
                    delayed |-> empty, overflow |-> empty, pending |-> empty, suspended |-> {},
                    events |-> none, unblock |-> last, tick |-> a.firstTick,
                    overflows |-> 0, pended |-> 0, schedSusp |-> 0, yieldPending |-> FALSE,
                    prio |-> a.prio, base |-> a.prio, held |-> zeros, aborted |-> falses,
                    wake |-> zeros, eventValue |-> values, eventBits |-> bits, note |-> notes,
                    terminating |-> empty, toClean |-> 0, tasks |-> 0, alloc |-> {},
                    heap |-> a.memory]
<1>1. s = made
  BY DEF prvInitialiseTaskLists
<1>2. /\ empty \in Seq(Task) /\ ToSet(empty) = {} /\ IsInjective(empty)
      /\ \A e \in EventList : none[e] = empty
      /\ \A p \in Priority : ready[p] = [items |-> empty, index |-> 0]
  BY DEF ToSet, IsInjective, vListInitialise
<1>3. a.prio \in [Task -> Priority] /\ a.firstTick \in Ticks /\ a.memory \in Nat
  BY DEF IsApp
<1>4. last \in Ticks /\ 0 \in Ticks
  BY TaskAssumption DEF portMAX_DELAY, Ticks
<1>5. values \in [Task -> 1..MaxPriorities]
  <2>1. \A p \in Priority : EventValue(p) \in 1..MaxPriorities
    BY TaskAssumption DEF EventValue, Priority
  <2> QED
    BY <1>3, <2>1
<1>6. bits \in [Task -> [bits : SUBSET EventBit, flags : SUBSET EventFlag]]
  BY DEF FreeBits
<1>7. notes \in [Task -> [state : {"none", "waiting", "received"}, value : 0..(ValueMod - 1)]]
  <2>1. 0 \in 0..(ValueMod - 1)
    BY TaskAssumption
  <2> QED
    BY <2>1
<1>8. /\ ready \in [Priority -> [items : Seq(Task), index : Nat]] /\ none \in [EventList -> Seq(Task)]
      /\ zeros \in [Task -> Nat] /\ falses \in [Task -> BOOLEAN]
  BY <1>2 DEF vListInitialise
<1>9. zeros \in [Task -> Ticks]
  BY <1>4
<1> HIDE DEF empty, ready, none, values, bits, notes, zeros, falses, last
<1>10. made \in KernelState
  BY <1>2, <1>3, <1>4, <1>5, <1>6, <1>7, <1>8, <1>9 DEF KernelState
<1>11. /\ \A p \in Priority : SoundList(made.ready[p]) /\ ToSet(made.ready[p].items) = {}
       /\ \A e \in EventList : made.events[e] = empty
  <2>1. Len(empty) = 0
    BY DEF empty
  <2> DEFINE list == [items |-> empty, index |-> 0]
  <2>2. SoundList(list) /\ list.items = empty
    BY <1>2, <2>1 DEF SoundList
  <2> HIDE DEF list
  <2>3. made.ready = ready /\ made.events = none
    OBVIOUS
  <2>4. \A p \in Priority : ready[p] = list
    BY <1>2 DEF list
  <2> HIDE DEF made
  <2> QED
    BY <1>2, <2>2, <2>3, <2>4
<1>12. \A t \in Task : Away(made, t) /\ Free(made, t) /\ ~IsReady(made, t)
  BY <1>2, <1>3, <1>11 DEF Away, Free, IsReady
<1>13. made \in Good
  BY <1>2, <1>10, <1>11, <1>12 DEF Good, Shape, Placed, Away, Free
<1>14. made.current = NoTask /\ made.schedSusp = 0
  OBVIOUS
<1> HIDE DEF made
<1> QED
  BY <1>1, <1>12, <1>13, <1>14

\* prvAddNewTaskToReadyList, of a task that is new.
LEMMA AddNewTaskGood ==
  ASSUME NEW s \in Good, NEW t \in Task, Away(s, t), Free(s, t)
  PROVE  LET r == prvAddNewTaskToReadyList(s, t)
         IN /\ r \in Good /\ Others(s, r, t) /\ IsReady(r, t)
            /\ r.delayed = s.delayed /\ r.overflow = s.overflow /\ r.held = s.held
<1> DEFINE more == s.tasks + 1
           given == s.alloc \cup {t}
           b == [s EXCEPT !.tasks = more, !.alloc = given]
           r == prvAddTaskToReadyList(b, t)
<1>1. prvAddNewTaskToReadyList(s, t) = r
  BY DEF prvAddNewTaskToReadyList
<1>2. s \in KernelState
  BY DEF Good
<1>3. more \in Nat
  <2>1. s.tasks \in Nat
    <3> HIDE DEF more, given, b, r
    <3> QED
      BY <1>2 DEF KernelState
  <2> QED
    BY <2>1
<1>4. given \in SUBSET Task
  BY <1>2 DEF KernelState
<1> HIDE DEF more, given, r
<1>5. b \in KernelState
  BY <1>2, <1>3, <1>4 DEF KernelState
<1>6. SameLists(s, b) /\ b.current = s.current /\ b.schedSusp = s.schedSusp /\ b.held = s.held
  BY <1>2, <1>5 DEF KernelState, SameLists
<1> HIDE DEF b
<1>7. /\ b \in Good
      /\ \A u \in Task : /\ Away(b, u) <=> Away(s, u)
                         /\ Free(b, u) <=> Free(s, u)
                         /\ IsReady(b, u) <=> IsReady(s, u)
  BY <1>5, <1>6, SameListsGood
<1>8. r \in Good /\ Others(b, r, t) /\ IsReady(r, t)
  BY <1>7, AddReadyGood DEF r
<1>9. Others(s, r, t)
  BY <1>6, <1>7, <1>8 DEF Others
<1>10. r.delayed = s.delayed /\ r.overflow = s.overflow /\ r.held = s.held
  BY <1>5, <1>6 DEF r, prvAddTaskToReadyList, KernelState, SameLists
<1> QED
  BY <1>1, <1>8, <1>9, <1>10

\* The bit of its ready list is set.
LEMMA AddNewTaskRun ==
  ASSUME NEW s \in Good, Exact(s), NEW t \in Task, Away(s, t)
  PROVE  Exact(prvAddNewTaskToReadyList(s, t))
<1> DEFINE more == s.tasks + 1
           given == s.alloc \cup {t}
           b == [s EXCEPT !.tasks = more, !.alloc = given]
           r == prvAddTaskToReadyList(b, t)
<1>1. prvAddNewTaskToReadyList(s, t) = r
  BY DEF prvAddNewTaskToReadyList
<1>2. s \in KernelState
  BY DEF Good
<1>3. more \in Nat /\ given \in SUBSET Task
  <2>1. s.tasks \in Nat /\ s.alloc \in SUBSET Task
    <3> HIDE DEF more, given, b, r
    <3> QED
      BY <1>2 DEF KernelState
  <2> QED
    BY <2>1
<1> HIDE DEF more, given
<1>4. b \in KernelState /\ SameLists(s, b) /\ SameRun(s, b)
  BY <1>2, <1>3 DEF KernelState, SameLists, SameRun, SameRanks
<1> HIDE DEF b, r
<1>5. b \in Good /\ Away(b, t) /\ Exact(b)
  BY <1>4, SameListsGood, SameRunSched
<1>6. /\ r.top = b.top \cup {b.prio[t]}
      /\ \A p \in Priority :
           ToSet(r.ready[p].items) = IF p = b.prio[t] THEN ToSet(b.ready[p].items) \cup {t}
                                     ELSE ToSet(b.ready[p].items)
  BY <1>5, AddReadyRun DEF r
<1>7. Exact(r)
  BY <1>5, <1>6 DEF Exact
<1> QED
  BY <1>1, <1>7

\* The tasks are created in turn: those before the next one are ready, and the
\* others are in no list yet.
LEMMA AddTasksGood ==
  ASSUME NEW s \in Good, s.current = NoTask, s.schedSusp = 0,
         \A t \in Task : Away(s, t) /\ Free(s, t),
         NEW tasks \in Seq(Task), IsInjective(tasks)
  PROVE  LET r == AddTasks(s, tasks)
         IN /\ r \in Good /\ r.current = NoTask /\ r.schedSusp = 0
            /\ r.delayed = s.delayed /\ r.overflow = s.overflow /\ r.held = s.held
            /\ \A t \in ToSet(tasks) : IsReady(r, t)
            /\ Exact(s) => Exact(r)
<1> DEFINE n == Len(tasks)
           Add(r, i) == prvAddNewTaskToReadyList(r, tasks[i])
           Created(r, i) == /\ r.current = NoTask /\ r.schedSusp = 0 /\ (Exact(s) => Exact(r))
                            /\ r.delayed = s.delayed /\ r.overflow = s.overflow /\ r.held = s.held
                            /\ \A j \in 1..n : IF j <= i THEN IsReady(r, tasks[j])
                                              ELSE Away(r, tasks[j]) /\ Free(r, tasks[j])
           P == [i \in 0..n |-> {r \in Good : Created(r, i)}]
           step == [x \in Good \X (1..n) |-> Add(x[1], x[2])]
           Is(a) == a = [i \in 0..n |-> IF i = 0 THEN s ELSE Add(a[i - 1], i)]
           after == CHOOSE a : Is(a)
<1>1. /\ n \in Nat /\ \A i \in 1..n : tasks[i] \in Task
      /\ \A i, j \in 1..n : tasks[i] = tasks[j] => i = j
      /\ ToSet(tasks) = {tasks[i] : i \in 1..n}
  BY DEF IsInjective, ToSet
<1>2. AddTasks(s, tasks) = after[n]
  BY DEF AddTasks, InTurn
<1> HIDE DEF n, after
<1>3. \A i \in 1..n : /\ i \in 0..n /\ i - 1 \in 0..n
                      /\ \A j \in 1..n : (j <= i /\ j # i) <=> j <= i - 1
  BY <1>1
<1>4. \A i \in 1..n : \A r \in Good : step[<<r, i>>] = Add(r, i)
  OBVIOUS
<1>5. \A i \in 0..n : P[i] = {r \in Good : Created(r, i)}
  OBVIOUS
<1> HIDE DEF step, P, Is
<1>6. ASSUME NEW i \in 1..n, NEW r \in Good, Created(r, i - 1)
      PROVE  Add(r, i) \in Good /\ Created(Add(r, i), i)
  <2> DEFINE t == tasks[i]
             v == Add(r, i)
  <2>1. t \in Task /\ Away(r, t) /\ Free(r, t)
    BY <1>1, <1>3, <1>6
  <2>5. v = prvAddNewTaskToReadyList(r, t)
    OBVIOUS
  <2> HIDE DEF Add, v, Created
  <2>7. /\ v \in Good /\ Others(r, v, t) /\ IsReady(v, t)
        /\ v.delayed = r.delayed /\ v.overflow = r.overflow /\ v.held = r.held
    BY <2>1, <2>5, AddNewTaskGood
  <2> HIDE DEF t
  <2>8. \A j \in 1..n : tasks[j] = t => j = i
    BY <1>1 DEF t
  <2>9. ASSUME NEW j \in 1..n
        PROVE  IF j <= i THEN IsReady(v, tasks[j]) ELSE Away(v, tasks[j]) /\ Free(v, tasks[j])
    <3>1. CASE j = i
      BY <2>7, <3>1 DEF t
    <3>2. CASE j # i
      <4>1. tasks[j] \in Task \ {t}
        BY <1>1, <2>8, <3>2
      <4>2. IF j <= i THEN IsReady(r, tasks[j]) ELSE Away(r, tasks[j]) /\ Free(r, tasks[j])
        BY <1>3, <1>6, <3>2 DEF Created
      <4> QED
        BY <2>7, <4>1, <4>2 DEF Others
    <3> QED
      BY <3>1, <3>2
  <2>10. /\ v.current = NoTask /\ v.schedSusp = 0
         /\ v.delayed = s.delayed /\ v.overflow = s.overflow /\ v.held = s.held
    BY <1>6, <2>7 DEF Others, Created
  <2>11. Exact(s) => Exact(v)
    BY <1>6, <2>1, <2>5, AddNewTaskRun DEF Created
  <2> QED
    BY <2>7, <2>9, <2>10, <2>11 DEF Created, v
<1>7. s \in P[0]
  BY <1>1, <1>5
<1> HIDE DEF Created, Add
<1>8. StepsWithin(step, n, P)
  <2> SUFFICES ASSUME NEW i \in 1..n, NEW r \in P[i - 1] PROVE step[<<r, i>>] \in P[i]
    BY DEF StepsWithin
  <2>1. r \in Good /\ Created(r, i - 1)
    BY <1>3, <1>5
  <2>2. step[<<r, i>>] = Add(r, i)
    BY <1>4, <2>1
  <2> QED
    BY <1>3, <1>5, <1>6, <2>1, <2>2
<1>9. PICK a : IsChain(a, step, s, n) /\ IsWithin(a, n, P)
  BY <1>1, <1>7, <1>8, ChainExists
<1>10. Is(a)
  <2>1. \A i \in 1..n : step[<<a[i - 1], i>>] = Add(a[i - 1], i)
    BY <1>3, <1>4, <1>5, <1>9 DEF IsWithin
  <2>2. \A i \in 0..n : (IF i = 0 THEN s ELSE step[<<a[i - 1], i>>])
                        = IF i = 0 THEN s ELSE Add(a[i - 1], i)
    BY <1>1, <2>1
  <2> QED
    BY <1>9, <2>2 DEF IsChain, Is
<1>11. Is(after)
  BY <1>10 DEF after
<1>12. after[0] = s /\ \A i \in 1..n : after[i] = Add(after[i - 1], i)
  <2>1. 0 \in 0..n /\ \A i \in 1..n : i \in 0..n /\ i # 0
    BY <1>1
  <2> QED
    BY <1>11, <2>1 DEF Is
<1>13. \A i \in 1..n : after[i - 1] \in P[i - 1] => after[i] \in P[i]
  BY <1>3, <1>5, <1>6, <1>12
<1>14. after[n] \in P[n] /\ n \in 0..n
  <2>1. after[0] \in P[0]
    BY <1>7, <1>12
  <2>2. after[n] \in P[n]
    BY <1>1, <1>13, <2>1, ChainIn
  <2> QED
    BY <1>1, <2>2
<1>15. after[n] \in Good /\ Created(after[n], n)
  BY <1>5, <1>14
<1>16. /\ \A t \in ToSet(tasks) : IsReady(after[n], t)
       /\ Exact(s) => Exact(after[n])
  BY <1>1, <1>15 DEF Created
<1> QED
  BY <1>2, <1>15, <1>16 DEF Created

\* The scheduler starts with the tasks of the application ready.
LEMMA InitInv == Init => KernelInv
<1> SUFFICES ASSUME Init PROVE KernelInv
  OBVIOUS
<1> DEFINE empty == prvInitialiseTaskLists(app)
           full == AddTasks(empty, app.tasks)
<1>1. app \in Apps /\ IsApp(app)
  BY AppsAssumption DEF Init
<1>2. /\ empty \in Good /\ empty.current = NoTask /\ empty.schedSusp = 0
      /\ \A t \in Task : Away(empty, t) /\ Free(empty, t)
  BY <1>1, EmptyListsGood
<1>3. app.tasks \in Seq(Task) /\ IsInjective(app.tasks)
  BY <1>1 DEF IsApp
<1>4. k = vTaskSwitchContext(full)
  BY DEF Init
<1> HIDE DEF empty
<1>5. /\ full \in Good /\ full.schedSusp = 0
      /\ \A t \in ToSet(app.tasks) : IsReady(full, t)
  BY <1>2, <1>3, AddTasksGood
<1> HIDE DEF full
<1>6. Moves(full, k) /\ Settled(k)
  BY <1>4, <1>5, SwitchGood
<1>7. k \in Good /\ k.schedSusp = 0
  BY <1>5, <1>6 DEF Moves
<1>8. ToSet(app.tasks) \subseteq Task
  BY <1>3 DEF ToSet
<1>9. \A t \in ToSet(app.tasks) : ~Away(k, t)
  BY <1>5, <1>6, <1>8, ReadyIsNotAway DEF Moves
<1>10. \A t \in Task : thread[t] = Begin(1, 0, 0)
  BY DEF Init
<1>11. \A t \in Task : thread[t].pc = "start" /\ thread[t].at = 1
  BY <1>10 DEF Begin
<1>12. CallsTyped
  <2>1. Begin(1, 0, 0) \in ThreadState
    BY TaskAssumption DEF Begin, ThreadState, Ticks
  <2>2. thread \in [Task -> ThreadState]
    BY <2>1 DEF Init
  <2>3. \A t \in Task : app.calls[t] # <<>> => 1 \in DOMAIN app.calls[t]
    <3> SUFFICES ASSUME NEW t \in Task, app.calls[t] # <<>> PROVE 1 \in DOMAIN app.calls[t]
      OBVIOUS
    <3> DEFINE calls == app.calls[t]
               Calls == ToSet(calls)
    <3>1. calls \in Seq(Calls)
      BY <1>1 DEF IsApp
    <3> HIDE DEF calls, Calls
    <3>2. calls # <<>> => 1 \in DOMAIN calls
      BY <3>1
    <3> QED
      BY <3>2 DEF calls
  <2> QED
    BY <1>1, <1>11, <2>2, <2>3 DEF CallsTyped
<1>13. QueuesTyped(queue)
  <2>1. queue = app.queues /\ queue \in [Queue -> QueueState]
    BY <1>1 DEF Init, IsApp
  <2>2. QueueState \subseteq AnyQueue
    BY DEF QueueState, AnyQueue
  <2> QED
    BY <2>1, <2>2 DEF QueuesTyped
<1>14. SuspendedByRunning
  BY <1>7, <1>11 DEF SuspendedByRunning, Locked
<1>15. RunningIsReady
  BY <1>6, TaskAssumption DEF RunningIsReady, Settled
<1> QED
  BY <1>7, <1>9, <1>12, <1>13, <1>14, <1>15 DEF KernelInv

\* Every step keeps the invariant.
LEMMA NextKeeps == KernelInv /\ GivenByHolder /\ [Next]_vars => KernelInv'
<1> SUFFICES ASSUME KernelInv, GivenByHolder, [Next]_vars
             PROVE  KernelInv'
  OBVIOUS
<1>1. CASE Tick
  BY <1>1, TickKeeps
<1>2. CASE Irq
  BY <1>2, IrqKeeps
<1>3. ASSUME NEW t \in Task, QueueStep(t)
      PROVE  KernelInv'
  BY <1>3, QueueStepKeeps
<1>4. ASSUME NEW t \in Task, TaskStep(t)
      PROVE  KernelInv'
  BY <1>4, TaskStepKeeps
<1>5. CASE UNCHANGED vars
  <2>1. app' = app /\ k' = k /\ queue' = queue /\ thread' = thread
    BY <1>5 DEF vars
  <2>2. k \in Good /\ QueuesTyped(queue)
    BY DEF KernelInv
  <2>3. Moves(k, k')
    BY <2>1, <2>2 DEF Moves
  <2> QED
    BY <2>1, <2>2, <2>3, InterruptKeeps
<1> QED
  BY <1>1, <1>2, <1>3, <1>4, <1>5 DEF Next

\* What the numbers of the property count.
LEMMA ListsCounted ==
  ASSUME NEW t \in Task, k \in Good
  PROVE  /\ StateLists(t) = (IF t \in ToSet(k.delayed) THEN 1 ELSE 0)
                            + (IF t \in ToSet(k.overflow) THEN 1 ELSE 0)
                            + (IF t \in k.suspended THEN 1 ELSE 0)
                            + (IF t \in ToSet(k.terminating) THEN 1 ELSE 0)
                            + (IF IsReady(k, t) THEN 1 ELSE 0)
         /\ EventLists(t) = (IF t \in ToSet(k.pending) THEN 1 ELSE 0)
                            + Cardinality({e \in EventList : t \in ToSet(k.events[e])})
<1> DEFINE items == k.ready[k.prio[t]].items
<1>1. /\ {k.delayed, k.overflow, k.terminating, k.pending} \subseteq Seq(Task)
      /\ k.prio[t] \in Priority /\ items \in Seq(Task)
      /\ \A e \in EventList : k.events[e] \in Seq(Task)
  BY DEF Good, KernelState
<1>2. /\ IsInjective(k.delayed) /\ IsInjective(k.overflow) /\ IsInjective(k.terminating)
      /\ IsInjective(k.pending) /\ IsInjective(items)
  BY <1>1 DEF Good, Shape, SoundList
<1>3. IsReady(k, t) <=> t \in ToSet(items)
  BY DEF IsReady
<1>4. \A s \in Seq(Task) : IsInjective(s) => Count(s, t) = IF t \in ToSet(s) THEN 1 ELSE 0
  BY CountOne DEF Count
<1>5. StateLists(t) = Count(k.delayed, t) + Count(k.overflow, t)
                      + (IF t \in k.suspended THEN 1 ELSE 0)
                      + Count(k.terminating, t) + Count(items, t)
  BY DEF StateLists
<1>6. {e \in EventList : Contains(k.events[e], t)} = {e \in EventList : t \in ToSet(k.events[e])}
  BY <1>1, ContainsIff
<1>7. EventLists(t) = Count(k.pending, t)
                      + Cardinality({e \in EventList : t \in ToSet(k.events[e])})
  BY <1>6 DEF EventLists
<1> HIDE DEF items
<1>8. /\ Count(k.delayed, t) = IF t \in ToSet(k.delayed) THEN 1 ELSE 0
      /\ Count(k.overflow, t) = IF t \in ToSet(k.overflow) THEN 1 ELSE 0
      /\ Count(k.terminating, t) = IF t \in ToSet(k.terminating) THEN 1 ELSE 0
      /\ Count(k.pending, t) = IF t \in ToSet(k.pending) THEN 1 ELSE 0
      /\ Count(items, t) = IF t \in ToSet(items) THEN 1 ELSE 0
  BY <1>1, <1>2, <1>4
<1> QED
  BY <1>3, <1>5, <1>7, <1>8

\* The invariant counts each task once.
LEMMA InvImpliesLists == KernelInv => ListsSound
<1> SUFFICES ASSUME KernelInv, NEW t \in ToSet(app.tasks)
             PROVE  /\ StateLists(t) = 1
                    /\ \A p \in Priority : Contains(k.ready[p].items, t) => p = k.prio[t]
                    /\ EventLists(t) = 0 \/ (EventLists(t) = 1 /\ ~InReadyList(k, t))
  BY DEF ListsSound
<1>1. k \in Good /\ ~Away(k, t)
  BY DEF KernelInv
<1>2. t \in Task
  BY AppsAssumption DEF KernelInv, CallsTyped, IsApp, ToSet
<1>3. Placed(k, t)
  BY <1>1, <1>2 DEF Good
<1>4. \A p \in Priority : k.ready[p].items \in Seq(Task)
  BY <1>1 DEF Good, KernelState
<1>5. \A p \in Priority : Contains(k.ready[p].items, t) => p = k.prio[t]
  BY <1>3, <1>4, ContainsIff DEF Placed
<1>6. StateLists(t) = 1
  <2>1. (\E p \in Priority : t \in ToSet(k.ready[p].items)) => IsReady(k, t)
    BY <1>3 DEF Placed, IsReady
  <2> DEFINE delayed == t \in ToSet(k.delayed)
             overflow == t \in ToSet(k.overflow)
             suspended == t \in k.suspended
             terminating == t \in ToSet(k.terminating)
             ready == IsReady(k, t)
  <2>2. StateLists(t) = (IF delayed THEN 1 ELSE 0) + (IF overflow THEN 1 ELSE 0)
                        + (IF suspended THEN 1 ELSE 0) + (IF terminating THEN 1 ELSE 0)
                        + (IF ready THEN 1 ELSE 0)
    BY <1>1, <1>2, ListsCounted
  <2>3. /\ ready => ~delayed /\ ~overflow /\ ~suspended /\ ~terminating
        /\ delayed => ~overflow /\ ~suspended /\ ~terminating
        /\ overflow => ~suspended /\ ~terminating
        /\ suspended => ~terminating
    BY <1>3 DEF Placed
  <2>4. ready \/ delayed \/ overflow \/ suspended \/ terminating
    BY <1>1, <2>1 DEF Away
  <2> HIDE DEF delayed, overflow, suspended, terminating, ready
  <2> QED
    BY <2>2, <2>3, <2>4
<1>7. InReadyList(k, t) <=> IsReady(k, t)
  BY <1>1, <1>2, <1>4, ContainsIff DEF InReadyList, IsReady, Good, KernelState
<1> DEFINE Waits1 == {e \in EventList : t \in ToSet(k.events[e])}
<1>8. EventLists(t) = (IF t \in ToSet(k.pending) THEN 1 ELSE 0) + Cardinality(Waits1)
  BY <1>1, <1>2, ListsCounted
<1>9. CASE Waits1 = {}
  <2>1. Cardinality(Waits1) = 0
    BY <1>9, FS_EmptySet
  <2> HIDE DEF Waits1
  <2> QED
    BY <1>3, <1>5, <1>6, <1>7, <1>8, <2>1 DEF Placed, Free
<1>10. ASSUME NEW e \in Waits1
       PROVE  EventLists(t) = 1 /\ ~InReadyList(k, t)
  <2>1. e \in EventList /\ t \in ToSet(k.events[e])
    OBVIOUS
  <2>2. Waits1 = {e}
    BY <1>3, <2>1 DEF Placed
  <2>3. Cardinality(Waits1) = 1
    BY <2>2, FS_Singleton
  <2>4. t \notin ToSet(k.pending) /\ ~IsReady(k, t)
    BY <1>3, <2>1 DEF Placed, Free
  <2> HIDE DEF Waits1
  <2> QED
    BY <1>7, <1>8, <2>3, <2>4
<1> QED
  BY <1>5, <1>6, <1>9, <1>10

\* In every behaviour in which who gives a mutex back holds it, no task of the
\* application is lost, and none is in two lists (tasks.c, list.c, queue.c).
THEOREM ListsKept == Spec /\ []GivenByHolder => []ListsSound
<1>1. Init => KernelInv
  BY InitInv
<1>2. KernelInv /\ GivenByHolder /\ [Next]_vars => KernelInv'
  BY NextKeeps
<1>3. KernelInv => ListsSound
  BY InvImpliesLists
<1> QED
  BY <1>1, <1>2, <1>3, PTL DEF Spec

\* Only the running task suspends the scheduler, once, and none is switched to
\* meanwhile; and the running task is ready, but for one that has put itself to
\* sleep and is about to yield (tasks.c: vTaskSuspendAll, vTaskSwitchContext).
THEOREM RunningTaskKept == Spec /\ []GivenByHolder => [](SuspendedByRunning /\ RunningIsReady)
<1>1. Init => KernelInv
  BY InitInv
<1>2. KernelInv /\ GivenByHolder /\ [Next]_vars => KernelInv'
  BY NextKeeps
<1>3. KernelInv => SuspendedByRunning /\ RunningIsReady
  BY DEF KernelInv
<1> QED
  BY <1>1, <1>2, <1>3, PTL DEF Spec

\* An application without mutexes needs no such promise.
LEMMA NoneGiven ==
  ASSUME \A a \in Apps : \A id \in Queue : a.queues[id].kind # "mutex"
  PROVE  Spec => []GivenByHolder
<1>1. KernelInv => GivenByHolder
  <2> SUFFICES ASSUME KernelInv, NEW t \in Task, GivesMutex(t) PROVE FALSE
    BY DEF GivenByHolder
  <2>1. app \in Apps /\ \A id \in Queue : queue[id].kind = app.queues[id].kind
    BY DEF KernelInv, CallsTyped, QueuesTyped
  <2>2. Call(t).queue \in Queue
    <3>1. app.calls[t] # <<>> /\ Call(t).op \in Waits \cup {"give recursive"}
      BY DEF GivesMutex, Running, Waits
    <3>2. IsCall(Call(t), Len(app.calls[t]))
      BY <3>1, AppTyped DEF KernelInv
    <3> QED
      BY <3>1, <3>2 DEF IsCall
  <2>3. Q(t).kind = "mutex"
    BY DEF GivesMutex
  <2> QED
    BY <2>1, <2>2, <2>3 DEF Q
<1>2. Init => KernelInv
  BY InitInv
<1>3. KernelInv /\ GivenByHolder /\ [Next]_vars => KernelInv'
  BY NextKeeps
<1> QED
  BY <1>1, <1>2, <1>3, PTL DEF Spec

\* So its lists are sound, whatever it does.
THEOREM ListsKeptWithoutMutexes ==
  ASSUME \A a \in Apps : \A id \in Queue : a.queues[id].kind # "mutex"
  PROVE  Spec => []ListsSound
<1>1. Spec => []GivenByHolder
  BY NoneGiven
<1> QED
  BY <1>1, ListsKept, PTL

-----------------------------------------------------------------------------
(***************************************************************************)
(* The scheduler: each step of a task leaves it sound.                     *)
(***************************************************************************)
\* What the guard of an action says of the scheduler.
LEMMA RunningRun ==
  ASSUME KernelInv, NEW t \in Task, NEW ops, NEW pc, Running(t, ops, pc)
  PROVE  /\ t = k.current /\ k.current \in Task /\ k \in Good
         /\ Call(t).op \in ops /\ IsCall(Call(t), Len(app.calls[t]))
         /\ k.schedSusp = IF pc \in Locked THEN 1 ELSE 0
         /\ pc \in Awake => IsReady(k, t)
<1>1. /\ t = k.current /\ k.current \in Task /\ k \in Good /\ thread[t].pc = pc
      /\ Call(t).op \in ops /\ IsCall(Call(t), Len(app.calls[t]))
      /\ pc \in Awake => IsReady(k, t)
  BY RunningFacts
<1> QED
  BY <1>1 DEF KernelInv, SuspendedByRunning

\* The queue of a call.
LEMMA QueueOfCall ==
  ASSUME KernelInv, NEW t \in Task, Call(t).queue \in Queue
  PROVE  Q(t) \in AnyQueue
BY DEF KernelInv, QueuesTyped, Q

\* What the running task may do when it gives a mutex back.
LEMMA GivesRun ==
  ASSUME NEW t \in Task, GivesMutex(t), GivenByHolder, GivenToUrgent, NEW q,
         q.kind = Q(t).kind, q.holder = Q(t).holder
  PROVE  HeldBy(k, q, t) /\ GivesToUrgent(k, q, Call(t).queue, t)
BY DEF GivenByHolder, GivenToUrgent, HeldBy, GivesToUrgent

\* The first critical section of xQueueGenericSend, xQueueReceive,
\* xQueueSemaphoreTake and xQueuePeek.
LEMMA TransferRun ==
  ASSUME KernelInv, Sched(k), GivenByHolder, GivenToUrgent, NEW t \in Task, Transfer(t)
  PROVE  Sched(k')
<1> DEFINE call == Call(t)
           q == Q(t)
           id == call.queue
<1>1. Running(t, Waits, "start") /\ CanGo(t)
  BY DEF Transfer
<1>2. /\ t = k.current /\ k.current \in Task /\ k \in Good /\ k.schedSusp = 0
      /\ call.op \in Waits /\ IsCall(call, Len(app.calls[t])) /\ IsReady(k, t)
      /\ thread[t] \in ThreadState
  BY <1>1, RunningRun, RunningFacts DEF Awake, Locked
<1>3. id \in Queue /\ q \in AnyQueue
  BY <1>2, QueueOfCall DEF IsCall
<1>4. CASE call.op \in Sends
  <2> DEFINE r == SendWithRoom(k, q, id, ItemSent(t), call.position)
  <2>1. ItemSent(t) \in Item /\ call.position \in Position
    BY <1>2, <1>4 DEF ItemSent, IsCall, ThreadState
  <2>2. HeldBy(k, q, t) /\ GivesToUrgent(k, q, id, t)
    <3>1. CASE q.kind = "mutex"
      <4>1. GivesMutex(t)
        BY <1>1, <1>4, <3>1 DEF GivesMutex, Running
      <4> QED
        BY <4>1, GivesRun
    <3>2. CASE q.kind # "mutex"
      BY <3>2 DEF HeldBy, GivesToUrgent
    <3> QED
      BY <3>1, <3>2
  <2>3. k' = r.k
    BY <1>4 DEF Transfer, Sends, Commit
  <2>4. Sched(r.k)
    BY <1>2, <1>3, <2>1, <2>2, SendWithRoomRun
  <2> QED
    BY <2>3, <2>4
<1>5. CASE call.op \in Looks
  <2>1. \A n : Sched(TakeItem(k, q, id, n).k)
    BY <1>2, <1>3, TakeItemRun
  <2>2. Sched(PeekItem(k, q, id).k)
    BY <1>2, <1>3, PeekAndResetRun
  <2>3. \/ k' = TakeItem(k, q, id, 0).k \/ k' = TakeItem(k, q, id, 1).k
        \/ k' = PeekItem(k, q, id).k
    <3>1. CASE call.op = "receive"
      BY <3>1 DEF Transfer, Sends, Commit
    <3>2. CASE call.op = "take recursive"
      BY <3>2 DEF Transfer, Sends, Commit
    <3>3. CASE call.op = "peek"
      BY <3>3 DEF Transfer, Sends, Commit
    <3> QED
      BY <1>5, <3>1, <3>2, <3>3 DEF Looks, Takes
  <2> QED
    BY <2>1, <2>2, <2>3
<1> QED
  BY <1>2, <1>4, <1>5 DEF Waits

\* Steps that leave the tasks alone.
LEMMA QuietRun ==
  ASSUME Sched(k), NEW t \in Task,
         \/ TransferFails(t) \/ StartWait(t) \/ LockQueue(t) \/ TestQueue(t)
         \/ Expired(t) \/ TakeAgain(t)
  PROVE  Sched(k')
<1>1. k' = k
  BY DEF TransferFails, StartWait, LockQueue, TestQueue, Expired, TakeAgain, Commit
<1> QED
  BY <1>1

\* Steps from a wait's suspension of the scheduler to its end.
LEMMA WaitRun ==
  ASSUME KernelInv, Sched(k), NEW t \in Task,
         \/ SuspendScheduler(t) \/ CheckTimeOut(t) \/ Inherit(t) \/ Block(t)
         \/ UnlockSenders(t) \/ UnlockReceivers(t) \/ ResumeScheduler(t)
  PROVE  Sched(k')
<1>1. CASE SuspendScheduler(t)
  <2>1. Running(t, Waits, "suspend") /\ k' = vTaskSuspendAll(k)
    BY <1>1 DEF SuspendScheduler
  <2> QED
    BY <2>1, RunningRun, SuspendAllRun DEF Locked
<1>2. CASE CheckTimeOut(t)
  <2>1. Running(t, Waits, "check") /\ k' = xTaskCheckForTimeOut(k, thread[t].wait).k
    BY <1>2 DEF CheckTimeOut
  <2> QED
    BY <2>1, RunningRun, CheckForTimeOutRun
<1>3. CASE Inherit(t)
  <2>1. Running(t, Takes, "inherit") /\ k' = xTaskPriorityInherit(k, Q(t).holder).k
    BY <1>3 DEF Inherit
  <2>2. k \in Good /\ k.current \in Task /\ Call(t).op \in Takes /\ IsCall(Call(t), Len(app.calls[t]))
    BY <2>1, RunningRun
  <2>3. Q(t).holder \in Task \cup {NoTask}
    BY <2>2, QueueOfCall DEF IsCall, AnyQueue, Waits, Looks
  <2> QED
    BY <2>1, <2>2, <2>3, InheritRun
<1>4. CASE Block(t)
  <2> DEFINE e == <<Call(t).queue, IF Call(t).op \in Sends THEN "send" ELSE "receive">>
  <2>1. Running(t, Waits, "block") /\ k' = vTaskPlaceOnEventList(k, e, thread[t].wait.left)
    BY <1>4 DEF Block
  <2>2. /\ t = k.current /\ k \in Good /\ k.current \in Task /\ IsReady(k, t)
        /\ Call(t).op \in Waits /\ IsCall(Call(t), Len(app.calls[t]))
    BY <2>1, RunningRun DEF Awake
  <2>3. e \in EventList
    BY <2>2 DEF IsCall, EventList
  <2>4. thread[t].wait.left \in Ticks
    BY <2>1, RunningFacts DEF ThreadState
  <2> HIDE DEF e
  <2> QED
    BY <2>1, <2>2, <2>3, <2>4, PlaceOnEventListRun
<1>5. CASE UnlockSenders(t) \/ UnlockReceivers(t)
  <2>1. PICK pc \in {"unlockTx", "unlockRx"} : Running(t, Waits, pc)
    BY <1>5 DEF UnlockSenders, UnlockReceivers
  <2>2. /\ k \in Good /\ k.current \in Task /\ k.schedSusp = 1
        /\ Call(t).op \in Waits /\ IsCall(Call(t), Len(app.calls[t]))
    BY <2>1, RunningRun DEF Locked
  <2>3. Call(t).queue \in Queue
    BY <2>2 DEF IsCall
  <2>4. \/ k' = UnlockTx(k, Q(t), Call(t).queue).k \/ k' = UnlockRx(k, Q(t), Call(t).queue).k
    BY <1>5 DEF UnlockSenders, UnlockReceivers, Commit
  <2> QED
    BY <2>2, <2>3, <2>4, QueueOfCall, UnlockRun
<1>6. CASE ResumeScheduler(t)
  <2>1. Running(t, Waits, "resume") /\ k' = xTaskResumeAll(k).k
    BY <1>6 DEF ResumeScheduler
  <2> QED
    BY <2>1, RunningRun, ResumeAllRun DEF Locked
<1> QED
  BY <1>1, <1>2, <1>3, <1>4, <1>5, <1>6

\* A yield.
LEMMA YieldRun ==
  ASSUME KernelInv, Sched(k), NEW t \in Task, Yield(t) \/ YieldAndReturn(t)
  PROVE  Sched(k')
<1>1. k' = vTaskSwitchContext(k) /\ k \in Good
  BY DEF Yield, YieldAndReturn, KernelInv
<1> QED
  BY <1>1, SwitchRun DEF Sched

\* The end of a wait for a mutex whose holder has inherited a priority.
LEMMA DisinheritStepRun ==
  ASSUME KernelInv, Sched(k), GivenUpQuietly, NEW t \in Task, Disinherit(t)
  PROVE  Sched(k')
<1> DEFINE holder == Q(t).holder
           waiting == HighestWaiting(k, Call(t).queue)
           left == IF k.base[holder] < waiting THEN waiting ELSE k.base[holder]
<1>1. Running(t, Takes, "disinherit") /\ k' = vTaskPriorityDisinheritAfterTimeout(k, holder, waiting)
  BY DEF Disinherit
<1>2. /\ t = k.current /\ k \in Good /\ k.current \in Task /\ IsReady(k, t)
      /\ Call(t).op \in Takes /\ IsCall(Call(t), Len(app.calls[t]))
  BY <1>1, RunningRun DEF Awake
<1>3. Call(t).queue \in Queue
  BY <1>2 DEF IsCall, Waits, Looks
<1>4. holder \in Task \cup {NoTask} /\ waiting \in Priority
  BY <1>2, <1>3, QueueOfCall, HighestWaitingTyped DEF AnyQueue
<1>5. holder \in Task => (InReadyList(k, holder) <=> IsReady(k, holder))
  BY <1>2, ContainsIff DEF InReadyList, IsReady, Good, KernelState
<1>6. holder # NoTask => LosesBeside(k, holder, left)
  BY <1>1, <1>2, <1>4, <1>5 DEF GivenUpQuietly, LosesBeside
<1> HIDE DEF holder, waiting
<1> QED
  BY <1>1, <1>2, <1>4, <1>6, DisinheritAfterTimeoutRun

\* xQueueGiveMutexRecursive
LEMMA GiveRecursiveRun ==
  ASSUME KernelInv, Sched(k), GivenByHolder, GivenToUrgent, NEW t \in Task, GiveRecursive(t)
  PROVE  Sched(k')
<1> DEFINE ops == {"give recursive"}
           q == Q(t)
           less == [q EXCEPT !.recursion = @ - 1]
           r == SendWithRoom(k, less, Call(t).queue, Call(t).item, "back")
<1>1. Running(t, ops, "start")
  BY DEF GiveRecursive
<1> HIDE DEF ops
<1>2. /\ t = k.current /\ k.current \in Task /\ k \in Good /\ k.schedSusp = 0
      /\ Call(t).op \in ops /\ IsCall(Call(t), Len(app.calls[t])) /\ IsReady(k, t)
  BY <1>1, RunningRun DEF Awake, Locked
<1>3. Call(t).queue \in Queue /\ Call(t).item \in Item /\ q \in AnyQueue
  BY <1>2, QueueOfCall DEF IsCall, ops
<1>4. /\ less \in AnyQueue /\ less.kind = q.kind /\ less.holder = q.holder
      /\ less.recursion = 0 => q.recursion = 1
  BY <1>3, RecursionTyped
<1>5. CASE k' = k
  BY <1>5
<1>6. CASE q.holder = t /\ less.recursion = 0 /\ k' = r.k
  <2>1. HeldBy(k, less, t) /\ GivesToUrgent(k, less, Call(t).queue, t)
    <3>1. CASE q.kind = "mutex"
      <4>1. GivesMutex(t)
        BY <1>1, <1>4, <1>6, <3>1 DEF GivesMutex, ops
      <4> QED
        BY <1>4, <4>1, GivesRun
    <3>2. CASE q.kind # "mutex"
      BY <1>4, <3>2 DEF HeldBy, GivesToUrgent
    <3> QED
      BY <3>1, <3>2
  <2> HIDE DEF less
  <2>2. "back" \in Position
    BY DEF Position
  <2> QED
    BY <1>2, <1>3, <1>4, <1>6, <2>1, <2>2, SendWithRoomRun
<1> QED
  BY <1>5, <1>6 DEF GiveRecursive, Commit

\* xQueueGenericReset
LEMMA ResetRun ==
  ASSUME KernelInv, Sched(k), NEW t \in Task, Reset(t)
  PROVE  Sched(k')
<1>1. Running(t, {"reset"}, "start") /\ k' = xQueueGenericReset(k, Q(t), Call(t).queue).k
  BY DEF Reset, Commit
<1>2. /\ k \in Good /\ k.current \in Task /\ Call(t).op = "reset"
      /\ IsCall(Call(t), Len(app.calls[t]))
  BY <1>1, RunningRun
<1>3. Call(t).queue \in Queue
  BY <1>2 DEF IsCall
<1> QED
  BY <1>1, <1>2, <1>3, PeekAndResetRun

\* The calls of tasks.c.
LEMMA TaskStepRun ==
  ASSUME KernelInv, Sched(k), NEW t \in Task, TaskStep(t)
  PROVE  Sched(k')
<1>1. CASE BeginSuspended(t)
  <2>1. /\ Running(t, {"delay", "until", "abort"}, "start")
        /\ k' = vTaskSwitchContext(k) \/ k' = vTaskSuspendAll(k)
    BY <1>1 DEF BeginSuspended
  <2>2. k \in Good /\ k.schedSusp = 0
    BY <2>1, RunningRun DEF Locked
  <2> QED
    BY <2>1, <2>2, SwitchRun, SuspendAllRun DEF Sched
<1>2. CASE Delay(t)
  <2>1. Running(t, {"delay"}, "suspended") /\ k' = prvAddCurrentTaskToDelayedList(k, Call(t).ticks, FALSE)
    BY <1>2 DEF Delay
  <2>2. /\ t = k.current /\ k \in Good /\ k.current \in Task /\ IsReady(k, t)
        /\ Call(t).op = "delay" /\ IsCall(Call(t), Len(app.calls[t]))
    BY <2>1, RunningRun DEF Awake
  <2>3. Call(t).ticks \in Ticks
    BY <2>2 DEF IsCall
  <2> QED
    BY <2>1, <2>2, <2>3, AddToDelayedRun, ReadiesNone
<1>3. CASE DelayUntil(t)
  <2> DEFINE wake == TimeToWake(k.tick, thread[t].previous, Call(t).ticks)
             wait == (wake - k.tick) % TickMod
  <2>1. /\ Running(t, {"until"}, "suspended")
        /\ k' = prvAddCurrentTaskToDelayedList(k, wait, FALSE) \/ k' = k
    BY <1>3 DEF DelayUntil
  <2>2. /\ t = k.current /\ k \in Good /\ k.current \in Task /\ IsReady(k, t)
        /\ Call(t).op = "until" /\ IsCall(Call(t), Len(app.calls[t]))
        /\ thread[t] \in ThreadState
    BY <2>1, RunningRun, RunningFacts DEF Awake
  <2>3. wake \in Int
    <3>1. thread[t].previous \in Int /\ Call(t).ticks \in Int
      BY <2>2 DEF IsCall, ThreadState, Ticks
    <3> QED
      BY <3>1, TicksWrap DEF TimeToWake, Ticks
  <2> HIDE DEF wake
  <2>4. wait \in Ticks
    <3>1. wake - k.tick \in Int
      BY <2>2, <2>3 DEF Good, KernelState, Ticks
    <3> QED
      BY <3>1, TicksWrap
  <2> HIDE DEF wait
  <2> QED
    BY <2>1, <2>2, <2>4, AddToDelayedRun, ReadiesNone
<1>4. CASE Abort(t)
  <2>1. Running(t, {"abort"}, "suspended") /\ k' = xTaskAbortDelay(k, Call(t).task)
    BY <1>4 DEF Abort
  <2>2. /\ k \in Good /\ k.current \in Task /\ k.schedSusp = 1
        /\ Call(t).op = "abort" /\ IsCall(Call(t), Len(app.calls[t]))
    BY <2>1, RunningRun DEF Locked
  <2>3. Call(t).task \in Task
    BY <2>2 DEF IsCall
  <2> QED
    BY <2>1, <2>2, <2>3, AbortDelayRun
<1>5. CASE EndSuspended(t)
  <2>1. Running(t, {"delay", "until", "abort"}, "resume") /\ k' = xTaskResumeAll(k).k
    BY <1>5 DEF EndSuspended
  <2> QED
    BY <2>1, RunningRun, ResumeAllRun DEF Locked
<1>6. CASE Suspend(t)
  <2>1. Running(t, {"suspend"}, "start") /\ k' = vTaskSuspend(k, Call(t).task)
    BY <1>6 DEF Suspend
  <2>2. k \in Good /\ Call(t).op = "suspend" /\ IsCall(Call(t), Len(app.calls[t]))
    BY <2>1, RunningRun
  <2>3. Call(t).task \in Task
    BY <2>2 DEF IsCall
  <2> QED
    BY <2>1, <2>2, <2>3, SuspendRun
<1>7. CASE EndSuspend(t)
  <2>1. k' = prvResetNextTaskUnblockTime(k) /\ k \in Good
    BY <1>7 DEF EndSuspend, KernelInv
  <2> QED
    BY <2>1, ResetUnblockRun, SameRunSched
<1>8. CASE YieldAndReturn(t)
  BY <1>8, YieldRun
<1>9. CASE Resume(t) \/ PrioritySet(t)
  <2>1. /\ Running(t, {"resume", "priority"}, "start")
        /\ \/ Call(t).op = "resume" /\ k' = vTaskResume(k, Call(t).task)
           \/ Call(t).op = "priority" /\ k' = vTaskPrioritySet(k, Call(t).task, Call(t).prio)
    BY <1>9 DEF Resume, PrioritySet, Running
  <2>2. /\ k \in Good /\ k.current \in Task /\ k.schedSusp = 0
        /\ IsCall(Call(t), Len(app.calls[t]))
    BY <2>1, RunningRun DEF Locked
  <2> QED
    BY <2>1, <2>2, ResumeRun, PrioritySetRun DEF IsCall
<1> QED
  BY <1>1, <1>2, <1>3, <1>4, <1>5, <1>6, <1>7, <1>8, <1>9 DEF TaskStep

\* Interrupts, between two steps of the tasks.
LEMMA InterruptRun ==
  ASSUME KernelInv, Sched(k), Tick \/ Irq
  PROVE  Sched(k')
<1>1. k \in Good /\ QueuesTyped(queue) /\ IsApp(app)
  BY AppsAssumption DEF KernelInv, CallsTyped
<1>2. k.current \in Task
  BY <1>1 DEF Tick, Irq, Good, KernelState
<1>3. CASE Tick
  <2>1. k' = YieldIf(xTaskIncrementTick(k).k, xTaskIncrementTick(k).yes)
    BY <1>3 DEF Tick
  <2> QED
    BY <1>1, <1>2, <2>1, TickRun
<1>4. CASE Irq
  <2>1. PICK h \in app.handlers : QueueIrq(h) \/ ResumeIrq(h)
    BY <1>4 DEF Irq
  <2>2. IsHandler(h, app.queues)
    BY <1>1 DEF IsApp
  <2>3. CASE QueueIrq(h)
    <3> DEFINE id == h.queue
               q == queue[id]
    <3>1. h.op \in {"send", "give", "receive"} /\ id \in Queue
      BY <2>2, <2>3 DEF QueueIrq, IsHandler
    <3>2. h.op = "send" => q.kind # "mutex"
      BY <1>1, <2>2, <3>1 DEF IsHandler, QueuesTyped
    <3>3. CASE h.op = "send"
      <4>1. k' = xQueueGenericSendFromISR(k, q, id, h.item, h.position).k
        BY <2>3, <3>3 DEF QueueIrq
      <4> QED
        BY <1>1, <1>2, <3>1, <3>2, <3>3, <4>1, QueueIrqRun
    <3>4. CASE h.op = "give"
      <4>1. k' = xQueueGiveFromISR(k, q, id, h.item).k
        BY <2>3, <3>4 DEF QueueIrq
      <4> QED
        BY <1>1, <1>2, <3>1, <4>1, QueueIrqRun
    <3>5. CASE h.op = "receive"
      <4>1. k' = xQueueReceiveFromISR(k, q, id).k
        BY <2>3, <3>5 DEF QueueIrq
      <4> QED
        BY <1>1, <1>2, <3>1, <4>1, QueueIrqRun
    <3> QED
      BY <3>1, <3>3, <3>4, <3>5
  <2>4. CASE ResumeIrq(h)
    <3>1. h.task \in Task /\ k' = xTaskResumeFromISR(k, h.task)
      BY <2>2, <2>4 DEF ResumeIrq, IsHandler
    <3> QED
      BY <1>1, <1>2, <3>1, ResumeFromISRRun
  <2> QED
    BY <2>1, <2>3, <2>4
<1> QED
  BY <1>3, <1>4

\* Every step.
LEMMA NextRun ==
  ASSUME KernelInv, Sched(k), GivenByHolder, GivenToUrgent, GivenUpQuietly, [Next]_vars
  PROVE  Sched(k')
<1>1. CASE Tick \/ Irq
  BY <1>1, InterruptRun
<1>2. ASSUME NEW t \in Task, QueueStep(t)
      PROVE  Sched(k')
  BY <1>2, TransferRun, QuietRun, WaitRun, YieldRun, DisinheritStepRun, GiveRecursiveRun, ResetRun
     DEF QueueStep
<1>3. ASSUME NEW t \in Task, TaskStep(t)
      PROVE  Sched(k')
  BY <1>3, TaskStepRun
<1>4. CASE UNCHANGED vars
  BY <1>4 DEF vars
<1> QED
  BY <1>1, <1>2, <1>3, <1>4 DEF Next

-----------------------------------------------------------------------------
(***************************************************************************)
(* The start: each task that is created sets the bit of its ready list.    *)
(***************************************************************************)
\* All of them are, and the first of the most urgent is switched to.
LEMMA InitRun == Init => Sched(k)
<1> SUFFICES ASSUME Init PROVE Sched(k)
  OBVIOUS
<1> DEFINE empty == prvInitialiseTaskLists(app)
           tasks == app.tasks
           full == AddTasks(empty, tasks)
<1>1. app \in Apps /\ IsApp(app)
  BY AppsAssumption DEF Init
<1>2. /\ empty \in Good /\ empty.current = NoTask /\ empty.schedSusp = 0
      /\ \A t \in Task : Away(empty, t) /\ Free(empty, t)
  BY <1>1, EmptyListsGood
<1>3. Exact(empty)
  <2>1. empty.top = {} /\ empty.ready = [p \in Priority |-> vListInitialise]
    BY DEF prvInitialiseTaskLists
  <2> HIDE DEF empty
  <2> QED
    BY <2>1 DEF Exact, vListInitialise, ToSet
<1>4. tasks \in Seq(Task) /\ IsInjective(tasks)
  BY <1>1 DEF IsApp
<1>5. k = vTaskSwitchContext(full)
  BY DEF Init
<1> HIDE DEF empty, tasks
<1>6. full \in Good /\ Exact(full)
  BY <1>2, <1>3, <1>4, AddTasksGood
<1> QED
  BY <1>5, <1>6, SwitchRun DEF full

-----------------------------------------------------------------------------
(***************************************************************************)
(* What a queue records of its holder.                                     *)
(***************************************************************************)
\* The count of the takes stays a number of takes, and a queue that is no mutex gets no
\* holder.
HolderKept(q, v) ==
  /\ q.recursion \in Nat => v.recursion \in Nat
  /\ q.kind # "mutex" => v.holder = q.holder

\* The functions of a queue keep to that,
LEMMA QueueHolderKept ==
  ASSUME NEW s, NEW q \in AnyQueue, NEW id, NEW item, NEW position, NEW again \in Nat
  PROVE  /\ HolderKept(q, SendWithRoom(s, q, id, item, position).q)
         /\ HolderKept(q, TakeItem(s, q, id, again).q)
         /\ HolderKept(q, PeekItem(s, q, id).q)
         /\ HolderKept(q, xQueueGenericReset(s, q, id).q)
         /\ HolderKept(q, prvLockQueue(q))
         /\ HolderKept(q, UnlockTx(s, q, id).q) /\ HolderKept(q, UnlockRx(s, q, id).q)
<1>1. HolderKept(q, SendWithRoom(s, q, id, item, position).q)
  <2> DEFINE items == Put(q.items, item, position)
             put == [q EXCEPT !.items = items]
             v == SendWithRoom(s, q, id, item, position).q
  <2>1. v = IF q.kind = "mutex" THEN [put EXCEPT !.holder = NoTask] ELSE put
    BY DEF SendWithRoom, prvCopyDataToQueue
  <2> HIDE DEF items, v
  <2>2. HolderKept(q, v)
    BY <2>1 DEF HolderKept, AnyQueue
  <2> QED
    BY <2>2 DEF v
<1>2. HolderKept(q, TakeItem(s, q, id, again).q)
  <2> DEFINE items == Tail(q.items)
             more == q.recursion + again
             holder == IF q.kind = "mutex" THEN s.current ELSE q.holder
             v == TakeItem(s, q, id, again).q
  <2>1. v = [q EXCEPT !.items = items, !.recursion = more, !.holder = holder]
    BY DEF TakeItem
  <2>2. /\ q.recursion \in Nat => more \in Nat
        /\ q.kind # "mutex" => holder = q.holder
    OBVIOUS
  <2> HIDE DEF items, more, holder, v
  <2>3. HolderKept(q, v)
    BY <2>1, <2>2 DEF HolderKept, AnyQueue
  <2> QED
    BY <2>3 DEF v
<1>3. HolderKept(q, PeekItem(s, q, id).q)
  BY DEF PeekItem, HolderKept
<1>4. HolderKept(q, xQueueGenericReset(s, q, id).q)
  BY DEF xQueueGenericReset, HolderKept, AnyQueue
<1>5. HolderKept(q, prvLockQueue(q))
  <2> DEFINE rx == IF q.rxLock = queueUNLOCKED THEN queueLOCKED_UNMODIFIED ELSE q.rxLock
             tx == IF q.txLock = queueUNLOCKED THEN queueLOCKED_UNMODIFIED ELSE q.txLock
  <2>1. prvLockQueue(q) = [q EXCEPT !.rxLock = rx, !.txLock = tx]
    BY DEF prvLockQueue
  <2> HIDE DEF rx, tx
  <2> QED
    BY <2>1 DEF HolderKept, AnyQueue
<1>6. HolderKept(q, UnlockTx(s, q, id).q) /\ HolderKept(q, UnlockRx(s, q, id).q)
  BY DEF UnlockTx, UnlockRx, HolderKept, AnyQueue
<1> QED
  BY <1>1, <1>2, <1>3, <1>4, <1>5, <1>6

\* and those of handlers.
LEMMA IrqHolderKept ==
  ASSUME NEW s, NEW q \in AnyQueue, NEW id, NEW item, NEW position
  PROVE  /\ q.kind # "mutex" =>
              HolderKept(q, xQueueGenericSendFromISR(s, q, id, item, position).q)
         /\ HolderKept(q, xQueueGiveFromISR(s, q, id, item).q)
         /\ HolderKept(q, xQueueReceiveFromISR(s, q, id).q)
<1>0. /\ HolderKept(q, q)
      /\ \A items : HolderKept(q, [q EXCEPT !.items = items])
      /\ \A items, tx : HolderKept(q, [[q EXCEPT !.items = items] EXCEPT !.txLock = tx])
      /\ \A items, rx : HolderKept(q, [[q EXCEPT !.items = items] EXCEPT !.rxLock = rx])
  BY DEF HolderKept, AnyQueue
<1>1. ASSUME q.kind # "mutex"
      PROVE  HolderKept(q, xQueueGenericSendFromISR(s, q, id, item, position).q)
  <2> DEFINE items == Put(q.items, item, position)
             put == [q EXCEPT !.items = items]
             counted == [put EXCEPT !.txLock = @ + 1]
             room == HasRoom(q, position)
             v == xQueueGenericSendFromISR(s, q, id, item, position).q
  <2>1. v = q \/ v = put \/ v = counted
    <3>0. prvCopyDataToQueue(s, q, item, position).q = put
      BY <1>1 DEF prvCopyDataToQueue
    <3>1. CASE ~room
      BY <3>1 DEF xQueueGenericSendFromISR
    <3>2. CASE room /\ q.txLock = queueUNLOCKED
      BY <3>0, <3>2 DEF xQueueGenericSendFromISR
    <3>3. CASE room /\ q.txLock # queueUNLOCKED
      BY <3>0, <3>3 DEF xQueueGenericSendFromISR
    <3> QED
      BY <3>1, <3>2, <3>3
  <2> HIDE DEF v
  <2>2. HolderKept(q, put) /\ HolderKept(q, counted)
    <3> DEFINE tx == put.txLock + 1
    <3>1. counted = [put EXCEPT !.txLock = tx]
      OBVIOUS
    <3> HIDE DEF items, tx
    <3> QED
      BY <1>0, <3>1
  <2> HIDE DEF put, counted
  <2> QED
    BY <1>0, <2>1, <2>2 DEF v
<1>2. HolderKept(q, xQueueGiveFromISR(s, q, id, item).q)
  <2> DEFINE items == Append(q.items, item)
             put == [q EXCEPT !.items = items]
             counted == [put EXCEPT !.txLock = @ + 1]
             room == HasRoom(q, "back")
             v == xQueueGiveFromISR(s, q, id, item).q
  <2>1. v = q \/ v = put \/ v = counted
    <3>1. CASE ~room
      BY <3>1 DEF xQueueGiveFromISR
    <3>2. CASE room /\ q.txLock = queueUNLOCKED
      BY <3>2 DEF xQueueGiveFromISR
    <3>3. CASE room /\ q.txLock # queueUNLOCKED
      BY <3>3 DEF xQueueGiveFromISR
    <3> QED
      BY <3>1, <3>2, <3>3
  <2> HIDE DEF v
  <2>2. HolderKept(q, put) /\ HolderKept(q, counted)
    <3> DEFINE tx == put.txLock + 1
    <3>1. counted = [put EXCEPT !.txLock = tx]
      OBVIOUS
    <3> HIDE DEF items, tx
    <3> QED
      BY <1>0, <3>1
  <2> HIDE DEF put, counted
  <2> QED
    BY <1>0, <2>1, <2>2 DEF v
<1>3. HolderKept(q, xQueueReceiveFromISR(s, q, id).q)
  <2> DEFINE items == Tail(q.items)
             got == [q EXCEPT !.items = items]
             counted == [got EXCEPT !.rxLock = @ + 1]
             some == ~prvIsQueueEmpty(q)
             v == xQueueReceiveFromISR(s, q, id).q
  <2>1. v = q \/ v = got \/ v = counted
    <3>1. CASE ~some
      BY <3>1 DEF xQueueReceiveFromISR
    <3>2. CASE some /\ q.rxLock = queueUNLOCKED
      BY <3>2 DEF xQueueReceiveFromISR
    <3>3. CASE some /\ q.rxLock # queueUNLOCKED
      BY <3>3 DEF xQueueReceiveFromISR
    <3> QED
      BY <3>1, <3>2, <3>3
  <2> HIDE DEF v
  <2>2. HolderKept(q, got) /\ HolderKept(q, counted)
    <3> DEFINE rx == got.rxLock + 1
    <3>1. counted = [got EXCEPT !.rxLock = rx]
      OBVIOUS
    <3> HIDE DEF items, rx
    <3> QED
      BY <1>0, <3>1
  <2> HIDE DEF got, counted
  <2> QED
    BY <1>0, <2>1, <2>2 DEF v
<1> QED
  BY <1>1, <1>2, <1>3

\* A step keeps it of every queue.
AllHoldersKept == \A id \in Queue : HolderKept(queue[id], queue'[id])

\* One queue is changed.
LEMMA CommitHolders ==
  ASSUME KernelInv, NEW t \in Task, Call(t).queue \in Queue, NEW r, HolderKept(Q(t), r.q), Commit(t, r)
  PROVE  AllHoldersKept
BY DEF KernelInv, QueuesTyped, Commit, AllHoldersKept, HolderKept, Q

\* Every step keeps it of every queue.
LEMMA StepHolders ==
  ASSUME KernelInv, GivenAsTaken, [Next]_vars
  PROVE  AllHoldersKept
<1>1. CASE queue' = queue
  BY <1>1 DEF AllHoldersKept, HolderKept
<1>2. ASSUME NEW t \in Task, Transfer(t)
      PROVE  AllHoldersKept
  <2> DEFINE q == Q(t)
             id == Call(t).queue
             sent == SendWithRoom(k, q, id, ItemSent(t), Call(t).position)
             taken(n) == TakeItem(k, q, id, n)
             peeked == PeekItem(k, q, id)
  <2>1. Running(t, Waits, "start")
    BY <1>2 DEF Transfer
  <2>2. Call(t).op \in Waits /\ IsCall(Call(t), Len(app.calls[t]))
    BY <2>1, RunningRun
  <2>3. id \in Queue /\ q \in AnyQueue
    BY <2>2, QueueOfCall DEF IsCall
  <2>4. Commit(t, sent) \/ Commit(t, taken(0)) \/ Commit(t, taken(1)) \/ Commit(t, peeked)
    <3>1. CASE Call(t).op \in Sends
      BY <1>2, <3>1 DEF Transfer, Sends
    <3>2. CASE Call(t).op = "receive"
      BY <1>2, <3>2 DEF Transfer, Sends
    <3>3. CASE Call(t).op = "take recursive"
      BY <1>2, <3>3 DEF Transfer, Sends
    <3>4. CASE Call(t).op = "peek"
      BY <1>2, <3>4 DEF Transfer, Sends
    <3> QED
      BY <2>2, <3>1, <3>2, <3>3, <3>4 DEF Waits, Looks, Takes
  <2>5. /\ HolderKept(q, sent.q) /\ HolderKept(q, peeked.q)
        /\ HolderKept(q, taken(0).q) /\ HolderKept(q, taken(1).q)
    BY <2>3, QueueHolderKept
  <2> HIDE DEF sent, taken, peeked
  <2> QED
    BY <2>3, <2>4, <2>5, CommitHolders
<1>3. ASSUME NEW t \in Task, LockQueue(t) \/ UnlockSenders(t) \/ UnlockReceivers(t)
      PROVE  AllHoldersKept
  <2> DEFINE q == Q(t)
             locked == [k |-> k, q |-> prvLockQueue(q)]
             tx == UnlockTx(k, q, Call(t).queue)
             rx == UnlockRx(k, q, Call(t).queue)
  <2>1. PICK pc : Running(t, Waits, pc)
    BY <1>3 DEF LockQueue, UnlockSenders, UnlockReceivers
  <2>2. Call(t).op \in Waits /\ IsCall(Call(t), Len(app.calls[t]))
    BY <2>1, RunningRun
  <2>3. Call(t).queue \in Queue /\ q \in AnyQueue
    BY <2>2, QueueOfCall DEF IsCall
  <2>4. Commit(t, locked) \/ Commit(t, tx) \/ Commit(t, rx)
    BY <1>3 DEF LockQueue, UnlockSenders, UnlockReceivers
  <2>5. HolderKept(q, locked.q) /\ HolderKept(q, tx.q) /\ HolderKept(q, rx.q)
    BY <2>3, QueueHolderKept
  <2> HIDE DEF locked, tx, rx
  <2> QED
    BY <2>3, <2>4, <2>5, CommitHolders
<1>4. ASSUME NEW t \in Task, TakeAgain(t)
      PROVE  AllHoldersKept
  <2> DEFINE q == Q(t)
             n == q.recursion + 1
             r == [k |-> k, q |-> [q EXCEPT !.recursion = @ + 1]]
  <2> DEFINE ops == {"take recursive"}
  <2>1. Running(t, ops, "start")
    BY <1>4 DEF TakeAgain
  <2> HIDE DEF ops
  <2>2. Call(t).op \in ops /\ IsCall(Call(t), Len(app.calls[t]))
    BY <2>1, RunningRun
  <2>3. Call(t).queue \in Queue /\ q \in AnyQueue
    BY <2>2, QueueOfCall DEF IsCall, Waits, Looks, Takes, ops
  <2>4. r.q = [q EXCEPT !.recursion = n] /\ (q.recursion \in Nat => n \in Nat)
    OBVIOUS
  <2>5. Commit(t, r)
    BY <1>4 DEF TakeAgain
  <2> HIDE DEF r, n
  <2>6. HolderKept(q, r.q)
    BY <2>3, <2>4 DEF HolderKept, AnyQueue
  <2> QED
    BY <2>3, <2>5, <2>6, CommitHolders
<1>5. ASSUME NEW t \in Task, GiveRecursive(t), queue' # queue
      PROVE  AllHoldersKept
  <2> DEFINE q == Q(t)
             n == q.recursion - 1
             less == [q EXCEPT !.recursion = @ - 1]
             quiet == [k |-> k, q |-> less]
             given == SendWithRoom(k, less, Call(t).queue, Call(t).item, "back")
  <2> DEFINE ops == {"give recursive"}
  <2>1. Running(t, ops, "start")
    BY <1>5 DEF GiveRecursive
  <2> HIDE DEF ops
  <2>2. Call(t).op \in ops /\ IsCall(Call(t), Len(app.calls[t]))
    BY <2>1, RunningRun
  <2>3. Call(t).queue \in Queue /\ q \in AnyQueue
    BY <2>2, QueueOfCall DEF IsCall, ops
  <2>4. q.holder = t /\ (Commit(t, quiet) \/ Commit(t, given))
    BY <1>5 DEF GiveRecursive
  <2>5. q.recursion > 0
    BY <2>1, <2>4 DEF GivenAsTaken, ops
  <2>6. less = [q EXCEPT !.recursion = n] /\ (q.recursion \in Nat => n \in Nat)
    BY <2>5
  <2>7. less \in AnyQueue /\ less.kind = q.kind /\ less.holder = q.holder
    BY <2>3, RecursionTyped
  <2> HIDE DEF less, n
  <2>8. HolderKept(q, less)
    BY <2>3, <2>6, <2>7 DEF HolderKept, AnyQueue
  <2>9. HolderKept(less, given.q)
    BY <2>7, QueueHolderKept
  <2>10. quiet.q = less
    OBVIOUS
  <2> HIDE DEF quiet, given
  <2>11. HolderKept(q, quiet.q) /\ HolderKept(q, given.q)
    BY <2>7, <2>8, <2>9, <2>10 DEF HolderKept
  <2> QED
    BY <2>3, <2>4, <2>11, CommitHolders
<1>6. ASSUME NEW t \in Task, Reset(t)
      PROVE  AllHoldersKept
  <2> DEFINE r == xQueueGenericReset(k, Q(t), Call(t).queue)
  <2>1. Running(t, {"reset"}, "start") /\ Commit(t, r)
    BY <1>6 DEF Reset
  <2>2. Call(t).op = "reset" /\ IsCall(Call(t), Len(app.calls[t]))
    BY <2>1, RunningRun
  <2>3. Call(t).queue \in Queue /\ Q(t) \in AnyQueue
    BY <2>2, QueueOfCall DEF IsCall
  <2>4. HolderKept(Q(t), r.q)
    BY <2>3, QueueHolderKept
  <2> HIDE DEF r
  <2> QED
    BY <2>1, <2>3, <2>4, CommitHolders
<1>7. ASSUME Irq, queue' # queue
      PROVE  AllHoldersKept
  <2>1. QueuesTyped(queue) /\ IsApp(app)
    BY AppsAssumption DEF KernelInv, CallsTyped
  <2>2. PICK h \in app.handlers : QueueIrq(h)
    BY <1>7 DEF Irq, ResumeIrq
  <2>3. IsHandler(h, app.queues)
    BY <2>1 DEF IsApp
  <2> DEFINE id == h.queue
             q == queue[id]
             sent == xQueueGenericSendFromISR(k, q, id, h.item, h.position)
             given == xQueueGiveFromISR(k, q, id, h.item)
             received == xQueueReceiveFromISR(k, q, id)
             Is(r) == queue' = [queue EXCEPT ![id] = r.q]
  <2>4. h.op \in {"send", "give", "receive"} /\ id \in Queue /\ q \in AnyQueue
    BY <2>1, <2>2, <2>3 DEF QueueIrq, IsHandler, QueuesTyped
  <2>5. h.op = "send" => q.kind # "mutex"
    BY <2>1, <2>3, <2>4 DEF IsHandler, QueuesTyped
  <2>6. \E r : Is(r) /\ HolderKept(q, r.q)
    <3>1. CASE h.op = "send"
      <4>1. Is(sent)
        BY <2>2, <3>1 DEF QueueIrq
      <4> QED
        BY <2>4, <2>5, <3>1, <4>1, IrqHolderKept
    <3>2. CASE h.op = "give"
      <4>1. Is(given)
        BY <2>2, <3>2 DEF QueueIrq
      <4> QED
        BY <2>4, <4>1, IrqHolderKept
    <3>3. CASE h.op = "receive"
      <4>1. Is(received)
        BY <2>2, <3>3 DEF QueueIrq
      <4> QED
        BY <2>4, <4>1, IrqHolderKept
    <3> QED
      BY <2>4, <3>1, <3>2, <3>3
  <2> QED
    BY <2>1, <2>4, <2>6 DEF QueuesTyped, AllHoldersKept, HolderKept
<1>8. CASE queue' # queue
  <2>1. Irq \/ \E t \in Task : QueueStep(t)
    BY <1>8 DEF Next, vars, Tick, TaskStep, BeginSuspended, Delay, DelayUntil, Abort, EndSuspended,
                Suspend, EndSuspend, YieldAndReturn, Resume, PrioritySet
  <2>2. ASSUME NEW t \in Task, QueueStep(t)
        PROVE  \/ Transfer(t) \/ LockQueue(t) \/ UnlockSenders(t) \/ UnlockReceivers(t)
               \/ TakeAgain(t) \/ GiveRecursive(t) \/ Reset(t)
    BY <1>8, <2>2 DEF QueueStep, TransferFails, StartWait, SuspendScheduler, CheckTimeOut, TestQueue,
                Inherit, Block, ResumeScheduler, Yield, Expired, Disinherit
  <2> QED
    BY <1>2, <1>3, <1>4, <1>5, <1>6, <1>7, <1>8, <2>1, <2>2
<1> QED
  BY <1>1, <1>8

-----------------------------------------------------------------------------
(***************************************************************************)
(* The types of what is kept beside the tasks.                             *)
(***************************************************************************)
NumbersTyped ==
  /\ \A id \in Queue : queue[id].recursion \in Nat
  /\ irqs \in 0..app.maxIrqs
  /\ due \in [Task -> Nat]

\* The time since the start is a number of ticks.
LEMMA KernelTimeTyped ==
  ASSUME NEW s \in KernelState
  PROVE  KernelTime(s) \in Nat
<1>1. s.overflows \in Nat /\ s.tick \in Nat
  BY DEF KernelState, Ticks
<1>2. TickMod \in Nat
  BY TaskAssumption
<1>3. \A m, n, i \in Nat : m * n + i \in Nat
  OBVIOUS
<1> QED
  BY <1>1, <1>2, <1>3 DEF KernelTime

\* The history of the waits,
LEMMA RecordWaitTyped ==
  ASSUME KernelInv, due \in [Task -> Nat], NEW ticks \in Nat, RecordWait(ticks)
  PROVE  due' \in [Task -> Nat]
<1> DEFINE end == KernelTime(k) + ticks
<1>1. end \in Nat
  <2>1. KernelTime(k) \in Nat
    BY KernelTimeTyped DEF KernelInv, Good
  <2> QED
    BY <2>1
<1>2. due' = [t \in Task |->
                IF WaitBegins(t) \/ DelayBegins(t) THEN end
                ELSE IF thread'[t].timed \/ InDelayedList(k', t) THEN due[t] ELSE 0]
  BY DEF RecordWait
<1> HIDE DEF end
<1> QED
  BY <1>1, <1>2

\* of the calls that name a time,
LEMMA RecordDueTyped ==
  ASSUME KernelInv, due \in [Task -> Nat], k.current \in Task, RecordDue
  PROVE  due' \in [Task -> Nat]
<1> DEFINE t == k.current
           timed == app.calls[t] # <<>> /\ Call(t).op \in Waits \cup {"delay", "until"}
           ticks == IF timed THEN Call(t).ticks ELSE 0
<1>1. RecordWait(ticks)
  BY DEF RecordDue
<1>2. timed => Call(t).ticks \in Nat
  <2> SUFFICES ASSUME timed PROVE Call(t).ticks \in Nat
    OBVIOUS
  <2>1. CallsTyped
    BY DEF KernelInv
  <2>2. IsCall(Call(t), Len(app.calls[t]))
    BY <2>1, AppTyped
  <2>3. Call(t).ticks \in Ticks
    BY <2>2 DEF IsCall
  <2>4. \A n \in Ticks : n \in Nat
    BY TaskAssumption DEF Ticks
  <2> HIDE DEF t
  <2> QED
    BY <2>3, <2>4
<1> HIDE DEF timed
<1>3. ticks \in Nat
  BY <1>2
<1> HIDE DEF ticks
<1> QED
  BY <1>1, <1>3, RecordWaitTyped

\* stays a history.
LEMMA StepDue ==
  ASSUME KernelInv, due \in [Task -> Nat], [Next]_vars
  PROVE  due' \in [Task -> Nat]
<1>1. ASSUME NEW t \in Task, QueueStep(t) \/ TaskStep(t)
      PROVE  RecordDue \/ DelayUntil(t)
  BY <1>1 DEF QueueStep, Transfer, TransferFails, StartWait, SuspendScheduler, LockQueue,
              CheckTimeOut, TestQueue, Inherit, Block, UnlockSenders, UnlockReceivers,
              ResumeScheduler, Yield, Expired, Disinherit, TakeAgain, GiveRecursive, Reset,
              TaskStep, BeginSuspended, Delay, Abort, EndSuspended, Suspend, EndSuspend,
              YieldAndReturn, Resume, PrioritySet
<1>2. ASSUME NEW t \in Task, QueueStep(t) \/ TaskStep(t)
      PROVE  t = k.current
  <2>1. PICK ops, pc : Running(t, ops, pc)
    BY <1>2 DEF QueueStep, Transfer, TransferFails, StartWait, SuspendScheduler, LockQueue,
              CheckTimeOut, TestQueue, Inherit, Block, UnlockSenders, UnlockReceivers,
              ResumeScheduler, Yield, Expired, Disinherit, TakeAgain, GiveRecursive, Reset,
              TaskStep, BeginSuspended, Delay, DelayUntil, Abort, EndSuspended, Suspend,
              EndSuspend, YieldAndReturn, Resume, PrioritySet
  <2> QED
    BY <2>1 DEF Running
<1>3. Tick \/ Irq => RecordDue /\ k.current \in Task
  BY DEF Tick, Irq, KernelInv, Good, KernelState
<1>4. ASSUME NEW t \in Task, DelayUntil(t)
      PROVE  due' \in [Task -> Nat]
  <2> DEFINE wake == TimeToWake(k.tick, thread[t].previous, Call(t).ticks)
             wait == (wake - k.tick) % TickMod
  <2>1. Running(t, {"until"}, "suspended") /\ RecordWait(wait)
    BY <1>4 DEF DelayUntil
  <2>2. /\ k \in Good /\ Call(t).op = "until" /\ IsCall(Call(t), Len(app.calls[t]))
        /\ thread[t] \in ThreadState
    BY <2>1, RunningFacts
  <2>3. wake \in Int
    <3>1. thread[t].previous \in Int /\ Call(t).ticks \in Int
      BY <2>2 DEF IsCall, ThreadState, Ticks
    <3> QED
      BY <3>1, TicksWrap DEF TimeToWake, Ticks
  <2> HIDE DEF wake
  <2>4. wait \in Nat
    <3>1. wake - k.tick \in Int
      BY <2>2, <2>3 DEF Good, KernelState, Ticks
    <3> QED
      BY <3>1, TicksWrap DEF Ticks
  <2> HIDE DEF wait
  <2> QED
    BY <2>1, <2>4, RecordWaitTyped
<1>5. CASE UNCHANGED vars
  BY <1>5 DEF vars
<1> QED
  BY <1>1, <1>2, <1>3, <1>4, <1>5, RecordDueTyped DEF Next

\* All of them.
LEMMA StepNumbers ==
  ASSUME KernelInv, GivenAsTaken, NumbersTyped, [Next]_vars
  PROVE  NumbersTyped'
<1>1. AllHoldersKept
  BY StepHolders
<1>2. due' \in [Task -> Nat]
  BY StepDue DEF NumbersTyped
<1>3. app' = app /\ (irqs' = irqs \/ (irqs < app.maxIrqs /\ irqs' = irqs + 1))
  BY DEF Next, vars, Tick, Irq,
         QueueStep, Transfer, TransferFails, StartWait, SuspendScheduler, LockQueue,
         CheckTimeOut, TestQueue, Inherit, Block, UnlockSenders, UnlockReceivers,
         ResumeScheduler, Yield, Expired, Disinherit, TakeAgain, GiveRecursive, Reset,
         TaskStep, BeginSuspended, Delay, DelayUntil, Abort, EndSuspended, Suspend,
         EndSuspend, YieldAndReturn, Resume, PrioritySet
<1>4. app.maxIrqs \in Nat
  BY AppsAssumption DEF KernelInv, CallsTyped, IsApp
<1>5. irqs' \in 0..app.maxIrqs
  BY <1>3, <1>4 DEF NumbersTyped
<1> QED
  BY <1>1, <1>2, <1>3, <1>5 DEF NumbersTyped, AllHoldersKept, HolderKept

\* The start: the applications have their numbers in range.
LEMMA InitNumbers == Init => NumbersTyped
<1> SUFFICES ASSUME Init PROVE NumbersTyped
  OBVIOUS
<1>1. IsApp(app)
  BY AppsAssumption DEF Init
<1> QED
  BY <1>1 DEF Init, IsApp, QueueState, NumbersTyped

-----------------------------------------------------------------------------
(***************************************************************************)
(* What the scheduler promises.                                            *)
(***************************************************************************)
LEMMA SchedImpliesSound ==
  ASSUME KernelInv, Sched(k), NumbersTyped
  PROVE  SchedulerSound
<1>1. k \in Good /\ k \in KernelState
  BY DEF KernelInv, Good
<1>2. TypeOK
  <2>1. ASSUME NEW id \in Queue PROVE queue[id] \in QueueState
    BY DEF KernelInv, QueuesTyped, NumbersTyped, AnyQueue, QueueState
  <2>2. queue \in [Queue -> QueueState]
    BY <2>1 DEF KernelInv, QueuesTyped
  <2> QED
    BY <1>1, <2>2 DEF TypeOK, KernelInv, CallsTyped, NumbersTyped
<1>3. ReadyBitsExact
  <2>1. k.top \in SUBSET Priority /\ \A p \in Priority : k.ready[p].items \in Seq(Task)
    BY <1>1 DEF KernelState
  <2>2. ASSUME NEW items \in Seq(Task) PROVE ToSet(items) = {} <=> items = <<>>
    <3>1. items # <<>> => 1 \in DOMAIN items
      OBVIOUS
    <3>2. items = <<>> => DOMAIN items = {}
      OBVIOUS
    <3> QED
      BY <3>1, <3>2 DEF ToSet
  <2> QED
    BY <2>1, <2>2 DEF Sched, Exact, ReadyBitsExact
<1>4. HighestReadyRuns
  <2>1. \A t \in Task : InReadyList(k, t) => IsReady(k, t)
    BY <1>1, ContainsIff DEF InReadyList, IsReady, KernelState
  <2> QED
    BY <2>1 DEF Sched, Urgent, HighestReadyRuns
<1> QED
  BY <1>2, <1>3, <1>4 DEF SchedulerSound

\* In every behaviour in which mutexes are given back by who holds them, and in which
\* no task loses an inherited priority where the scheduler does not look, the bit map
\* of the priorities is exact and whenever the scheduler is free to choose, a most
\* urgent task runs (tasks.c, queue.c); with NestedApps and LateApps of MCKernel
\* it does not.
THEOREM SchedulerKept ==
  Spec /\ []GivenByHolder /\ []GivenAsTaken /\ []GivenToUrgent /\ []GivenUpQuietly
    => []SchedulerSound
<1> DEFINE Inv == KernelInv /\ Sched(k) /\ NumbersTyped
           Promised == GivenByHolder /\ GivenAsTaken /\ GivenToUrgent /\ GivenUpQuietly
<1>1. Init => Inv
  BY InitInv, InitRun, InitNumbers
<1>2. Inv /\ Promised /\ [Next]_vars => Inv'
  <2> SUFFICES ASSUME Inv, Promised, [Next]_vars PROVE Inv'
    OBVIOUS
  <2>1. KernelInv'
    BY NextKeeps
  <2>2. Sched(k)'
    BY NextRun
  <2>3. NumbersTyped'
    BY StepNumbers
  <2> QED
    BY <2>1, <2>2, <2>3
<1>3. Inv => SchedulerSound
  BY SchedImpliesSound
<1> QED
  BY <1>1, <1>2, <1>3, PTL DEF Spec

\* Where no queue is a mutex none of these promises is needed: the queues, semaphores,
\* delays, priorities and interrupts of every application leave the scheduler sound.
THEOREM SchedulerKeptWithoutMutexes ==
  ASSUME \A a \in Apps : \A id \in Queue :
           a.queues[id].kind # "mutex" /\ a.queues[id].holder = NoTask
  PROVE  Spec => []SchedulerSound
<1> DEFINE NoHolder == \A id \in Queue : queue[id].kind # "mutex" /\ queue[id].holder = NoTask
           Inv == KernelInv /\ Sched(k) /\ NumbersTyped /\ NoHolder
           Promised == GivenByHolder /\ GivenAsTaken /\ GivenToUrgent /\ GivenUpQuietly
<1>1. Init => Inv
  <2>1. Init => NoHolder
    BY DEF Init
  <2> QED
    BY <2>1, InitInv, InitRun, InitNumbers
<1>2. Inv => Promised
  <2> SUFFICES ASSUME Inv PROVE Promised
    OBVIOUS
  <2>1. ASSUME NEW t \in Task, NEW ops \in SUBSET (Waits \cup {"give recursive"}), NEW pc,
               Running(t, ops, pc)
        PROVE  Q(t).kind # "mutex" /\ Q(t).holder = NoTask
    <3>1. Call(t).op \in Waits \cup {"give recursive"} /\ IsCall(Call(t), Len(app.calls[t]))
      BY <2>1, RunningRun
    <3>2. Call(t).queue \in Queue
      BY <3>1 DEF IsCall
    <3> QED
      BY <3>2 DEF Q
  <2>2. ASSUME NEW t \in Task
        PROVE  ~GivesMutex(t)
    BY <2>1, <2>2 DEF GivesMutex, Waits
  <2>3. ASSUME NEW t \in Task
        PROVE  /\ Running(t, {"give recursive"}, "start") => Q(t).holder # t
               /\ Running(t, Takes, "disinherit") => Q(t).holder = NoTask
    BY <2>1, <2>3, TaskAssumption DEF Waits, Looks
  <2> QED
    BY <2>2, <2>3 DEF GivenByHolder, GivenAsTaken, GivenToUrgent, GivenUpQuietly
<1>3. Inv /\ [Next]_vars => Inv'
  <2> SUFFICES ASSUME Inv, [Next]_vars PROVE Inv'
    OBVIOUS
  <2>1. Promised
    BY <1>2
  <2>2. KernelInv' /\ Sched(k)' /\ NumbersTyped'
    BY <2>1, NextKeeps, NextRun, StepNumbers
  <2>3. NoHolder'
    <3>1. \A id \in Queue : queue'[id].holder = NoTask
      BY <2>1, StepHolders DEF AllHoldersKept, HolderKept
    <3>2. \A id \in Queue : queue'[id].kind # "mutex"
      BY <2>2 DEF KernelInv, CallsTyped, QueuesTyped
    <3> QED
      BY <3>1, <3>2
  <2> QED
    BY <2>2, <2>3
<1>4. Inv => SchedulerSound
  BY SchedImpliesSound
<1> QED
  BY <1>1, <1>3, <1>4, PTL DEF Spec

-----------------------------------------------------------------------------
(***************************************************************************)
(* Time: each task of a call is woken, or gives up, when it should.        *)
(***************************************************************************)
\* Where a call of a queue has noted the time, and where it has just looked at it.
Timed  == {"suspend", "lock", "check", "test", "inherit", "block"}
Looked == {"test", "inherit", "block"}

\* When the wait of the locals th began, and when it ends.
Begun(th) == th.wait.epoch * TickMod + th.wait.entered
Ends(th)  == Begun(th) + th.wait.left

\* A wait ends when it was to, however often it was counted anew; where the call has
\* just looked it is counted from now.
WaitKept(s, call, th, ends) ==
  /\ th.timed => /\ call.op \in Waits /\ Begun(th) <= Now(s)
                 /\ ends = Ends(th) \/ (th.wait.left = 0 /\ ends <= Now(s))
  /\ th.pc \in Timed \/ th.then = "expired" => th.timed
  /\ th.pc \in Looked =>
       /\ th.wait.left # 0
       /\ th.wait.left = portMAX_DELAY \/ Begun(th) = Now(s)
  /\ th.pc = "suspended" /\ call.op = "delay" => call.ticks # 0

TimeInv ==
  /\ Clocked(k)
  /\ due \in [Task -> Nat]
  /\ \A t \in Task : Delayed(k, t) => due[t] = WakesAt(k, t)
  /\ \A t \in Task : WaitKept(k, Call(t), thread[t], due[t])

-----------------------------------------------------------------------------
(***************************************************************************)
(* What of a step keeps the time.                                          *)
(***************************************************************************)
\* r is s, later, and the same time if the scheduler is suspended in both.  But for
\* those in D no task goes to sleep, and no one that waits for the clock alone is
\* woken before its time, but for those in W.
Lasts(s, r, D, W) ==
  /\ Clocked(r)
  /\ Now(s) <= Now(r)
  /\ s.schedSusp # 0 /\ r.schedSusp # 0 => Now(r) = Now(s)
  /\ \A u \in Task \ D :
       /\ Delayed(r, u) => Delayed(s, u) /\ WakesAt(r, u) = WakesAt(s, u)
       /\ Delayed(s, u) /\ Free(s, u) /\ ~Delayed(r, u) => u \in W \/ WakesAt(s, u) <= Now(r)

\* Time has passed, in one of the ways it does,
LEMMA PassesLasts ==
  ASSUME NEW s \in Good, NEW r \in Good, Clocked(s), NEW W, Passes(s, r, W)
  PROVE  Lasts(s, r, {}, W)
<1>1. Now(s) \in Nat /\ Now(r) \in Nat
  BY TimesTyped DEF Good
<1>2. s.schedSusp # 0 => Now(r) = Now(s)
  BY DEF Passes, Now
<1>3. Now(s) <= Now(r)
  BY <1>1, <1>2 DEF Passes
<1> QED
  BY <1>2, <1>3 DEF Passes, Lasts

\* or some task was made ready, or none.
LEMMA WakesLasts ==
  ASSUME NEW s \in Good, NEW r \in Good, Clocked(s), NEW W, Wakes(s, r, W)
  PROVE  Lasts(s, r, {}, W)
BY WakesPasses, PassesLasts

\* or nobody has been woken.
LEMMA RestsLasts ==
  ASSUME NEW s \in Good, NEW r \in Good, Clocked(s), Rests(s, r)
  PROVE  Lasts(s, r, {}, {})
BY WakesLasts DEF Rests

\* The scheduler is suspended,
LEMMA SuspendAllLasts ==
  ASSUME NEW s \in Good, Clocked(s), s.schedSusp = 0
  PROVE  Lasts(s, vTaskSuspendAll(s), {}, {})
<1> DEFINE r == vTaskSuspendAll(s)
<1>1. /\ r.delayed = s.delayed /\ r.overflow = s.overflow /\ r.wake = s.wake
      /\ r.tick = s.tick /\ r.overflows = s.overflows /\ r.unblock = s.unblock
  BY DEF Good, KernelState, vTaskSuspendAll
<1>2. Now(s) \in Nat
  BY TimesTyped DEF Good
<1> HIDE DEF r
<1>3. Now(r) = Now(s) /\ Clocked(r)
  BY <1>1 DEF Now, Clocked
<1>4. \A u \in Task : (Delayed(r, u) <=> Delayed(s, u)) /\ WakesAt(r, u) = WakesAt(s, u)
  BY <1>1 DEF Delayed, WakesAt
<1> QED
  BY <1>2, <1>3, <1>4 DEF Lasts, r

\* or resumed, with the ticks that have come meanwhile.
LEMMA ResumeAllLasts ==
  ASSUME NEW s \in Good, Clocked(s), s.schedSusp = 1, xTaskResumeAll(s).k \in Good
  PROVE  Lasts(s, xTaskResumeAll(s).k, {}, {})
<1> DEFINE a == [s EXCEPT !.schedSusp = @ - 1]
           r == xTaskResumeAll(s).k
<1>1. Passes(a, r, {})
  BY ResumeAllTimes
<1>2. /\ a.delayed = s.delayed /\ a.overflow = s.overflow /\ a.wake = s.wake
      /\ a.tick = s.tick /\ a.overflows = s.overflows /\ a.unblock = s.unblock
      /\ a.pending = s.pending /\ a.events = s.events /\ a.schedSusp = 0
  BY DEF Good, KernelState
<1> HIDE DEF a, r
<1>3. Clocked(a) /\ Now(a) = Now(s)
  BY <1>2 DEF Clocked, Now
<1>4. \A u \in Task : /\ Delayed(a, u) <=> Delayed(s, u)
                      /\ WakesAt(a, u) = WakesAt(s, u) /\ (Free(a, u) <=> Free(s, u))
  BY <1>2 DEF Delayed, WakesAt, Free
<1>5. r.schedSusp = 0
  BY <1>1, <1>2, <1>3 DEF Passes
<1>6. Lasts(s, r, {}, {})
  BY <1>1, <1>2, <1>3, <1>4, <1>5 DEF Passes, Lasts
<1> QED
  BY <1>6 DEF r

\* or a task goes to sleep.
LEMMA DozesLasts ==
  ASSUME NEW s \in Good, NEW r, Clocked(s), NEW t, NEW ticks, NEW forever,
         Dozes(s, r, t, ticks, forever)
  PROVE  Lasts(s, r, {t}, {})
<1>1. Now(s) \in Nat
  BY TimesTyped DEF Good
<1>2. Now(r) = Now(s)
  BY DEF Dozes, Now
<1> QED
  BY <1>1, <1>2 DEF Dozes, Lasts

\* Nothing happens.
LEMMA ItselfLasts ==
  ASSUME NEW s \in Good, Clocked(s)
  PROVE  Lasts(s, s, {}, {})
BY RestsItself, RestsLasts

-----------------------------------------------------------------------------
\* The delayed lists of the history are those of the proof.
LEMMA DelayedIff ==
  ASSUME NEW s \in Good, NEW t \in Task
  PROVE  InDelayedList(s, t) <=> Delayed(s, t)
<1>1. s.delayed \in Seq(Task) /\ s.overflow \in Seq(Task)
  BY DEF Good, KernelState
<1> QED
  BY <1>1, ContainsIff DEF InDelayedList, Delayed

\* Nor is the time another.
LEMMA KernelTimeIsNow == \A s : KernelTime(s) = Now(s)
BY DEF KernelTime, Now

\* The history of a step: what ends a sleep is what was to end it, if not the step
\* has begun it, and the end of a wait stays what it was.
LEMMA HistoryKept ==
  ASSUME KernelInv, KernelInv', TimeInv, NEW n \in Nat, RecordWait(n),
         NEW D, NEW W, Lasts(k, k', D, W),
         \A u \in D : Delayed(k', u) => due'[u] = WakesAt(k', u),
         \A u \in Task : WaitBegins(u) => ~Delayed(k', u)
  PROVE  /\ due' \in [Task -> Nat]
         /\ \A u \in Task : Delayed(k', u) => due'[u] = WakesAt(k', u)
         /\ \A u \in Task : thread[u].timed /\ thread'[u].timed => due'[u] = due[u]
<1>1. due' \in [Task -> Nat]
  BY RecordWaitTyped DEF TimeInv
<1>2. \A u \in Task : (InDelayedList(k, u) <=> Delayed(k, u))
                      /\ (InDelayedList(k', u) <=> Delayed(k', u))
  BY DelayedIff DEF KernelInv
<1>3. \A u \in Task : ~WaitBegins(u) /\ ~DelayBegins(u) /\ (thread'[u].timed \/ InDelayedList(k', u))
                        => due'[u] = due[u]
  BY DEF RecordWait
<1>4. \A u \in Task \ D : Delayed(k', u) => due'[u] = WakesAt(k', u)
  BY <1>2, <1>3 DEF DelayBegins, Lasts, TimeInv
<1> QED
  BY <1>1, <1>3, <1>4 DEF WaitBegins, DelayBegins

\* A step wakes no task that waits for the clock alone before its time, unless the
\* running task is told to.
InTime ==
  \A u \in Task :
    Delayed(k, u) /\ Free(k, u) /\ ~Delayed(k', u) =>
      WakesAt(k, u) <= Now(k') \/ Call(k.current).op \in {"suspend", "abort"}

\* The running task t goes on with the locals th.
Going(t, th) ==
  /\ t = k.current /\ app.calls[t] # <<>> /\ app' = app
  /\ thread' = [thread EXCEPT ![t] = th]

\* The waits of the others are kept.
LEMMA OtherWaitsKept ==
  ASSUME KernelInv, KernelInv', TimeInv, NEW u \in Task, app' = app, thread'[u] = thread[u],
         thread[u].pc \in Locked => Now(k') = Now(k),
         Now(k) <= Now(k'), thread[u].timed => due'[u] = due[u]
  PROVE  WaitKept(k, Call(u), thread[u], due[u])'
<1>1. Call(u)' = Call(u)
  BY DEF Call
<1>2. WaitKept(k, Call(u), thread[u], due[u])
  BY DEF TimeInv
<1>3. Now(k) \in Int /\ Now(k') \in Int
  BY TimesTyped DEF KernelInv, Good
<1>4. thread[u].timed => Begun(thread[u]) \in Int /\ due[u] \in Int
  <2>1. thread[u] \in ThreadState
    BY DEF KernelInv, CallsTyped
  <2>2. thread[u].wait.epoch * TickMod \in Int /\ thread[u].wait.entered \in Int
    BY <2>1, TaskAssumption DEF ThreadState, Ticks
  <2>3. due[u] \in Int
    BY DEF TimeInv
  <2> QED
    BY <2>2, <2>3 DEF Begun
<1>5. thread[u].pc \in Looked => Now(k') = Now(k)
  BY DEF Looked, Locked
<1> DEFINE call == Call(u)
           th == thread[u]
           begun == Begun(th)
           now == Now(k)
           then == Now(k')
           ends == due[u]
<1>6. WaitKept(k', call, th, due'[u])
  <2>1. th.timed => /\ call.op \in Waits /\ begun <= then
                    /\ due'[u] = Ends(th) \/ (th.wait.left = 0 /\ due'[u] <= then)
    <3> SUFFICES ASSUME th.timed
                 PROVE  /\ call.op \in Waits /\ begun <= then
                        /\ due'[u] = Ends(th) \/ (th.wait.left = 0 /\ due'[u] <= then)
      OBVIOUS
    <3>1. /\ call.op \in Waits /\ begun <= now
          /\ ends = Ends(th) \/ (th.wait.left = 0 /\ ends <= now)
      BY <1>2 DEF WaitKept
    <3>2. now \in Int /\ then \in Int /\ begun \in Int /\ ends \in Int /\ now <= then
      BY <1>3, <1>4
    <3>3. due'[u] = ends
      OBVIOUS
    <3> HIDE DEF call, th, begun, now, then, ends
    <3> QED
      BY <3>1, <3>2, <3>3
  <2>2. th.pc \in Looked =>
          th.wait.left # 0 /\ (th.wait.left = portMAX_DELAY \/ Begun(th) = then)
    BY <1>2, <1>5 DEF WaitKept
  <2> HIDE DEF call, th
  <2> QED
    BY <1>2, <2>1, <2>2 DEF WaitKept, call, th
<1> QED
  BY <1>1, <1>6

\* A step of the running task: what it has to show.
LEMMA StepInTime ==
  ASSUME KernelInv, KernelInv', TimeInv, NEW t \in Task, NEW th, Going(t, th),
         NEW n \in Nat, RecordWait(n), NEW D, NEW W, Lasts(k, k', D, W),
         \A u \in D : ~Delayed(k, u) /\ (Delayed(k', u) => due'[u] = WakesAt(k', u)),
         WaitBegins(t) => ~Delayed(k', t),
         W = {} \/ Call(t).op \in {"suspend", "abort"},
         WaitKept(k', app.calls[t][th.at], th, due'[t])
  PROVE  TimeInv' /\ InTime
<1>1. /\ thread'[t] = th /\ \A u \in Task \ {t} : thread'[u] = thread[u]
      /\ app' = app /\ t = k.current
  BY DEF KernelInv, CallsTyped, Going
<1>2. \A u \in Task : WaitBegins(u) => ~Delayed(k', u)
  BY <1>1 DEF WaitBegins
<1>3. /\ due' \in [Task -> Nat]
      /\ \A u \in Task : Delayed(k', u) => due'[u] = WakesAt(k', u)
      /\ \A u \in Task : thread[u].timed /\ thread'[u].timed => due'[u] = due[u]
  BY <1>2, HistoryKept
<1>4. \A u \in Task : WaitKept(k, Call(u), thread[u], due[u])'
  <2> SUFFICES ASSUME NEW u \in Task PROVE WaitKept(k, Call(u), thread[u], due[u])'
    OBVIOUS
  <2>1. CASE u = t
    BY <1>1, <2>1 DEF Call
  <2>2. CASE u # t
    <3>1. thread[u].pc \notin Locked
      BY <1>1, <2>2 DEF KernelInv, SuspendedByRunning
    <3>2. Now(k) <= Now(k')
      BY DEF Lasts
    <3> QED
      BY <1>1, <1>3, <2>2, <3>1, <3>2, OtherWaitsKept
  <2> QED
    BY <2>1, <2>2
<1>5. TimeInv'
  BY <1>3, <1>4 DEF TimeInv, Lasts
<1>6. InTime
  BY <1>1 DEF InTime, Lasts
<1> QED
  BY <1>5, <1>6

\* The ticks that a step of a call records are a number.
LEMMA RecordDueIs ==
  ASSUME KernelInv, k.current \in Task, RecordDue
  PROVE  \E n \in Nat : RecordWait(n)
<1> DEFINE t == k.current
           timed == app.calls[t] # <<>> /\ Call(t).op \in Waits \cup {"delay", "until"}
           ticks == IF timed THEN Call(t).ticks ELSE 0
<1>1. RecordWait(ticks)
  BY DEF RecordDue
<1>2. timed => Call(t).ticks \in Nat
  <2> SUFFICES ASSUME timed PROVE Call(t).ticks \in Nat
    OBVIOUS
  <2>1. CallsTyped
    BY DEF KernelInv
  <2>2. IsCall(Call(t), Len(app.calls[t]))
    BY <2>1, AppTyped
  <2>3. Call(t).ticks \in Ticks
    BY <2>2 DEF IsCall
  <2>4. \A n \in Ticks : n \in Nat
    BY TaskAssumption DEF Ticks
  <2> HIDE DEF t
  <2> QED
    BY <2>3, <2>4
<1> HIDE DEF timed
<1>3. ticks \in Nat
  BY <1>2
<1> HIDE DEF ticks
<1> QED
  BY <1>1, <1>3

\* A call begins: it has waited for nothing yet.
LEMMA BeginsInTime ==
  ASSUME KernelInv, KernelInv', TimeInv, NEW t \in Task, t = k.current, app.calls[t] # <<>>,
         app' = app, Return(t) \/ Fail(t), RecordDue, NEW W, Lasts(k, k', {}, W),
         W = {} \/ Call(t).op \in {"suspend", "abort"}
  PROVE  TimeInv' /\ InTime
<1> DEFINE th == thread'[t]
<1>1. PICK at, previous, rounds : thread' = [thread EXCEPT ![t] = Begin(at, previous, rounds)]
  BY DEF Return, Fail
<1>2. th = Begin(at, previous, rounds)
  BY <1>1 DEF KernelInv, CallsTyped
<1>3. th.timed = FALSE /\ th.pc = "start" /\ th.then = "retry"
  BY <1>2 DEF Begin
<1>4. Going(t, th)
  BY <1>1, <1>2 DEF Going
<1>5. PICK n \in Nat : RecordWait(n)
  BY RecordDueIs
<1>6. ~WaitBegins(t)
  BY <1>3 DEF WaitBegins
<1>7. WaitKept(k', app.calls[t][th.at], th, due'[t])
  BY <1>3 DEF WaitKept, Timed, Looked
<1> HIDE DEF th
<1> QED
  BY <1>4, <1>5, <1>6, <1>7, StepInTime

\* A call goes on where it has not just looked at the time, or already had.
LEMMA GoesOnInTime ==
  ASSUME KernelInv, KernelInv', TimeInv, NEW t \in Task, NEW th, Going(t, th),
         th.at = thread[t].at, th.timed = thread[t].timed, th.wait = thread[t].wait,
         th.then # "expired" \/ th.then = thread[t].then,
         th.pc \in Timed => thread[t].pc \in Timed,
         th.pc \in Looked => thread[t].pc \in Looked,
         th.pc = "suspended" /\ Call(t).op = "delay" => Call(t).ticks # 0,
         RecordDue, NEW W, Lasts(k, k', {}, W), W = {} \/ Call(t).op \in {"suspend", "abort"}
  PROVE  TimeInv' /\ InTime
<1>1. PICK n \in Nat : RecordWait(n)
  BY RecordDueIs DEF Going
<1>2. thread'[t] = th /\ t = k.current /\ app' = app
  BY DEF Going, KernelInv, CallsTyped
<1>3. ~WaitBegins(t)
  BY <1>2 DEF WaitBegins
<1>a. \A u \in Task \ {t} : thread'[u] = thread[u]
  BY DEF Going, KernelInv, CallsTyped
<1>b. \A u \in Task : ~WaitBegins(u)
  BY <1>3, <1>a DEF WaitBegins
<1>c. \A u \in Task : thread[u].timed /\ thread'[u].timed => due'[u] = due[u]
  BY <1>1, <1>b, HistoryKept
<1>4. thread[t].timed => due'[t] = due[t]
  BY <1>2, <1>c
<1>5. WaitKept(k, Call(t), thread[t], due[t])
  BY DEF TimeInv
<1>6. WaitKept(k', Call(t), th, due'[t])
  <2> DEFINE s == thread[t]
             call == Call(t)
  <2>1. Begun(th) = Begun(s) /\ Ends(th) = Ends(s)
    BY DEF Begun, Ends
  <2>2. s.timed => /\ Begun(s) \in Int /\ due[t] \in Int /\ Now(k) \in Int /\ Now(k') \in Int
                   /\ Now(k) <= Now(k')
    <3>1. Now(k) \in Int /\ Now(k') \in Int
      BY TimesTyped DEF KernelInv, Good
    <3>2. s.wait.epoch * TickMod \in Int /\ s.wait.entered \in Int
      BY TaskAssumption DEF ThreadState, Ticks, KernelInv, CallsTyped
    <3> QED
      BY <3>1, <3>2 DEF Begun, TimeInv, Lasts
  <2>3. th.timed => /\ call.op \in Waits /\ Begun(th) <= Now(k')
                    /\ due'[t] = Ends(th) \/ (th.wait.left = 0 /\ due'[t] <= Now(k'))
    <3> SUFFICES ASSUME th.timed
                 PROVE  /\ call.op \in Waits /\ Begun(th) <= Now(k')
                        /\ due'[t] = Ends(th) \/ (th.wait.left = 0 /\ due'[t] <= Now(k'))
      OBVIOUS
    <3>1. /\ call.op \in Waits /\ Begun(s) <= Now(k)
          /\ due[t] = Ends(s) \/ (th.wait.left = 0 /\ due[t] <= Now(k))
      BY <1>5 DEF WaitKept
    <3> HIDE DEF s, call
    <3> QED
      BY <1>4, <2>1, <2>2, <3>1 DEF s
  <2>4. th.pc \in Looked => Now(k') = Now(k)
    <3> SUFFICES ASSUME th.pc \in Looked PROVE Now(k') = Now(k)
      OBVIOUS
    <3>1. s.pc \in Locked /\ th.pc \in Locked
      BY DEF Looked, Locked
    <3>2. k.schedSusp = 1
      BY <1>2, <3>1 DEF KernelInv, SuspendedByRunning
    <3>3. k'.schedSusp = 1
      BY <1>2, <3>1 DEF KernelInv, SuspendedByRunning
    <3> QED
      BY <3>2, <3>3 DEF Lasts
  <2>5. th.pc \in Looked =>
          th.wait.left # 0 /\ (th.wait.left = portMAX_DELAY \/ Begun(th) = Now(k'))
    BY <1>5, <2>1, <2>4 DEF WaitKept
  <2>6. th.pc \in Timed \/ th.then = "expired" => th.timed
    BY <1>5 DEF WaitKept
  <2> HIDE DEF s
  <2> QED
    BY <2>3, <2>5, <2>6 DEF WaitKept
<1>7. app.calls[t][th.at] = Call(t)
  BY DEF Call
<1> QED
  BY <1>1, <1>3, <1>6, <1>7, StepInTime

\* A step that only goes elsewhere in the same call.
LEMMA GotoInTime ==
  ASSUME KernelInv, KernelInv', TimeInv, NEW t \in Task, t = k.current, app.calls[t] # <<>>,
         app' = app, NEW pc, Goto(t, pc),
         pc \in Timed => thread[t].pc \in Timed, pc \in Looked => thread[t].pc \in Looked,
         pc = "suspended" /\ Call(t).op = "delay" => Call(t).ticks # 0,
         RecordDue, NEW W, Lasts(k, k', {}, W), W = {} \/ Call(t).op \in {"suspend", "abort"}
  PROVE  TimeInv' /\ InTime
<1> DEFINE th == [thread[t] EXCEPT !.pc = pc]
<1>1. thread[t] \in ThreadState
  BY DEF KernelInv, CallsTyped
<1>2. /\ th.pc = pc /\ th.at = thread[t].at /\ th.timed = thread[t].timed
      /\ th.wait = thread[t].wait /\ th.then = thread[t].then
  BY <1>1 DEF ThreadState
<1>3. Going(t, th)
  BY DEF Goto, Going, KernelInv, CallsTyped
<1> HIDE DEF th
<1> QED
  BY <1>2, <1>3, GoesOnInTime

\* What the guard of an action says, beside what it says of the lists.
LEMMA RunningTimes ==
  ASSUME KernelInv, TimeInv, NEW t \in Task, NEW ops, NEW pc, Running(t, ops, pc)
  PROVE  /\ t = k.current /\ k.current \in Task /\ app.calls[t] # <<>> /\ Call(t).op \in ops
         /\ thread[t].pc = pc /\ thread[t] \in ThreadState /\ k \in Good /\ Clocked(k)
         /\ IsCall(Call(t), Len(app.calls[t]))
         /\ k.schedSusp = IF pc \in Locked THEN 1 ELSE 0
         /\ pc \in Awake => IsReady(k, t)
         /\ WaitKept(k, Call(t), thread[t], due[t])
BY RunningFacts, RunningRun DEF TimeInv

\* A queue of a call, and its item.
LEMMA TransferTimes ==
  ASSUME KernelInv, TimeInv, GivenByHolder, NEW t \in Task, Transfer(t)
  PROVE  Rests(k, k')
<1> DEFINE call == Call(t)
           q == Q(t)
           id == call.queue
<1>1. Running(t, Waits, "start") /\ CanGo(t)
  BY DEF Transfer
<1>2. /\ t = k.current /\ k.current \in Task /\ call.op \in Waits /\ thread[t] \in ThreadState
      /\ IsCall(call, Len(app.calls[t])) /\ k \in Good /\ IsReady(k, t)
  BY <1>1, RunningTimes DEF Awake
<1>3. id \in Queue /\ q \in AnyQueue
  BY <1>2, QueueOfCall DEF IsCall
<1>4. CASE call.op \in Sends
  <2> DEFINE r == SendWithRoom(k, q, id, ItemSent(t), call.position)
  <2>1. ItemSent(t) \in Item /\ call.position \in Position
    BY <1>2, <1>4 DEF ItemSent, IsCall, ThreadState
  <2>2. HeldBy(k, q, t)
    <3>1. Running(t, Sends, "start")
      BY <1>1, <1>4 DEF Running
    <3> QED
      BY <1>1, <3>1 DEF GivenByHolder, GivesMutex, HeldBy
  <2>3. Rests(k, r.k)
    BY <1>2, <1>3, <2>1, <2>2, SendWithRoomTimes
  <2>4. k' = r.k
    BY <1>4 DEF Transfer, Sends, Commit
  <2> QED
    BY <2>3, <2>4
<1>5. CASE call.op \in Looks
  <2>1. \A n : Rests(k, TakeItem(k, q, id, n).k)
    BY <1>2, <1>3, TakeItemTimes
  <2>2. Rests(k, PeekItem(k, q, id).k)
    BY <1>2, <1>3, QueueTimes
  <2>3. \/ k' = TakeItem(k, q, id, 0).k \/ k' = TakeItem(k, q, id, 1).k
        \/ k' = PeekItem(k, q, id).k
    <3>1. CASE call.op = "receive"
      BY <3>1 DEF Transfer, Sends, Commit
    <3>2. CASE call.op = "take recursive"
      BY <3>2 DEF Transfer, Sends, Commit
    <3>3. CASE call.op = "peek"
      BY <3>3 DEF Transfer, Sends, Commit
    <3> QED
      BY <1>5, <3>1, <3>2, <3>3 DEF Looks, Takes
  <2> QED
    BY <2>1, <2>2, <2>3
<1> QED
  BY <1>2, <1>4, <1>5 DEF Waits

\* xQueueGiveMutexRecursive
LEMMA GiveRecursiveTimes ==
  ASSUME KernelInv, TimeInv, GivenByHolder, NEW t \in Task, GiveRecursive(t)
  PROVE  Rests(k, k') /\ (Return(t) \/ Fail(t))
<1> DEFINE ops == {"give recursive"}
<1>1. Running(t, ops, "start")
  BY DEF GiveRecursive
<1> HIDE DEF ops
<1>2. /\ t = k.current /\ thread[t].pc = "start" /\ IsReady(k, t) /\ k \in Good
      /\ Call(t).op \in ops /\ IsCall(Call(t), Len(app.calls[t]))
  BY <1>1, RunningTimes DEF Awake
<1> DEFINE q == Q(t)
           less == [q EXCEPT !.recursion = @ - 1]
           given == SendWithRoom(k, less, Call(t).queue, Call(t).item, "back")
<1>3. Call(t).queue \in Queue /\ Call(t).item \in Item
  BY <1>2 DEF IsCall, ops
<1>a. q \in AnyQueue
  BY <1>3, QueueOfCall
<1>4. less \in AnyQueue /\ less.kind = q.kind /\ less.holder = q.holder
      /\ (less.recursion = 0 => q.recursion = 1)
  BY <1>a, RecursionTyped
<1>5. CASE ~(q.holder = t /\ less.recursion = 0)
  <2>1. k' = k /\ (Return(t) \/ Fail(t))
    BY <1>5 DEF GiveRecursive, Commit
  <2> QED
    BY <2>1, RestsItself
<1>6. CASE q.holder = t /\ less.recursion = 0
  <2>1. k' = given.k /\ Return(t)
    BY <1>6 DEF GiveRecursive, Commit
  <2>2. q.kind = "mutex" => k.held[t] > 0
    BY <1>1, <1>4, <1>6, TaskAssumption DEF GivenByHolder, GivesMutex, ops
  <2> HIDE DEF less
  <2>3. HeldBy(k, less, t) /\ "back" \in Position
    BY <1>4, <1>6, <2>2 DEF HeldBy, Position
  <2>4. Rests(k, given.k)
    BY <1>2, <1>3, <1>4, <2>3, SendWithRoomTimes
  <2> QED
    BY <2>1, <2>4
<1> QED
  BY <1>5, <1>6

\* The other steps of a call that begin the next one.
LEMMA ReturningInTime ==
  ASSUME KernelInv, KernelInv', TimeInv, GivenByHolder, NEW t \in Task,
         \/ Transfer(t) \/ TransferFails(t) \/ Disinherit(t) \/ TakeAgain(t)
         \/ GiveRecursive(t) \/ Reset(t) \/ Resume(t) \/ PrioritySet(t) \/ YieldAndReturn(t)
  PROVE  TimeInv' /\ InTime
<1> DEFINE Does == app' = app /\ RecordDue /\ (Return(t) \/ Fail(t)) /\ Rests(k, k')
<1>1. k \in Good /\ k' \in Good /\ Clocked(k)
  BY DEF KernelInv, TimeInv
<1>2. ASSUME NEW ops, NEW pc, Running(t, ops, pc), Does
      PROVE  TimeInv' /\ InTime
  <2>1. t = k.current /\ app.calls[t] # <<>>
    BY <1>2 DEF Running
  <2>2. Lasts(k, k', {}, {})
    BY <1>1, <1>2, RestsLasts
  <2> QED
    BY <1>2, <2>1, <2>2, BeginsInTime
<1>3. CASE Transfer(t)
  <2>1. Running(t, Waits, "start") /\ Does
    BY <1>3, TransferTimes DEF Transfer
  <2> HIDE DEF Does
  <2> QED
    BY <1>2, <2>1
<1>4. CASE TransferFails(t)
  <2>1. Running(t, Waits, "start") /\ Does
    BY <1>4, RestsItself DEF TransferFails
  <2> HIDE DEF Does
  <2> QED
    BY <1>2, <2>1
<1>5. CASE Disinherit(t)
  <2>1. /\ Running(t, Takes, "disinherit") /\ app' = app /\ RecordDue /\ Fail(t)
        /\ k' = vTaskPriorityDisinheritAfterTimeout(
                  k, Q(t).holder, HighestWaiting(k, Call(t).queue))
    BY <1>5 DEF Disinherit
  <2>2. Call(t).op \in Takes /\ IsCall(Call(t), Len(app.calls[t]))
    BY <2>1, RunningTimes
  <2>3. Call(t).queue \in Queue
    BY <2>2 DEF IsCall, Waits, Looks
  <2>a. Q(t) \in AnyQueue
    BY <2>3, QueueOfCall
  <2>4. Q(t).holder \in Task \cup {NoTask}
    BY <2>a DEF AnyQueue
  <2>5. HighestWaiting(k, Call(t).queue) \in Priority
    BY <1>1, <2>3, HighestWaitingTyped
  <2>6. Rests(k, k')
    BY <1>1, <2>1, <2>4, <2>5, DisinheritAfterTimeoutTimes
  <2>7. Does
    BY <2>1, <2>6
  <2> HIDE DEF Does
  <2> QED
    BY <1>2, <2>1, <2>7
<1>6. CASE TakeAgain(t)
  <2> DEFINE ops == {"take recursive"}
  <2>1. Running(t, ops, "start") /\ Does
    BY <1>6, RestsItself DEF TakeAgain, Commit
  <2> HIDE DEF Does, ops
  <2> QED
    BY <1>2, <2>1
<1>7. CASE GiveRecursive(t)
  <2> DEFINE ops == {"give recursive"}
  <2>1. Running(t, ops, "start") /\ Does
    BY <1>7, GiveRecursiveTimes DEF GiveRecursive
  <2> HIDE DEF Does, ops
  <2> QED
    BY <1>2, <2>1
<1>8. CASE Reset(t)
  <2>1. /\ Running(t, {"reset"}, "start") /\ app' = app /\ RecordDue /\ Return(t)
        /\ k' = xQueueGenericReset(k, Q(t), Call(t).queue).k
    BY <1>8 DEF Reset, Commit
  <2>2. Call(t).op = "reset" /\ IsCall(Call(t), Len(app.calls[t]))
    BY <2>1, RunningTimes
  <2>3. Call(t).queue \in Queue
    BY <2>2 DEF IsCall
  <2>4. Rests(k, k')
    BY <1>1, <2>1, <2>3, QueueOfCall, QueueTimes
  <2>5. Does
    BY <2>1, <2>4
  <2> HIDE DEF Does
  <2> QED
    BY <1>2, <2>1, <2>5
<1>9. CASE Resume(t)
  <2>1. /\ Running(t, {"resume"}, "start") /\ app' = app /\ RecordDue /\ Return(t)
        /\ k' = vTaskResume(k, Call(t).task)
    BY <1>9 DEF Resume
  <2>2. Call(t).op = "resume" /\ IsCall(Call(t), Len(app.calls[t]))
    BY <2>1, RunningTimes
  <2>3. Call(t).task \in Task
    BY <2>2 DEF IsCall
  <2>5. Does
    BY <1>1, <2>1, <2>3, ResumeTimes
  <2> HIDE DEF Does
  <2> QED
    BY <1>2, <2>1, <2>5
<1>10. CASE PrioritySet(t)
  <2>1. /\ Running(t, {"priority"}, "start") /\ app' = app /\ RecordDue /\ Return(t)
        /\ k' = vTaskPrioritySet(k, Call(t).task, Call(t).prio)
    BY <1>10 DEF PrioritySet
  <2>2. Call(t).op = "priority" /\ IsCall(Call(t), Len(app.calls[t]))
    BY <2>1, RunningTimes
  <2>3. Call(t).task \in Task /\ Call(t).prio \in Priority
    BY <2>2 DEF IsCall
  <2>5. Does
    BY <1>1, <2>1, <2>3, PrioritySetTimes
  <2> HIDE DEF Does
  <2> QED
    BY <1>2, <2>1, <2>5
<1>11. CASE YieldAndReturn(t)
  <2>1. /\ Running(t, {"delay", "until", "suspend"}, "yield") /\ app' = app /\ RecordDue /\ Return(t)
        /\ k' = vTaskSwitchContext(k)
    BY <1>11 DEF YieldAndReturn
  <2>2. Does
    BY <1>1, <2>1, SwitchTimes, SameSleepRests DEF Good
  <2> HIDE DEF Does
  <2> QED
    BY <1>2, <2>1, <2>2
<1> QED
  BY <1>3, <1>4, <1>5, <1>6, <1>7, <1>8, <1>9, <1>10, <1>11

\* What is said of the kernel before and after a step.
LEMMA GoodAndClocked ==
  ASSUME KernelInv, KernelInv', TimeInv
  PROVE  k \in Good /\ k' \in Good /\ k \in KernelState /\ Clocked(k)
BY DEF KernelInv, TimeInv, Good

\* vTaskSuspendAll, prvLockQueue, the test of the queue, its unlocking.
LEMMA LockedInTime ==
  ASSUME KernelInv, KernelInv', TimeInv, NEW t \in Task,
         \/ SuspendScheduler(t) \/ LockQueue(t) \/ TestQueue(t)
         \/ UnlockSenders(t) \/ UnlockReceivers(t)
  PROVE  TimeInv' /\ InTime
<1>1. k \in Good /\ k' \in Good /\ Clocked(k)
  BY GoodAndClocked
<1>2. ASSUME NEW ops, NEW pc, Running(t, ops, pc), NEW next, Goto(t, next), app' = app, RecordDue,
             next \in Timed => pc \in Timed, next \in Looked => pc \in Looked,
             next # "suspended", Lasts(k, k', {}, {})
      PROVE  TimeInv' /\ InTime
  <2>1. t = k.current /\ app.calls[t] # <<>> /\ thread[t].pc = pc
    BY <1>2 DEF Running
  <2> QED
    BY <1>2, <2>1, GotoInTime
<1>3. CASE SuspendScheduler(t)
  <2>1. /\ Running(t, Waits, "suspend") /\ Goto(t, "lock") /\ app' = app /\ RecordDue
        /\ k' = vTaskSuspendAll(k)
    BY <1>3 DEF SuspendScheduler
  <2>2. k.schedSusp = 0
    BY <2>1, RunningTimes DEF Locked
  <2>3. Lasts(k, k', {}, {})
    BY <1>1, <2>1, <2>2, SuspendAllLasts
  <2> QED
    BY <1>2, <2>1, <2>3 DEF Timed, Looked
<1>4. CASE LockQueue(t)
  <2>1. Running(t, Waits, "lock") /\ Goto(t, "check") /\ app' = app /\ RecordDue /\ k' = k
    BY <1>4 DEF LockQueue, Commit
  <2>2. Lasts(k, k', {}, {})
    BY <1>1, <2>1, ItselfLasts
  <2> QED
    BY <1>2, <2>1, <2>2 DEF Timed, Looked
<1>5. CASE TestQueue(t)
  <2>1. /\ Running(t, Waits, "test") /\ app' = app /\ RecordDue /\ k' = k
        /\ Goto(t, "unlockTx") \/ Goto(t, "inherit") \/ Goto(t, "block")
    BY <1>5 DEF TestQueue
  <2>2. Lasts(k, k', {}, {})
    BY <1>1, <2>1, ItselfLasts
  <2> QED
    BY <1>2, <2>1, <2>2 DEF Timed, Looked
<1>6. CASE UnlockSenders(t)
  <2>1. /\ Running(t, Waits, "unlockTx") /\ Goto(t, "unlockRx") /\ app' = app /\ RecordDue
        /\ k' = UnlockTx(k, Q(t), Call(t).queue).k
    BY <1>6 DEF UnlockSenders, Commit
  <2>2. Call(t).op \in Waits /\ IsCall(Call(t), Len(app.calls[t]))
    BY <2>1, RunningTimes
  <2>3. Call(t).queue \in Queue
    BY <2>2 DEF IsCall
  <2>4. Rests(k, k')
    BY <1>1, <2>1, <2>3, QueueOfCall, QueueTimes
  <2>5. Lasts(k, k', {}, {})
    BY <1>1, <2>4, RestsLasts
  <2> QED
    BY <1>2, <2>1, <2>5 DEF Timed, Looked
<1>7. CASE UnlockReceivers(t)
  <2>1. /\ Running(t, Waits, "unlockRx") /\ Goto(t, "resume") /\ app' = app /\ RecordDue
        /\ k' = UnlockRx(k, Q(t), Call(t).queue).k
    BY <1>7 DEF UnlockReceivers, Commit
  <2>2. Call(t).op \in Waits /\ IsCall(Call(t), Len(app.calls[t]))
    BY <2>1, RunningTimes
  <2>3. Call(t).queue \in Queue
    BY <2>2 DEF IsCall
  <2>4. Rests(k, k')
    BY <1>1, <2>1, <2>3, QueueOfCall, QueueTimes
  <2>5. Lasts(k, k', {}, {})
    BY <1>1, <2>4, RestsLasts
  <2> QED
    BY <1>2, <2>1, <2>5 DEF Timed, Looked
<1> QED
  BY <1>3, <1>4, <1>5, <1>6, <1>7

\* xTaskPriorityInherit
LEMMA InheritInTime ==
  ASSUME KernelInv, KernelInv', TimeInv, NEW t \in Task, Inherit(t)
  PROVE  TimeInv' /\ InTime
<1> DEFINE raised == xTaskPriorityInherit(k, Q(t).holder)
           yes == raised.yes
           th == [thread[t] EXCEPT !.pc = "block", !.inherited = yes]
<1>1. /\ Running(t, Takes, "inherit") /\ app' = app /\ k' = raised.k /\ RecordDue
      /\ thread' = [thread EXCEPT ![t].pc = "block", ![t].inherited = yes]
  BY DEF Inherit
<1>2. /\ t = k.current /\ k.current \in Task /\ app.calls[t] # <<>> /\ thread[t].pc = "inherit"
      /\ k \in Good /\ Call(t).op \in Takes /\ IsCall(Call(t), Len(app.calls[t]))
      /\ thread[t] \in ThreadState
  BY <1>1, RunningTimes
<1>3. Call(t).queue \in Queue
  BY <1>2 DEF IsCall, Waits, Looks
<1>4. Q(t).holder \in Task \cup {NoTask}
  <2>1. Q(t) \in AnyQueue
    BY <1>3, QueueOfCall
  <2> QED
    BY <2>1 DEF AnyQueue
<1>5. Rests(k, k')
  BY <1>1, <1>2, <1>4, InheritTimes
<1>6. Lasts(k, k', {}, {})
  BY <1>5, GoodAndClocked, RestsLasts
<1> HIDE DEF yes
<1>7. Going(t, th)
  BY <1>1, <1>2 DEF Going, KernelInv, CallsTyped
<1>8. /\ th.pc = "block" /\ th.at = thread[t].at /\ th.timed = thread[t].timed
      /\ th.wait = thread[t].wait /\ th.then = thread[t].then
  BY <1>2 DEF ThreadState
<1> HIDE DEF th
<1> QED
  BY <1>1, <1>2, <1>6, <1>7, <1>8, GoesOnInTime DEF Timed, Looked

\* xTaskResumeAll, at the end of a wait or of a call of a task.
LEMMA ResumingInTime ==
  ASSUME KernelInv, KernelInv', TimeInv, NEW t \in Task, ResumeScheduler(t) \/ EndSuspended(t)
  PROVE  TimeInv' /\ InTime
<1> DEFINE resumed == xTaskResumeAll(k)
<1>1. /\ app' = app /\ k' = resumed.k /\ RecordDue
      /\ Running(t, Waits, "resume") \/ Running(t, {"delay", "until", "abort"}, "resume")
      /\ \/ Return(t) \/ Fail(t) \/ Goto(t, "start") \/ Goto(t, "yield") \/ Goto(t, "expired")
  <2>1. CASE ResumeScheduler(t)
    <3>1. Running(t, Waits, "resume") /\ app' = app /\ k' = resumed.k /\ RecordDue
      BY <2>1 DEF ResumeScheduler
    <3>2. thread[t].then \in {"blocked", "retry", "expired"}
      BY <3>1, RunningTimes DEF ThreadState
    <3>3. Fail(t) \/ Goto(t, "start") \/ Goto(t, "yield") \/ Goto(t, "expired")
      <4>1. CASE thread[t].then = "blocked"
        BY <2>1, <4>1 DEF ResumeScheduler
      <4>2. CASE thread[t].then = "retry"
        BY <2>1, <4>2 DEF ResumeScheduler
      <4>3. CASE thread[t].then = "expired"
        BY <2>1, <4>3 DEF ResumeScheduler
      <4> QED
        BY <3>2, <4>1, <4>2, <4>3
    <3> QED
      BY <3>1, <3>3
  <2>2. CASE EndSuspended(t)
    BY <2>2 DEF EndSuspended
  <2> QED
    BY <2>1, <2>2
<1>2. t = k.current /\ app.calls[t] # <<>> /\ thread[t].pc = "resume" /\ k.schedSusp = 1
  BY <1>1, RunningTimes DEF Locked
<1>3. Lasts(k, k', {}, {})
  BY <1>1, <1>2, GoodAndClocked, ResumeAllLasts
<1> HIDE DEF resumed
<1>4. ASSUME NEW pc \in {"start", "yield", "expired"}, Goto(t, pc)
      PROVE  TimeInv' /\ InTime
  <2>1. pc \notin Timed /\ pc \notin Looked /\ pc # "suspended"
    BY <1>4 DEF Timed, Looked
  <2> QED
    BY <1>1, <1>2, <1>3, <1>4, <2>1, GotoInTime
<1>5. CASE Return(t) \/ Fail(t)
  BY <1>1, <1>2, <1>3, <1>5, BeginsInTime
<1> QED
  BY <1>1, <1>4, <1>5

\* A yield in a wait, and the last look at the queue.
LEMMA YieldInTime ==
  ASSUME KernelInv, KernelInv', TimeInv, NEW t \in Task, Yield(t) \/ Expired(t)
  PROVE  TimeInv' /\ InTime
<1>1. /\ app' = app /\ RecordDue
      /\ k' = k \/ k' = vTaskSwitchContext(k)
      /\ Running(t, Waits, "yield") \/ Running(t, Looks, "expired")
      /\ Fail(t) \/ Goto(t, "start") \/ Goto(t, "disinherit")
  BY DEF Yield, Expired
<1>2. t = k.current /\ app.calls[t] # <<>>
  BY <1>1, RunningTimes
<1>3. Rests(k, k')
  BY <1>1, GoodAndClocked, RestsItself, SwitchTimes, SameSleepRests
<1>4. Lasts(k, k', {}, {})
  BY <1>3, GoodAndClocked, RestsLasts
<1>5. ASSUME NEW pc \in {"start", "disinherit"}, Goto(t, pc)
      PROVE  TimeInv' /\ InTime
  <2>1. pc \notin Timed /\ pc \notin Looked /\ pc # "suspended"
    BY <1>5 DEF Timed, Looked
  <2> QED
    BY <1>1, <1>2, <1>4, <1>5, <2>1, GotoInTime
<1>6. CASE Fail(t)
  BY <1>1, <1>2, <1>4, <1>6, BeginsInTime
<1> QED
  BY <1>1, <1>5, <1>6

\* The start of a delay,
LEMMA BeginSuspendedInTime ==
  ASSUME KernelInv, KernelInv', TimeInv, NEW t \in Task, BeginSuspended(t)
  PROVE  TimeInv' /\ InTime
<1>1. Running(t, {"delay", "until", "abort"}, "start") /\ app' = app /\ RecordDue
  BY DEF BeginSuspended
<1>2. t = k.current /\ app.calls[t] # <<>> /\ k.schedSusp = 0
  BY <1>1, RunningTimes DEF Locked
<1>3. CASE Call(t).op = "delay" /\ Call(t).ticks = 0
  <2>1. k' = vTaskSwitchContext(k) /\ Return(t)
    BY <1>3 DEF BeginSuspended
  <2>2. Lasts(k, k', {}, {})
    BY <2>1, GoodAndClocked, SwitchTimes, SameSleepRests, RestsLasts
  <2> QED
    BY <1>1, <1>2, <2>1, <2>2, BeginsInTime
<1>4. CASE ~(Call(t).op = "delay" /\ Call(t).ticks = 0)
  <2>1. k' = vTaskSuspendAll(k) /\ Goto(t, "suspended")
    BY <1>4 DEF BeginSuspended
  <2>2. Lasts(k, k', {}, {})
    BY <1>2, <2>1, GoodAndClocked, SuspendAllLasts
  <2> QED
    BY <1>1, <1>2, <1>4, <2>1, <2>2, GotoInTime DEF Timed, Looked
<1> QED
  BY <1>3, <1>4

\* xTaskAbortDelay and vTaskSuspend wake the task they are told to.
LEMMA AbortInTime ==
  ASSUME KernelInv, KernelInv', TimeInv, NEW t \in Task, Abort(t) \/ Suspend(t)
  PROVE  TimeInv' /\ InTime
<1>1. /\ app' = app /\ RecordDue
      /\ \/ /\ Running(t, {"abort"}, "suspended") /\ k' = xTaskAbortDelay(k, Call(t).task)
            /\ Goto(t, "resume")
         \/ /\ Running(t, {"suspend"}, "start") /\ k' = vTaskSuspend(k, Call(t).task)
            /\ Goto(t, "reset")
  BY DEF Abort, Suspend
<1>2. /\ t = k.current /\ app.calls[t] # <<>> /\ Call(t).op \in {"suspend", "abort"}
      /\ IsCall(Call(t), Len(app.calls[t]))
  BY <1>1, RunningTimes
<1>3. Call(t).task \in Task
  BY <1>2 DEF IsCall
<1>4. Wakes(k, k', {Call(t).task})
  BY <1>1, <1>3, GoodAndClocked, AbortDelayTimes, SuspendTimes
<1>5. Lasts(k, k', {}, {Call(t).task})
  BY <1>4, GoodAndClocked, WakesLasts
<1>6. ASSUME NEW pc \in {"resume", "reset"}, Goto(t, pc)
      PROVE  TimeInv' /\ InTime
  <2>1. pc \notin Timed /\ pc \notin Looked /\ pc # "suspended"
    BY <1>6 DEF Timed, Looked
  <2> QED
    BY <1>1, <1>2, <1>5, <1>6, <2>1, GotoInTime
<1> QED
  BY <1>1, <1>6

\* The end of vTaskSuspend.
LEMMA EndSuspendInTime ==
  ASSUME KernelInv, KernelInv', TimeInv, NEW t \in Task, EndSuspend(t)
  PROVE  TimeInv' /\ InTime
<1>1. /\ Running(t, {"suspend"}, "reset") /\ app' = app /\ RecordDue
      /\ k' = prvResetNextTaskUnblockTime(k)
      /\ Goto(t, "yield") \/ Return(t)
  BY DEF EndSuspend
<1>2. t = k.current /\ app.calls[t] # <<>>
  BY <1>1, RunningTimes
<1>3. Lasts(k, k', {}, {})
  BY <1>1, GoodAndClocked, ResetUnblockPasses, PassesLasts
<1>4. CASE Goto(t, "yield")
  BY <1>1, <1>2, <1>3, <1>4, GotoInTime DEF Timed, Looked
<1>5. CASE Return(t)
  BY <1>1, <1>2, <1>3, <1>5, BeginsInTime
<1> QED
  BY <1>1, <1>4, <1>5

\* A ready task does not sleep.
LEMMA ReadyNotDelayed ==
  ASSUME NEW s \in Good, NEW t \in Task, IsReady(s, t)
  PROVE  ~Delayed(s, t)
BY DEF Good, Placed, Delayed

\* The time of the last look, and the end of the wait, in ticks.
LEMMA WaitTyped ==
  ASSUME NEW wait \in Wait
  PROVE  /\ wait.left \in Nat /\ wait.left < TickMod /\ wait.entered \in Nat
         /\ wait.entered < TickMod /\ wait.epoch \in Nat /\ wait.epoch * TickMod \in Nat
         /\ TickMod \in Nat /\ TickMod > 1
<1>1. wait.left \in Ticks /\ wait.entered \in Ticks /\ wait.epoch \in Nat
  BY DEF Wait
<1>2. TickMod \in Nat /\ TickMod > 1
  BY TaskAssumption
<1>3. wait.epoch * TickMod \in Nat
  BY <1>1, <1>2
<1> QED
  BY <1>1, <1>2, <1>3 DEF Ticks

\* The ticks since the last look, across the wrap of the tick count, if it is not more
\* than a turn ago.
LEMMA ElapsedIs ==
  ASSUME NEW s \in KernelState, NEW wait \in Wait, wait.epoch * TickMod + wait.entered <= Now(s)
  PROVE  LET elapsed == (s.tick - wait.entered) % TickMod
             begun == wait.epoch * TickMod + wait.entered
             turned == s.overflows # wait.epoch /\ s.tick >= wait.entered
         IN /\ elapsed \in Nat /\ elapsed < TickMod
            /\ begun + elapsed <= Now(s)
            /\ turned => begun + TickMod <= Now(s)
            /\ ~turned /\ s.overflows <= wait.epoch + 1 => begun + elapsed = Now(s)
<1> DEFINE elapsed == (s.tick - wait.entered) % TickMod
           m == TickMod
           o == s.overflows
           e == wait.epoch
           d == o - e
           x == s.tick
           y == wait.entered
<1>1. /\ o \in Nat /\ x \in Nat /\ x < m /\ y \in Nat /\ y < m /\ e \in Nat /\ m \in Nat /\ m > 1
  BY TimesTyped, WaitTyped
<1>2. Now(s) = o * m + x
  BY DEF Now
<1>3. e * m + y <= o * m + x
  BY <1>2
<1>4. elapsed = IF x >= y THEN x - y ELSE x - y + m
  <2>1. CASE x >= y
    <3>1. x - y = 0 * m + (x - y) /\ x - y \in Nat /\ x - y < m /\ 0 \in Int /\ x - y \in Int
      BY <1>1, <2>1
    <3> HIDE DEF x, y, m
    <3>2. (x - y) % m = x - y
      BY <1>1, <3>1, RemainderIs
    <3> QED
      BY <2>1, <3>2 DEF x, y, m
  <2>2. CASE x < y
    <3>1. /\ x - y = (0 - 1) * m + (x - y + m) /\ x - y + m \in Nat /\ x - y + m < m
          /\ (0 - 1) \in Int /\ x - y \in Int
      BY <1>1, <2>2
    <3> HIDE DEF x, y, m
    <3>2. (x - y) % m = x - y + m
      BY <1>1, <3>1, RemainderIs
    <3> QED
      BY <1>1, <2>2, <3>2 DEF x, y, m
  <2> QED
    BY <1>1, <2>1, <2>2
<1> HIDE DEF elapsed, m, o, e, x, y
<1>5. d \in Int /\ o * m = e * m + d * m /\ e * m \in Nat /\ o * m \in Nat /\ d * m \in Int
  BY <1>1
<1>6. d >= 0
  <2> SUFFICES ASSUME d <= -1 PROVE FALSE
    BY <1>5
  <2>1. ((0 - 1) - d) \in Nat
    BY <1>5
  <2>2. ((0 - 1) - d) * m >= 0
    BY <1>1, <2>1
  <2>3. ((0 - 1) - d) * m = (0 - m) - d * m
    BY <1>1, <1>5
  <2>4. d * m <= 0 - m
    BY <1>1, <1>5, <2>2, <2>3
  <2> HIDE DEF d
  <2> QED
    BY <1>1, <1>3, <1>5, <2>4
<1>7. d >= 1 => d * m >= m
  <2> SUFFICES ASSUME d >= 1 PROVE d * m >= m
    OBVIOUS
  <2>1. (d - 1) \in Nat /\ (d - 1) * m >= 0
    BY <1>1, <1>5
  <2>2. (d - 1) * m = d * m - m
    BY <1>1, <1>5
  <2> QED
    BY <1>1, <1>5, <2>1, <2>2
<1>8. (d = 0 => d * m = 0) /\ (d = 1 => d * m = m)
  BY <1>1
<1>9. (o # e <=> d # 0) /\ (o <= e + 1 <=> d <= 1)
  BY <1>1
<1> HIDE DEF d
<1>10. elapsed \in Nat /\ elapsed < m
  BY <1>1, <1>4
<1>11. e * m + y + elapsed <= o * m + x
  <2>1. CASE d = 0
    BY <1>1, <1>3, <1>4, <1>5, <1>8, <2>1
  <2>2. CASE d >= 1
    BY <1>1, <1>4, <1>5, <1>7, <2>2
  <2> QED
    BY <1>5, <1>6, <2>1, <2>2
<1>12. d # 0 /\ x >= y => e * m + y + m <= o * m + x
  BY <1>1, <1>5, <1>6, <1>7
<1>13. ~(d # 0 /\ x >= y) /\ d <= 1 => e * m + y + elapsed = o * m + x
  <2>1. CASE d = 0
    BY <1>1, <1>3, <1>4, <1>5, <1>8, <2>1
  <2>2. CASE d = 1 /\ x < y
    BY <1>1, <1>4, <1>5, <1>8, <2>2
  <2> QED
    BY <1>1, <1>5, <1>6, <2>1, <2>2
<1> QED
  BY <1>2, <1>9, <1>10, <1>11, <1>12, <1>13 DEF elapsed, m, o, e, x, y

\* xTaskCheckForTimeOut counts the wait anew, and says that it is over when it is.
LEMMA CheckedWait ==
  ASSUME NEW s \in Good, NEW wait \in Wait, NEW ends \in Nat,
         wait.epoch * TickMod + wait.entered <= Now(s),
         \/ ends = wait.epoch * TickMod + wait.entered + wait.left
         \/ wait.left = 0 /\ ends <= Now(s),
         wait.left # portMAX_DELAY => s.overflows <= wait.epoch + 1
  PROVE  LET checked == xTaskCheckForTimeOut(s, wait)
             w == checked.wait
             begun == w.epoch * TickMod + w.entered
         IN /\ begun <= Now(s)
            /\ ends = begun + w.left \/ (w.left = 0 /\ ends <= Now(s))
            /\ ~checked.yes => w.left # 0 /\ (w.left = portMAX_DELAY \/ begun = Now(s))
<1> DEFINE checked == xTaskCheckForTimeOut(s, wait)
           w == checked.wait
           elapsed == (s.tick - wait.entered) % TickMod
           none == [wait EXCEPT !.left = 0]
           rest == vTaskInternalSetTimeOutState(s, wait.left - elapsed)
           turned == s.overflows # wait.epoch /\ s.tick >= wait.entered
           b == wait.epoch * TickMod + wait.entered
           now == Now(s)
<1>1. s \in KernelState /\ now \in Nat /\ b \in Nat /\ wait.left \in Nat /\ wait.left < TickMod
      /\ TickMod \in Nat /\ TickMod > 1
  BY TimesTyped, WaitTyped DEF Good
<1>2. /\ elapsed \in Nat /\ elapsed < TickMod /\ b + elapsed <= now
      /\ turned => b + TickMod <= now
      /\ ~turned /\ s.overflows <= wait.epoch + 1 => b + elapsed = now
  BY <1>1, ElapsedIs
<1>3. \/ w = wait /\ checked.yes
      \/ w = wait /\ ~checked.yes /\ wait.left = portMAX_DELAY
      \/ w = none /\ checked.yes /\ wait.left # portMAX_DELAY /\ (turned \/ ~(elapsed < wait.left))
      \/ /\ w = rest /\ ~checked.yes /\ wait.left # portMAX_DELAY
         /\ ~turned /\ elapsed < wait.left
  BY DEF xTaskCheckForTimeOut
<1>4. /\ none.left = 0 /\ none.epoch = wait.epoch /\ none.entered = wait.entered
      /\ rest.left = wait.left - elapsed /\ rest.epoch * TickMod + rest.entered = now
  BY DEF Wait, vTaskInternalSetTimeOutState, Now
<1> HIDE DEF none, rest, checked, elapsed, turned, now
<1>5. CASE w = wait /\ (checked.yes \/ wait.left = portMAX_DELAY)
  <2>1. wait.left = portMAX_DELAY => wait.left # 0
    BY <1>1 DEF portMAX_DELAY
  <2> HIDE DEF w
  <2> QED
    BY <1>5, <2>1 DEF w, checked, now
<1>6. CASE w = none /\ checked.yes /\ (turned \/ ~(elapsed < wait.left))
  <2>1. b + wait.left <= now
    <3> HIDE DEF b
    <3>1. CASE turned
      BY <1>1, <1>2, <3>1
    <3>2. CASE ~(elapsed < wait.left)
      BY <1>1, <1>2, <3>2
    <3> QED
      BY <1>6, <3>1, <3>2
  <2>2. ends <= now
    BY <2>1 DEF now
  <2> HIDE DEF w
  <2> QED
    BY <1>4, <1>6, <2>2 DEF w, checked, now
<1>7. CASE /\ w = rest /\ ~checked.yes /\ wait.left # portMAX_DELAY
           /\ ~turned /\ elapsed < wait.left
  <2>1. b + elapsed = now
    BY <1>2, <1>7
  <2>2. wait.left # 0
    BY <1>1, <1>2, <1>7
  <2>3. ends = b + wait.left
    BY <2>2
  <2>4. ends = now + (wait.left - elapsed) /\ wait.left - elapsed # 0
    <3> HIDE DEF b
    <3> QED
      BY <1>1, <1>2, <1>7, <2>1, <2>3
  <2> HIDE DEF w
  <2> QED
    BY <1>1, <1>4, <1>7, <2>4 DEF w, checked, now
<1> QED
  BY <1>3, <1>5, <1>6, <1>7

\* A wait begins, or goes on: vTaskInternalSetTimeOutState.
LEMMA StartWaitInTime ==
  ASSUME KernelInv, KernelInv', TimeInv, NEW t \in Task, StartWait(t)
  PROVE  TimeInv' /\ InTime
<1> DEFINE wait == vTaskInternalSetTimeOutState(k, Call(t).ticks)
           th == IF thread[t].timed THEN [thread[t] EXCEPT !.pc = "suspend"]
                 ELSE [thread[t] EXCEPT !.pc = "suspend", !.timed = TRUE, !.wait = wait]
           n == Call(t).ticks
<1>1. Running(t, Waits, "start") /\ app' = app /\ k' = k /\ RecordDue
  BY DEF StartWait
<1>2. /\ t = k.current /\ k.current \in Task /\ app.calls[t] # <<>> /\ Call(t).op \in Waits
      /\ k \in Good /\ Clocked(k) /\ IsReady(k, t)
      /\ IsCall(Call(t), Len(app.calls[t])) /\ thread[t] \in ThreadState
      /\ WaitKept(k, Call(t), thread[t], due[t])
  BY <1>1, RunningTimes DEF Awake
<1>3. n \in Ticks /\ n \in Nat
  <2>1. n \in Ticks
    BY <1>2 DEF IsCall
  <2>2. \A i \in Ticks : i \in Nat
    BY TaskAssumption DEF Ticks
  <2> HIDE DEF n
  <2> QED
    BY <2>1, <2>2
<1>4. RecordWait(n)
  BY <1>1, <1>2 DEF RecordDue
<1>5. Going(t, th)
  BY <1>1, <1>2 DEF Going, StartWait
<1>6. /\ th.pc = "suspend" /\ th.timed /\ th.at = thread[t].at
      /\ thread[t].timed => th.wait = thread[t].wait
      /\ ~thread[t].timed => th.wait = wait
  BY <1>2 DEF ThreadState
<1> HIDE DEF th
<1>7. ~Delayed(k, t) /\ ~Delayed(k', t)
  BY <1>1, <1>2, ReadyNotDelayed
<1>8. Lasts(k, k', {}, {})
  BY <1>1, <1>2, ItselfLasts
<1>9. thread'[t] = th /\ \A u \in Task \ {t} : thread'[u] = thread[u]
  BY <1>5 DEF Going, KernelInv, CallsTyped
<1>10. WaitKept(k', app.calls[t][th.at], th, due'[t])
  <2>1. app.calls[t][th.at] = Call(t)
    BY <1>6 DEF Call
  <2>2. CASE thread[t].timed
    <3>1. \A u \in Task : ~WaitBegins(u)
      BY <1>9, <2>2 DEF WaitBegins
    <3>2. due'[t] = due[t]
      BY <1>3, <1>4, <1>6, <1>8, <1>9, <2>2, <3>1, HistoryKept
    <3> HIDE DEF wait
    <3> QED
      BY <1>1, <1>2, <1>6, <2>1, <2>2, <3>2 DEF WaitKept, Timed, Looked, Begun, Ends
  <2>3. CASE ~thread[t].timed
    <3>1. due'[t] = KernelTime(k) + n
      BY <1>4, <1>6, <1>9, <2>3 DEF RecordWait, WaitBegins
    <3>2. Begun(th) = Now(k) /\ th.wait.left = n
      BY <1>6, <2>3 DEF Begun, Now, vTaskInternalSetTimeOutState
    <3>3. due'[t] = Ends(th) /\ Begun(th) <= Now(k)
      <4>1. Now(k) \in Nat
        BY <1>2, TimesTyped DEF Good
      <4> QED
        BY <3>1, <3>2, <4>1, KernelTimeIsNow DEF Ends
    <3> HIDE DEF wait, n
    <3> QED
      BY <1>1, <1>2, <1>6, <2>1, <3>3 DEF WaitKept, Timed, Looked
  <2> QED
    BY <2>2, <2>3
<1> HIDE DEF n
<1> QED
  BY <1>3, <1>4, <1>5, <1>7, <1>8, <1>10, StepInTime

\* xTaskCheckForTimeOut, when it looks in time.
LEMMA CheckTimeOutInTime ==
  ASSUME KernelInv, KernelInv', TimeInv, LookedAtInTime, NEW t \in Task, CheckTimeOut(t)
  PROVE  TimeInv' /\ InTime
<1> DEFINE checked == xTaskCheckForTimeOut(k, thread[t].wait)
           pc == IF checked.yes THEN "unlockTx" ELSE "test"
           then == IF checked.yes THEN "expired" ELSE "retry"
           wait == checked.wait
           th == [thread[t] EXCEPT !.wait = wait, !.pc = pc, !.then = then]
<1>1. /\ Running(t, Waits, "check") /\ app' = app /\ k' = checked.k /\ RecordDue
      /\ thread' = [thread EXCEPT ![t].wait = checked.wait, ![t].pc = pc, ![t].then = then]
  BY DEF CheckTimeOut
<1>2. /\ t = k.current /\ k.current \in Task /\ app.calls[t] # <<>> /\ Call(t).op \in Waits
      /\ k \in Good /\ Clocked(k) /\ IsReady(k, t) /\ thread[t].pc = "check"
      /\ thread[t] \in ThreadState /\ WaitKept(k, Call(t), thread[t], due[t])
  BY <1>1, RunningTimes DEF Awake
<1>3. thread[t].timed /\ thread[t].wait \in Wait /\ due[t] \in Nat
  BY <1>2 DEF WaitKept, Timed, ThreadState, Wait, TimeInv
<1>4. /\ Begun(thread[t]) <= Now(k)
      /\ due[t] = Ends(thread[t]) \/ (thread[t].wait.left = 0 /\ due[t] <= Now(k))
      /\ thread[t].wait.left # portMAX_DELAY => k.overflows <= thread[t].wait.epoch + 1
  BY <1>1, <1>2, <1>3 DEF WaitKept, LookedAtInTime
<1>5. /\ wait.epoch * TickMod + wait.entered <= Now(k)
      /\ \/ due[t] = wait.epoch * TickMod + wait.entered + wait.left
         \/ wait.left = 0 /\ due[t] <= Now(k)
      /\ ~checked.yes =>
           /\ wait.left # 0
           /\ wait.left = portMAX_DELAY \/ wait.epoch * TickMod + wait.entered = Now(k)
  BY <1>2, <1>3, <1>4, CheckedWait DEF Begun, Ends
<1>6. SameSleep(k, k')
  BY <1>1, <1>2, CheckForTimeOutTimes
<1>7. Lasts(k, k', {}, {}) /\ Now(k') = Now(k)
  <2>1. Rests(k, k')
    BY <1>6, SameSleepRests
  <2> QED
    BY <1>6, <2>1, GoodAndClocked, RestsLasts DEF SameSleep, SameTimes, Now
<1>8. pc = (IF checked.yes THEN "unlockTx" ELSE "test") /\ then \in {"expired", "retry"}
  OBVIOUS
<1>9. thread' = [thread EXCEPT ![t] = th]
  BY <1>1, <1>2 DEF KernelInv, CallsTyped
<1>10. /\ th.wait = wait /\ th.pc = pc /\ th.at = thread[t].at /\ th.timed
  BY <1>2, <1>3 DEF ThreadState
<1> HIDE DEF th, pc, then
<1>11. Going(t, th) /\ thread'[t] = th /\ \A u \in Task \ {t} : thread'[u] = thread[u]
  BY <1>1, <1>2, <1>9 DEF Going, KernelInv, CallsTyped
<1>12. PICK n \in Nat : RecordWait(n)
  BY <1>1, <1>2, RecordDueIs
<1>13. \A u \in Task : ~WaitBegins(u)
  BY <1>3, <1>11 DEF WaitBegins
<1>14. due'[t] = due[t]
  BY <1>3, <1>7, <1>10, <1>11, <1>12, <1>13, HistoryKept
<1>15. WaitKept(k', app.calls[t][th.at], th, due'[t])
  <2>1. app.calls[t][th.at] = Call(t)
    BY <1>10 DEF Call
  <2>2. /\ Begun(th) <= Now(k') /\ (due'[t] = Ends(th) \/ (th.wait.left = 0 /\ due'[t] <= Now(k')))
        /\ ~checked.yes => th.wait.left # 0 /\ (th.wait.left = portMAX_DELAY \/ Begun(th) = Now(k'))
    BY <1>5, <1>7, <1>10, <1>14 DEF Begun, Ends
  <2> HIDE DEF checked, wait
  <2> QED
    BY <1>2, <1>8, <1>10, <2>1, <2>2 DEF WaitKept, Timed, Looked
<1> QED
  BY <1>7, <1>11, <1>12, <1>13, <1>15, StepInTime

\* vTaskPlaceOnEventList: the task sleeps until its wait ends.
LEMMA BlockInTime ==
  ASSUME KernelInv, KernelInv', TimeInv, NEW t \in Task, Block(t)
  PROVE  TimeInv' /\ InTime
<1> DEFINE e == <<Call(t).queue, IF Call(t).op \in Sends THEN "send" ELSE "receive">>
           th == [thread[t] EXCEPT !.pc = "unlockTx", !.then = "blocked"]
           left == thread[t].wait.left
<1>1. /\ Running(t, Waits, "block") /\ app' = app /\ RecordDue
      /\ k' = vTaskPlaceOnEventList(k, e, left)
      /\ thread' = [thread EXCEPT ![t].pc = "unlockTx", ![t].then = "blocked"]
  BY DEF Block
<1>2. /\ t = k.current /\ k.current \in Task /\ app.calls[t] # <<>> /\ Call(t).op \in Waits
      /\ k \in Good /\ Clocked(k) /\ IsReady(k, t) /\ thread[t].pc = "block"
      /\ IsCall(Call(t), Len(app.calls[t])) /\ thread[t] \in ThreadState
      /\ WaitKept(k, Call(t), thread[t], due[t])
  BY <1>1, RunningTimes DEF Awake
<1>3. e \in EventList
  BY <1>2 DEF IsCall, EventList
<1>4. /\ thread[t].timed /\ left \in Ticks /\ left # 0
      /\ left = portMAX_DELAY \/ due[t] = Now(k) + left
  BY <1>2 DEF WaitKept, Timed, Looked, ThreadState, Ends
<1> HIDE DEF e, left
<1>5. Dozes(k, k', t, left, TRUE)
  BY <1>1, <1>2, <1>3, <1>4, PlaceOnEventListTimes
<1>6. Lasts(k, k', {t}, {})
  BY <1>2, <1>5, DozesLasts
<1>7. thread' = [thread EXCEPT ![t] = th]
  BY <1>1, <1>2 DEF KernelInv, CallsTyped
<1>8. /\ th.pc = "unlockTx" /\ th.then = "blocked" /\ th.at = thread[t].at
      /\ th.timed = thread[t].timed /\ th.wait = thread[t].wait
  BY <1>2 DEF ThreadState
<1> HIDE DEF th
<1>9. Going(t, th) /\ thread'[t] = th /\ \A u \in Task \ {t} : thread'[u] = thread[u]
  BY <1>1, <1>2, <1>7 DEF Going, KernelInv, CallsTyped
<1>10. PICK n \in Nat : RecordWait(n)
  BY <1>1, <1>2, RecordDueIs
<1>11. \A u \in Task : ~WaitBegins(u)
  BY <1>4, <1>8, <1>9 DEF WaitBegins
<1>12. ~Delayed(k, t)
  BY <1>2, ReadyNotDelayed
<1>13. due'[t] = due[t]
  BY <1>4, <1>8, <1>9, <1>10 DEF RecordWait, WaitBegins, DelayBegins
<1>14. Delayed(k', t) => due'[t] = WakesAt(k', t)
  BY <1>4, <1>5, <1>13 DEF Dozes
<1>15. WaitKept(k', app.calls[t][th.at], th, due'[t])
  <2>1. app.calls[t][th.at] = Call(t)
    BY <1>8 DEF Call
  <2>2. Now(k') = Now(k)
    BY <1>5 DEF Dozes, Now
  <2> QED
    BY <1>2, <1>4, <1>8, <1>13, <2>1, <2>2 DEF WaitKept, Timed, Looked, Begun, Ends
<1> QED
  BY <1>6, <1>9, <1>10, <1>11, <1>12, <1>14, <1>15, StepInTime

\* A task that delays itself: n ticks, from now.
LEMMA DelayingInTime ==
  ASSUME KernelInv, KernelInv', TimeInv, NEW t \in Task, NEW th, Going(t, th),
         NEW n \in Nat, RecordWait(n), k.current \in Task, k \in Good,
         ~thread[t].timed, ~th.timed, th.pc = "resume", th.then = thread[t].then,
         Dozes(k, k', t, n, FALSE), ~Delayed(k, t)
  PROVE  TimeInv' /\ InTime
<1>1. thread'[t] = th
  BY DEF Going, KernelInv, CallsTyped
<1>2. InDelayedList(k', t) /\ ~InDelayedList(k, t)
  BY DelayedIff DEF Dozes, KernelInv
<1>3. due'[t] = Now(k) + n
  BY <1>2, KernelTimeIsNow DEF RecordWait, DelayBegins
<1>4. ~WaitBegins(t)
  BY <1>1 DEF WaitBegins
<1>5. Lasts(k, k', {t}, {})
  BY DozesLasts DEF TimeInv
<1>6. due'[t] = WakesAt(k', t)
  BY <1>3 DEF Dozes
<1>7. WaitKept(k', app.calls[t][th.at], th, due'[t])
  <2>1. WaitKept(k, Call(t), thread[t], due[t])
    BY DEF TimeInv
  <2> QED
    BY <2>1 DEF WaitKept, Timed, Looked
<1> QED
  BY <1>4, <1>5, <1>6, <1>7, StepInTime

\* vTaskDelay
LEMMA DelayInTime ==
  ASSUME KernelInv, KernelInv', TimeInv, NEW t \in Task, Delay(t)
  PROVE  TimeInv' /\ InTime
<1> DEFINE n == Call(t).ticks
           th == [thread[t] EXCEPT !.pc = "resume"]
<1>1. /\ Running(t, {"delay"}, "suspended") /\ app' = app /\ RecordDue
      /\ k' = prvAddCurrentTaskToDelayedList(k, n, FALSE) /\ Goto(t, "resume")
  BY DEF Delay
<1>2. /\ t = k.current /\ k.current \in Task /\ app.calls[t] # <<>> /\ Call(t).op = "delay"
      /\ k \in Good /\ IsReady(k, t) /\ thread[t].pc = "suspended"
      /\ IsCall(Call(t), Len(app.calls[t])) /\ thread[t] \in ThreadState
      /\ WaitKept(k, Call(t), thread[t], due[t])
  BY <1>1, RunningTimes DEF Awake
<1>3. RecordWait(n)
  BY <1>1, <1>2 DEF RecordDue
<1>4. n \in Ticks /\ n \in Nat /\ n # 0 /\ ~thread[t].timed
  <2>1. n \in Ticks /\ n # 0 /\ ~thread[t].timed
    BY <1>2 DEF IsCall, WaitKept, Waits, Sends, Looks, Takes
  <2>2. \A i \in Ticks : i \in Nat
    BY TaskAssumption DEF Ticks
  <2> HIDE DEF n
  <2> QED
    BY <2>1, <2>2
<1>5. Dozes(k, k', t, n, FALSE)
  BY <1>1, <1>2, <1>4, AddToDelayedTimes
<1>6. ~Delayed(k, t)
  BY <1>2, ReadyNotDelayed
<1>7. th.pc = "resume" /\ th.then = thread[t].then /\ th.timed = thread[t].timed
  BY <1>2 DEF ThreadState
<1>8. Going(t, th)
  BY <1>1, <1>2 DEF Going, Goto, KernelInv, CallsTyped
<1> HIDE DEF th, n
<1> QED
  BY <1>2, <1>3, <1>4, <1>5, <1>6, <1>7, <1>8, DelayingInTime

\* The ticks from one value of the count to the next other.
LEMMA TicksUntil ==
  ASSUME NEW a \in Ticks, NEW b \in Ticks
  PROVE  /\ (b - a) % TickMod = IF b >= a THEN b - a ELSE (b - a) + TickMod
         /\ a # b => (b - a) % TickMod # 0
<1> DEFINE m == TickMod
           c == b - a
<1>1. m \in Nat /\ m > 1 /\ a \in 0..(m - 1) /\ b \in 0..(m - 1)
  BY TaskAssumption DEF Ticks
<1>2. c \in Int /\ c < m /\ c + m \in Nat /\ c + m > 0 /\ (c >= 0 <=> b >= a) /\ (c = 0 <=> a = b)
  BY <1>1
<1> HIDE DEF m, c
<1>3. CASE c >= 0
  <2>1. c = 0 * m + c /\ c \in Nat /\ 0 \in Int
    BY <1>1, <1>2, <1>3
  <2>2. c % m = c
    BY <1>1, <1>2, <2>1, RemainderIs
  <2> QED
    BY <1>2, <1>3, <2>2 DEF m, c
<1>4. CASE c < 0
  <2>1. c = (0 - 1) * m + (c + m) /\ c + m < m /\ 0 - 1 \in Int
    BY <1>1, <1>2, <1>4
  <2>2. c % m = c + m
    <3> DEFINE q == 0 - 1
    <3>1. q \in Int /\ c = q * m + (c + m)
      BY <2>1
    <3> HIDE DEF q
    <3> QED
      BY <1>1, <1>2, <2>1, <3>1, RemainderIs
  <2> QED
    BY <1>2, <1>4, <2>1, <2>2 DEF m, c
<1> QED
  BY <1>2, <1>3, <1>4

\* xTaskDelayUntil
LEMMA DelayUntilInTime ==
  ASSUME KernelInv, KernelInv', TimeInv, NEW t \in Task, DelayUntil(t)
  PROVE  TimeInv' /\ InTime
<1> DEFINE wake == TimeToWake(k.tick, thread[t].previous, Call(t).ticks)
           wait == (wake - k.tick) % TickMod
           rounds == thread[t].rounds + 1
           th == [thread[t] EXCEPT !.pc = "resume", !.previous = wake, !.rounds = rounds]
<1>1. /\ Running(t, {"until"}, "suspended") /\ app' = app /\ RecordWait(wait)
      /\ k' = IF ShouldDelay(k.tick, thread[t].previous, wake)
              THEN prvAddCurrentTaskToDelayedList(k, wait, FALSE) ELSE k
      /\ thread' = [thread EXCEPT ![t].pc = "resume", ![t].previous = wake, ![t].rounds = @ + 1]
  BY DEF DelayUntil
<1>2. /\ t = k.current /\ k.current \in Task /\ app.calls[t] # <<>> /\ Call(t).op = "until"
      /\ k \in Good /\ Clocked(k) /\ IsReady(k, t) /\ thread[t].pc = "suspended"
      /\ IsCall(Call(t), Len(app.calls[t])) /\ thread[t] \in ThreadState
      /\ WaitKept(k, Call(t), thread[t], due[t])
  BY <1>1, RunningTimes DEF Awake
<1>3. wake \in Ticks /\ k.tick \in Ticks
  <2>1. thread[t].previous \in Int /\ Call(t).ticks \in Int
    BY <1>2 DEF IsCall, ThreadState, Ticks
  <2>2. wake \in Ticks
    BY <2>1, TicksWrap DEF TimeToWake
  <2> HIDE DEF wake
  <2> QED
    BY <2>2, GoodAndClocked DEF KernelState
<1>4. thread' = [thread EXCEPT ![t] = th]
  BY <1>1, <1>2 DEF KernelInv, CallsTyped
<1>5. th.pc = "resume" /\ th.then = thread[t].then /\ th.timed = thread[t].timed /\ th.at = thread[t].at
  BY <1>2 DEF ThreadState
<1> HIDE DEF wake, rounds, th
<1>6. wait \in Ticks /\ wait \in Nat
  <2>1. wake - k.tick \in Int
    BY <1>3 DEF Ticks
  <2>2. wait \in Ticks
    BY <2>1, TicksWrap
  <2>3. \A n \in Ticks : n \in Nat
    BY TaskAssumption DEF Ticks
  <2> HIDE DEF wait
  <2> QED
    BY <2>2, <2>3
<1>7. wake # k.tick => wait # 0
  BY <1>3, TicksUntil
<1> HIDE DEF wait
<1>8. Going(t, th)
  BY <1>1, <1>2, <1>4 DEF Going
<1>9. ~thread[t].timed /\ ~th.timed
  BY <1>2, <1>5 DEF WaitKept, Waits, Sends, Looks, Takes
<1>10. ~Delayed(k, t)
  BY <1>2, ReadyNotDelayed
<1>11. CASE ShouldDelay(k.tick, thread[t].previous, wake)
  <2>1. wake # k.tick
    <3>1. wake \in Int /\ k.tick \in Int /\ thread[t].previous \in Int
      BY <1>2, <1>3 DEF ThreadState, Ticks
    <3> QED
      BY <1>11, <3>1 DEF ShouldDelay
  <2>2. Dozes(k, k', t, wait, FALSE)
    BY <1>1, <1>2, <1>6, <1>7, <1>11, <2>1, AddToDelayedTimes
  <2>3. k \in Good /\ k.current \in Task /\ RecordWait(wait)
    BY <1>1, <1>2
  <2>4. th.pc = "resume" /\ th.then = thread[t].then
    BY <1>5
  <2> QED
    BY <1>6, <1>8, <1>9, <1>10, <2>2, <2>3, <2>4, DelayingInTime
<1>12. CASE ~ShouldDelay(k.tick, thread[t].previous, wake)
  <2>1. k' = k
    BY <1>1, <1>12
  <2>2. Lasts(k, k', {}, {})
    BY <1>2, <2>1, ItselfLasts
  <2>3. WaitKept(k', app.calls[t][th.at], th, due'[t])
    BY <1>2, <1>5, <1>9 DEF WaitKept, Timed, Looked
  <2>4. ~Delayed(k', t) /\ RecordWait(wait)
    BY <1>1, <1>10, <2>1
  <2> QED
    BY <1>6, <1>8, <2>2, <2>3, <2>4, StepInTime
<1> QED
  BY <1>11, <1>12

\* An interrupt: the tasks stay where they are.
LEMMA InterruptInTime ==
  ASSUME KernelInv, KernelInv', TimeInv, k.current \in Task, app' = app, thread' = thread,
         RecordDue, Lasts(k, k', {}, {})
  PROVE  TimeInv' /\ InTime
<1>1. PICK n \in Nat : RecordWait(n)
  BY RecordDueIs
<1>2. \A u \in Task : ~WaitBegins(u)
  BY DEF WaitBegins
<1>3. /\ due' \in [Task -> Nat]
      /\ \A u \in Task : Delayed(k', u) => due'[u] = WakesAt(k', u)
      /\ \A u \in Task : thread[u].timed /\ thread'[u].timed => due'[u] = due[u]
  BY <1>1, <1>2, HistoryKept
<1>4. ASSUME NEW u \in Task
      PROVE  WaitKept(k, Call(u), thread[u], due[u])'
  <2>1. thread[u].pc \in Locked => Now(k') = Now(k)
    <3> SUFFICES ASSUME thread[u].pc \in Locked PROVE Now(k') = Now(k)
      OBVIOUS
    <3>1. u = k.current /\ u = k'.current
      BY DEF KernelInv, SuspendedByRunning
    <3>2. k.schedSusp = 1 /\ k'.schedSusp = 1
      BY <3>1 DEF KernelInv, SuspendedByRunning
    <3> QED
      BY <3>2 DEF Lasts
  <2>2. Now(k) <= Now(k')
    BY DEF Lasts
  <2> QED
    BY <1>3, <2>1, <2>2, OtherWaitsKept
<1>5. TimeInv'
  BY <1>3, <1>4 DEF TimeInv, Lasts
<1>6. InTime
  BY DEF InTime, Lasts
<1> QED
  BY <1>5, <1>6

\* The tick
LEMMA TickInTime ==
  ASSUME KernelInv, KernelInv', TimeInv, Tick
  PROVE  TimeInv' /\ InTime
<1> DEFINE ticked == xTaskIncrementTick(k)
           r == ticked.k
<1>1. /\ k' = YieldIf(r, ticked.yes) /\ app' = app /\ thread' = thread /\ RecordDue
      /\ k \in Good /\ k' \in Good /\ k.current \in Task /\ Clocked(k)
  BY DEF Tick, KernelInv, TimeInv, Good, KernelState
<1>2. r \in Good /\ Passes(k, r, {})
  BY <1>1, IncrementTickGood, IncrementTickTimes DEF Moves
<1> HIDE DEF ticked
<1>3. SameSleep(r, k')
  BY <1>1, <1>2, SwitchTimes DEF Good
<1>4. Passes(r, k', {})
  BY <1>1, <1>2, <1>3, SameSleepPasses
<1>5. Passes(k, k', {} \cup {})
  BY <1>1, <1>2, <1>4, PassesTransitive
<1>6. {} \cup {} = {}
  OBVIOUS
<1>7. Lasts(k, k', {}, {})
  BY <1>1, <1>5, <1>6, PassesLasts
<1> QED
  BY <1>1, <1>7, InterruptInTime

\* and the other interrupts.
LEMMA IrqInTime ==
  ASSUME KernelInv, KernelInv', TimeInv, Irq
  PROVE  TimeInv' /\ InTime
<1>1. /\ k \in Good /\ k' \in Good /\ QueuesTyped(queue) /\ IsApp(app) /\ Clocked(k)
      /\ app' = app /\ thread' = thread /\ RecordDue
  BY AppsAssumption DEF KernelInv, CallsTyped, Irq, TimeInv
<1>2. k.current \in Task
  BY <1>1 DEF Irq, Good, KernelState
<1>3. PICK h \in app.handlers : QueueIrq(h) \/ ResumeIrq(h)
  BY DEF Irq
<1>4. IsHandler(h, app.queues)
  BY <1>1, <1>3 DEF IsApp
<1>5. CASE QueueIrq(h)
  <2> DEFINE id == h.queue
             q == queue[id]
  <2>1. h.op \in {"send", "give", "receive"} /\ id \in Queue /\ q \in AnyQueue
    BY <1>1, <1>4, <1>5 DEF QueueIrq, IsHandler, QueuesTyped
  <2>2. h.op = "send" => q.kind # "mutex"
    BY <1>1, <1>4, <2>1 DEF IsHandler, QueuesTyped
  <2>3. CASE h.op = "send"
    <3>1. k' = xQueueGenericSendFromISR(k, q, id, h.item, h.position).k
      BY <1>5, <2>3 DEF QueueIrq
    <3> QED
      BY <1>1, <1>2, <2>1, <2>2, <2>3, <3>1, QueueIrqTimes, RestsLasts, InterruptInTime
  <2>4. CASE h.op = "give"
    <3>1. k' = xQueueGiveFromISR(k, q, id, h.item).k
      BY <1>5, <2>4 DEF QueueIrq
    <3> QED
      BY <1>1, <1>2, <2>1, <3>1, QueueIrqTimes, RestsLasts, InterruptInTime
  <2>5. CASE h.op = "receive"
    <3>1. k' = xQueueReceiveFromISR(k, q, id).k
      BY <1>5, <2>5 DEF QueueIrq
    <3> QED
      BY <1>1, <1>2, <2>1, <3>1, QueueIrqTimes, RestsLasts, InterruptInTime
  <2> QED
    BY <2>1, <2>3, <2>4, <2>5
<1>6. CASE ResumeIrq(h)
  <2>1. h.task \in Task /\ k' = xTaskResumeFromISR(k, h.task)
    BY <1>4, <1>6 DEF ResumeIrq, IsHandler
  <2> QED
    BY <1>1, <1>2, <2>1, ResumeFromISRTimes, RestsLasts, InterruptInTime
<1> QED
  BY <1>3, <1>5, <1>6

\* Nothing happens: then nothing is recorded.
LEMMA StutterInTime ==
  ASSUME KernelInv, TimeInv, UNCHANGED vars
  PROVE  TimeInv' /\ InTime
<1>1. app' = app /\ k' = k /\ thread' = thread /\ due' = due
  BY DEF vars
<1>2. \A t \in Task : WaitKept(k, Call(t), thread[t], due[t])'
  BY <1>1 DEF TimeInv, Call
<1>3. TimeInv'
  BY <1>1, <1>2 DEF TimeInv
<1> QED
  BY <1>1, <1>3 DEF InTime

\* Every step keeps the time, if who waits looks in time.
LEMMA NextInTime ==
  ASSUME KernelInv, TimeInv, GivenByHolder, LookedAtInTime, [Next]_vars
  PROVE  TimeInv' /\ InTime
<1>1. KernelInv'
  BY NextKeeps
<1>2. ASSUME NEW t \in Task, QueueStep(t)
      PROVE  TimeInv' /\ InTime
  BY <1>1, <1>2, ReturningInTime, StartWaitInTime, LockedInTime, CheckTimeOutInTime, InheritInTime,
     BlockInTime, ResumingInTime, YieldInTime
     DEF QueueStep
<1>3. ASSUME NEW t \in Task, TaskStep(t)
      PROVE  TimeInv' /\ InTime
  BY <1>1, <1>3, ReturningInTime, BeginSuspendedInTime, DelayInTime, DelayUntilInTime, AbortInTime,
     ResumingInTime, EndSuspendInTime
     DEF TaskStep
<1> QED
  BY <1>1, <1>2, <1>3, TickInTime, IrqInTime, StutterInTime DEF Next

\* At the start no task sleeps, and none is in a call.
LEMMA InitTime == Init => TimeInv
<1> SUFFICES ASSUME Init PROVE TimeInv
  OBVIOUS
<1> DEFINE empty == prvInitialiseTaskLists(app)
           full == AddTasks(empty, app.tasks)
<1>1. app \in Apps /\ IsApp(app)
  BY AppsAssumption DEF Init
<1>2. /\ empty \in Good /\ empty.current = NoTask /\ empty.schedSusp = 0
      /\ \A t \in Task : Away(empty, t) /\ Free(empty, t)
  BY <1>1, EmptyListsGood
<1>3. app.tasks \in Seq(Task) /\ IsInjective(app.tasks)
  BY <1>1 DEF IsApp
<1>4. k = vTaskSwitchContext(full)
  BY DEF Init
<1>5. empty.delayed = <<>> /\ empty.overflow = <<>>
  BY DEF prvInitialiseTaskLists
<1> HIDE DEF empty
<1>6. full \in Good /\ full.delayed = <<>> /\ full.overflow = <<>>
  BY <1>2, <1>3, <1>5, AddTasksGood
<1> HIDE DEF full
<1>7. SameSleep(full, k)
  BY <1>4, <1>6, SwitchTimes DEF Good
<1>8. k.delayed = <<>> /\ k.overflow = <<>>
  BY <1>6, <1>7 DEF SameSleep, SameTimes
<1>9. \A t \in Task : ~Delayed(k, t)
  BY <1>8 DEF Delayed, ToSet
<1>10. Clocked(k)
  BY <1>8 DEF Clocked, Ordered, ToSet
<1>11. \A t \in Task : WaitKept(k, Call(t), thread[t], due[t])
  BY DEF Init, Begin, WaitKept, Timed, Looked
<1> QED
  BY <1>9, <1>10, <1>11 DEF TimeInv, Init

\* A time, its turn of the tick count and its place in the turn.
LEMMA WakesAtDigits ==
  ASSUME NEW s \in KernelState, NEW t \in Task
  PROVE  /\ s.wake[t] = WakesAt(s, t) % TickMod
         /\ WakesAt(s, t) \div TickMod =
              IF t \in ToSet(s.delayed) THEN s.overflows ELSE s.overflows + 1
<1> DEFINE n == IF t \in ToSet(s.delayed) THEN s.overflows ELSE s.overflows + 1
           w == s.wake[t]
           x == WakesAt(s, t)
<1>1. n \in Int /\ w \in Nat /\ w < TickMod /\ x \in Int
  BY TimesTyped
<1>2. TickMod \in Nat /\ TickMod > 0
  BY TaskAssumption
<1>3. x = n * TickMod + w
  BY DEF WakesAt
<1> HIDE DEF n, w, x
<1>4. x % TickMod = w /\ x \div TickMod = n
  BY <1>1, <1>2, <1>3, RemainderIs
<1> QED
  BY <1>4 DEF n, w, x

\* A task that sleeps has its time still to come.
LEMMA SleepsOn ==
  ASSUME NEW s \in Good, Clocked(s), NEW t \in Task, Delayed(s, t)
  PROVE  WakesAt(s, t) > Now(s)
<1> DEFINE a == s.overflows * TickMod
<1>1. /\ s.tick \in Nat /\ s.tick < TickMod /\ s.overflows \in Nat /\ s.wake[t] \in Nat
      /\ TickMod \in Nat
  BY TimesTyped, TaskAssumption DEF Good
<1>2. a \in Nat /\ (s.overflows + 1) * TickMod = a + TickMod
  BY <1>1
<1>3. Now(s) = a + s.tick
  BY DEF Now
<1>4. CASE t \in ToSet(s.delayed)
  <2>1. WakesAt(s, t) = a + s.wake[t] /\ s.tick < s.wake[t]
    BY <1>4 DEF WakesAt, Clocked
  <2> HIDE DEF a
  <2> QED
    BY <1>1, <1>2, <1>3, <2>1
<1>5. CASE t \notin ToSet(s.delayed)
  <2>1. WakesAt(s, t) = a + TickMod + s.wake[t]
    BY <1>2, <1>5 DEF WakesAt
  <2> HIDE DEF a
  <2> QED
    BY <1>1, <1>2, <1>3, <2>1
<1> QED
  BY <1>4, <1>5

\* What the property says of the time.
LEMMA InvImpliesTime == KernelInv /\ TimeInv => TimeKept
<1> SUFFICES ASSUME KernelInv, TimeInv PROVE TimeKept
  OBVIOUS
<1>1. k \in Good /\ k \in KernelState /\ Clocked(k)
  BY DEF KernelInv, TimeInv, Good
<1>2. k.delayed \in Seq(Task) /\ k.overflow \in Seq(Task)
  BY <1>1 DEF KernelState
<1>3. SleepersOnTime
  <2>1. Sorted(k.delayed, k.wake) /\ Sorted(k.overflow, k.wake)
    BY <1>1 DEF Clocked, Ordered, Sorted
  <2>2. ASSUME NEW t \in Task, InDelayedList(k, t)
        PROVE  /\ due[t] > KernelTime(k)
               /\ k.wake[t] = due[t] % TickMod
               /\ due[t] \div TickMod =
                    IF Contains(k.delayed, t) THEN k.overflows ELSE k.overflows + 1
    <3>1. Delayed(k, t) /\ due[t] = WakesAt(k, t)
      BY <1>1, <2>2, DelayedIff DEF TimeInv
    <3>2. Contains(k.delayed, t) <=> t \in ToSet(k.delayed)
      BY <1>2, ContainsIff
    <3> QED
      BY <1>1, <3>1, <3>2, SleepsOn, WakesAtDigits, KernelTimeIsNow
  <2> QED
    BY <2>1, <2>2 DEF SleepersOnTime
<1>4. UnblockTimeSound
  <2> SUFFICES ASSUME k.delayed # <<>> PROVE k.unblock <= k.wake[Head(k.delayed)]
    BY DEF UnblockTimeSound
  <2>1. Head(k.delayed) \in ToSet(k.delayed)
    BY <1>2 DEF ToSet
  <2> QED
    BY <1>1, <2>1 DEF Clocked
<1>5. NoEarlyTimeout
  <2> SUFFICES ASSUME NEW t \in Task, thread[t].then = "expired", thread[t].wait.left = 0
               PROVE  KernelTime(k) >= due[t]
    BY DEF NoEarlyTimeout
  <2> DEFINE th == thread[t]
             n == due[t]
  <2>1. WaitKept(k, Call(t), th, n) /\ n \in Nat
    BY DEF TimeInv
  <2>2. th.wait.epoch * TickMod \in Nat /\ th.wait.entered \in Nat
    <3>1. th \in ThreadState
      BY DEF KernelInv, CallsTyped
    <3> QED
      BY <3>1, TaskAssumption DEF ThreadState, Ticks
  <2>3. Begun(th) \in Nat /\ Begun(th) <= Now(k) /\ (n = Begun(th) + 0 \/ n <= Now(k))
    BY <2>1, <2>2 DEF WaitKept, Begun, Ends
  <2>4. Now(k) \in Nat
    BY <1>1, TimesTyped
  <2> HIDE DEF th, n
  <2>5. Now(k) >= n
    BY <2>1, <2>3, <2>4
  <2> QED
    BY <2>5, KernelTimeIsNow DEF n
<1> QED
  BY <1>3, <1>4, <1>5 DEF TimeKept

\* In every behaviour in which mutexes are given back by who holds them, and in which
\* whoever waits with a time-out looks at the clock within a turn of the tick count, no
\* task sleeps past its time and no wait ends early, across the wraps of the tick count
\* (tasks.c, queue.c).
THEOREM TimeIsKept == Spec /\ []GivenByHolder /\ []LookedAtInTime => []TimeKept
<1> DEFINE Inv == KernelInv /\ TimeInv
           Promised == GivenByHolder /\ LookedAtInTime
<1>1. Init => Inv
  BY InitInv, InitTime
<1>2. Inv /\ Promised /\ [Next]_vars => Inv'
  <2> SUFFICES ASSUME Inv, Promised, [Next]_vars PROVE Inv'
    OBVIOUS
  <2> QED
    BY NextKeeps, NextInTime
<1>3. Inv => TimeKept
  BY InvImpliesTime
<1> QED
  BY <1>1, <1>2, <1>3, PTL DEF Spec

-----------------------------------------------------------------------------
(***************************************************************************)
(* Periods.  The task's own variable has the time at which its last period *)
(* began, in a turn of the tick count.                                     *)
(***************************************************************************)
PeriodKept ==
  \A t \in Task : \A i \in DOMAIN app.calls[t] :
    app.calls[t][i].op = "until" =>
      thread[t].previous = (thread[t].rounds * app.calls[t][i].ticks) % TickMod

\* What a step does to the locals of a task u.
LEMMA LocalsStep ==
  ASSUME KernelInv, [Next]_vars, NEW u \in Task
  PROVE  \/ thread'[u] = thread[u]
         \/ \E pc : thread'[u] = [thread[u] EXCEPT !.pc = pc]
         \/ \E at : thread'[u] = Begin(at, thread[u].previous, thread[u].rounds)
         \/ StartWait(u) \/ CheckTimeOut(u) \/ Inherit(u) \/ Block(u) \/ DelayUntil(u)
<1> DEFINE Goes(t) == \E pc : Goto(t, pc)
           Special(t) == StartWait(t) \/ CheckTimeOut(t) \/ Inherit(t) \/ Block(t) \/ DelayUntil(t)
<1>1. thread \in [Task -> ThreadState] /\ thread[u] \in ThreadState
  BY DEF KernelInv, CallsTyped
<1>2. ASSUME NEW t \in Task, QueueStep(t)
      PROVE  \/ Return(t) \/ Fail(t) \/ Goes(t)
             \/ StartWait(t) \/ CheckTimeOut(t) \/ Inherit(t) \/ Block(t)
  <2>1. Transfer(t) \/ TransferFails(t) \/ Disinherit(t) \/ TakeAgain(t) \/ Reset(t)
          => Return(t) \/ Fail(t)
    BY DEF Transfer, TransferFails, Disinherit, TakeAgain, Reset
  <2>2. GiveRecursive(t) => Return(t) \/ Fail(t)
    <3> DEFINE less == [Q(t) EXCEPT !.recursion = @ - 1]
    <3>1. CASE Q(t).holder # t
      BY <3>1 DEF GiveRecursive
    <3>2. CASE Q(t).holder = t /\ less.recursion # 0
      BY <3>2 DEF GiveRecursive
    <3>3. CASE Q(t).holder = t /\ less.recursion = 0
      BY <3>3 DEF GiveRecursive
    <3> QED
      BY <3>1, <3>2, <3>3
  <2>3. (SuspendScheduler(t) \/ LockQueue(t) \/ TestQueue(t) \/ UnlockSenders(t)
         \/ UnlockReceivers(t) \/ Yield(t))
          => Goes(t)
    BY DEF SuspendScheduler, LockQueue, TestQueue, UnlockSenders, UnlockReceivers, Yield, Goes
  <2>4. Expired(t) => Fail(t) \/ Goes(t)
    BY DEF Expired, Goes
  <2>5. ResumeScheduler(t) => Fail(t) \/ Goes(t)
    <3>1. thread[t].then \in {"blocked", "retry", "expired"}
      BY <1>1 DEF ThreadState
    <3> QED
      BY <3>1 DEF ResumeScheduler, Goes
  <2> HIDE DEF Goes
  <2> QED
    BY <1>2, <2>1, <2>2, <2>3, <2>4, <2>5 DEF QueueStep
<1>3. ASSUME NEW t \in Task, TaskStep(t)
      PROVE  Return(t) \/ (\E pc : Goto(t, pc)) \/ DelayUntil(t)
  BY <1>3 DEF TaskStep, BeginSuspended, Delay, Abort, EndSuspended, Suspend, EndSuspend,
              YieldAndReturn, Resume, PrioritySet
<1>4. Tick \/ Irq \/ UNCHANGED vars => thread' = thread
  BY DEF Tick, Irq, vars
<1>5. ASSUME NEW t \in Task, t # u, Special(t)
      PROVE  thread'[u] = thread[u]
  BY <1>1, <1>5 DEF StartWait, CheckTimeOut, Inherit, Block, DelayUntil
<1>6. ASSUME NEW t \in Task, Return(t) \/ Fail(t) \/ Goes(t)
      PROVE  \/ thread'[u] = thread[u]
             \/ \E pc : thread'[u] = [thread[u] EXCEPT !.pc = pc]
             \/ \E at : thread'[u] = Begin(at, thread[u].previous, thread[u].rounds)
  BY <1>1, <1>6 DEF Return, Fail, Goto
<1> HIDE DEF Goes
<1>7. ASSUME NEW t \in Task, QueueStep(t) \/ TaskStep(t)
      PROVE  (Return(t) \/ Fail(t) \/ Goes(t)) \/ Special(t)
  BY <1>2, <1>3, <1>7 DEF Goes
<1>8. CASE \E t \in Task : QueueStep(t) \/ TaskStep(t)
  <2>1. PICK t \in Task : QueueStep(t) \/ TaskStep(t)
    BY <1>8
  <2>2. CASE Special(t)
    <3> HIDE DEF Special
    <3>1. t # u => thread'[u] = thread[u]
      BY <1>5, <2>2
    <3> QED
      BY <2>2, <3>1 DEF Special
  <2> HIDE DEF Special
  <2> QED
    BY <1>6, <1>7, <2>1, <2>2
<1> QED
  BY <1>4, <1>8 DEF Next

\* Those steps that do more than go on or begin a call.
LEMMA LocalsOf ==
  ASSUME KernelInv, NEW u \in Task
  PROVE  /\ StartWait(u) =>
              /\ thread'[u].previous = thread[u].previous /\ thread'[u].rounds = thread[u].rounds
              /\ thread[u].timed => thread'[u].wait = thread[u].wait
              /\ ~thread[u].timed => thread'[u].wait.left = Call(u).ticks
         /\ CheckTimeOut(u) =>
              /\ thread'[u].previous = thread[u].previous /\ thread'[u].rounds = thread[u].rounds
              /\ thread'[u].wait = xTaskCheckForTimeOut(k, thread[u].wait).wait
              /\ thread'[u].timed = thread[u].timed
         /\ Inherit(u) \/ Block(u) =>
              /\ thread'[u].previous = thread[u].previous /\ thread'[u].rounds = thread[u].rounds
              /\ thread'[u].timed = thread[u].timed /\ thread'[u].wait = thread[u].wait
         /\ DelayUntil(u) =>
              thread'[u].timed = thread[u].timed /\ thread'[u].wait = thread[u].wait
<1>1. thread \in [Task -> ThreadState] /\ thread[u] \in ThreadState
  BY DEF KernelInv, CallsTyped
<1>2. ASSUME StartWait(u)
      PROVE  /\ thread'[u].previous = thread[u].previous /\ thread'[u].rounds = thread[u].rounds
             /\ thread[u].timed => thread'[u].wait = thread[u].wait
             /\ ~thread[u].timed => thread'[u].wait.left = Call(u).ticks
  <2> DEFINE wait == vTaskInternalSetTimeOutState(k, Call(u).ticks)
             th == IF thread[u].timed THEN [thread[u] EXCEPT !.pc = "suspend"]
                   ELSE [thread[u] EXCEPT !.pc = "suspend", !.timed = TRUE, !.wait = wait]
  <2>1. thread'[u] = th
    BY <1>1, <1>2 DEF StartWait
  <2>2. wait.left = Call(u).ticks
    BY DEF vTaskInternalSetTimeOutState
  <2> HIDE DEF wait
  <2>3. /\ th.previous = thread[u].previous /\ th.rounds = thread[u].rounds
        /\ thread[u].timed => th.wait = thread[u].wait
        /\ ~thread[u].timed => th.wait = wait
    BY <1>1 DEF ThreadState
  <2> HIDE DEF th
  <2> QED
    BY <2>1, <2>2, <2>3
<1>3. ASSUME CheckTimeOut(u)
      PROVE  /\ thread'[u].previous = thread[u].previous /\ thread'[u].rounds = thread[u].rounds
             /\ thread'[u].wait = xTaskCheckForTimeOut(k, thread[u].wait).wait
             /\ thread'[u].timed = thread[u].timed
  <2> DEFINE checked == xTaskCheckForTimeOut(k, thread[u].wait)
             pc == IF checked.yes THEN "unlockTx" ELSE "test"
             then == IF checked.yes THEN "expired" ELSE "retry"
             wait == checked.wait
  <2>1. thread' = [thread EXCEPT ![u].wait = wait, ![u].pc = pc, ![u].then = then]
    BY <1>3 DEF CheckTimeOut
  <2> HIDE DEF wait, pc, then
  <2>2. /\ thread'[u].previous = thread[u].previous /\ thread'[u].rounds = thread[u].rounds
        /\ thread'[u].wait = wait /\ thread'[u].timed = thread[u].timed
    BY <1>1, <2>1 DEF ThreadState
  <2> QED
    BY <2>2 DEF wait
<1>4. ASSUME Inherit(u) \/ Block(u)
      PROVE  /\ thread'[u].previous = thread[u].previous /\ thread'[u].rounds = thread[u].rounds
             /\ thread'[u].timed = thread[u].timed /\ thread'[u].wait = thread[u].wait
  <2>1. CASE Inherit(u)
    <3> DEFINE yes == xTaskPriorityInherit(k, Q(u).holder).yes
    <3>1. thread' = [thread EXCEPT ![u].pc = "block", ![u].inherited = yes]
      BY <2>1 DEF Inherit
    <3> HIDE DEF yes
    <3> QED
      BY <1>1, <3>1 DEF ThreadState
  <2>2. CASE Block(u)
    BY <1>1, <2>2 DEF Block, ThreadState
  <2> QED
    BY <1>4, <2>1, <2>2
<1>5. ASSUME DelayUntil(u)
      PROVE  thread'[u].timed = thread[u].timed /\ thread'[u].wait = thread[u].wait
  <2> DEFINE wake == TimeToWake(k.tick, thread[u].previous, Call(u).ticks)
  <2>1. thread' = [thread EXCEPT ![u].pc = "resume", ![u].previous = wake, ![u].rounds = @ + 1]
    BY <1>5 DEF DelayUntil
  <2> HIDE DEF wake
  <2> QED
    BY <1>1, <2>1 DEF ThreadState
<1> QED
  BY <1>2, <1>3, <1>4, <1>5

\* The time of the last period is moved in xTaskDelayUntil alone.
LEMMA PreviousKept ==
  ASSUME KernelInv, [Next]_vars, NEW u \in Task, ~DelayUntil(u)
  PROVE  thread'[u].previous = thread[u].previous /\ thread'[u].rounds = thread[u].rounds
<1>1. CASE StartWait(u) \/ CheckTimeOut(u) \/ Inherit(u) \/ Block(u)
  BY <1>1, LocalsOf
<1>2. CASE \E pc : thread'[u] = [thread[u] EXCEPT !.pc = pc]
  BY <1>2 DEF KernelInv, CallsTyped, ThreadState
<1>3. CASE \E at : thread'[u] = Begin(at, thread[u].previous, thread[u].rounds)
  BY <1>3 DEF Begin
<1> QED
  BY <1>1, <1>2, <1>3, LocalsStep

\* Of two times, the last period began at the one, p in turn a, and the other is now, x in
\* turn b, d ticks later; the next period begins n ticks after the first, at wake, and is
\* still to come where xTaskDelayUntil says so, after the ticks it sleeps.
Apart(m, a, p, b, x, d) == (b * m + x) - (a * m + p) = d
After(m, p, n)          == IF p + n < m THEN p + n ELSE (p + n) - m
ToCome(m, n, p, x, d, wake) ==
  /\ (p + n) % m = wake
  /\ d < n <=> IF x < p THEN wake < p /\ wake > x ELSE wake < p \/ wake > x
  /\ d < n => n - d = IF wake >= x THEN wake - x ELSE (wake - x) + m

\* The numbers of a period.
LEMMA NextPeriod ==
  ASSUME NEW m \in Nat, m > 1, NEW n \in Nat, n < m,
         NEW a \in Int, NEW p \in Nat, p < m, NEW b \in Int, NEW x \in Nat, x < m,
         NEW d \in Nat, d < m, Apart(m, a, p, b, x, d),
         NEW wake, wake = After(m, p, n)
  PROVE  ToCome(m, n, p, x, d, wake)
<1> DEFINE c == b - a
           next == p + n
<1>1. c \in Int /\ c * m = b * m - a * m /\ b * m \in Int /\ a * m \in Int
  OBVIOUS
<1>2. c * m = (d + p) - x
  <2> DEFINE u == b * m
             v == a * m
  <2>1. u \in Int /\ v \in Int /\ (u + x) - (v + p) = d /\ c * m = u - v
    BY <1>1 DEF Apart
  <2> HIDE DEF c, u, v
  <2> QED
    BY <2>1
<1>3. /\ wake \in Nat /\ wake = IF p + n < m THEN p + n ELSE (p + n) - m
  BY DEF After
<1>4. next % m = wake
  <2>1. CASE next < m
    <3>1. next = 0 * m + next /\ next \in Nat /\ next \in Int /\ 0 \in Int /\ m > 0
      OBVIOUS
    <3> HIDE DEF next
    <3>2. next % m = next
      BY <2>1, <3>1, RemainderIs
    <3> QED
      BY <1>3, <2>1, <3>2 DEF next
  <2>2. CASE next >= m
    <3> DEFINE r == next - m
    <3>1. /\ next = 1 * m + r /\ r \in Nat /\ next \in Int /\ 1 \in Int /\ m > 0 /\ r < m
          /\ wake = r
      BY <1>3, <2>2
    <3> HIDE DEF next, r
    <3>2. next % m = r
      BY <3>1, RemainderIs
    <3> QED
      BY <3>1, <3>2
  <2> QED
    BY <2>1, <2>2
<1> HIDE DEF next, c
<1>5. /\ x >= p => d + p = x
      /\ x < p  => d + p = x + m
  <2>1. CASE x >= p
    <3>1. c * m < m /\ c * m > 0 - m
      BY <1>1, <1>2, <2>1
    <3>2. c = 0
      BY <1>1, <3>1, SmallMultiple
    <3>3. c * m = 0
      BY <3>2
    <3> QED
      BY <1>2, <2>1, <3>3
  <2>2. CASE x < p
    <3> DEFINE e == c - 1
    <3>1. e \in Int /\ e * m = c * m - m
      BY <1>1
    <3>2. e * m < m /\ e * m > 0 - m
      BY <1>1, <1>2, <2>2, <3>1
    <3> HIDE DEF e
    <3>3. e = 0
      BY <3>1, <3>2, SmallMultiple
    <3>4. c = 1
      BY <1>1, <3>3 DEF e
    <3>5. c * m = m
      BY <3>4
    <3> QED
      BY <1>2, <2>2, <3>5
  <2> QED
    BY <2>1, <2>2
<1>6. d < n <=> IF x < p THEN wake < p /\ wake > x ELSE wake < p \/ wake > x
  <2>1. CASE x < p
    BY <1>5, <1>3, <2>1
  <2>2. CASE x >= p
    BY <1>5, <1>3, <2>2
  <2> QED
    BY <2>1, <2>2
<1>7. d < n => n - d = IF wake >= x THEN wake - x ELSE (wake - x) + m
  <2>1. CASE x < p
    BY <1>5, <1>3, <2>1
  <2>2. CASE x >= p
    BY <1>5, <1>3, <2>2
  <2> QED
    BY <2>1, <2>2
<1> QED
  BY <1>4, <1>6, <1>7 DEF next, ToCome

\* The remainder of the next multiple.
LEMMA NextMultiple ==
  ASSUME NEW m \in Nat, m > 0, NEW r \in Nat, NEW n \in Nat
  PROVE  (((r * n) % m) + n) % m = ((r + 1) * n) % m
<1> DEFINE x == r * n
           q == x \div m
           p == x % m
           y == p + n
           c == y \div m
           d == y % m
           z == (r + 1) * n
<1>1. x \in Int /\ z \in Int /\ z = x + n
  OBVIOUS
<1> HIDE DEF x, z
<1>2. x = q * m + p /\ q \in Int /\ p \in Nat
  BY <1>1, Division
<1> HIDE DEF q, p
<1>3. y \in Int /\ y = c * m + d /\ c \in Int /\ d \in Nat /\ d < m
  <2>1. y \in Int
    BY <1>2
  <2> HIDE DEF y
  <2> QED
    BY <2>1, Division
<1>4. z = (q * m + c * m) + d
  <2> DEFINE u == q * m
             v == c * m
  <2>1. u \in Int /\ v \in Int
    BY <1>2, <1>3
  <2>2. x = u + p /\ p + n = v + d /\ z = x + n
    BY <1>1, <1>2, <1>3
  <2> HIDE DEF u, v, c, d
  <2> QED
    BY <1>2, <1>3, <2>1, <2>2 DEF u, v
<1> HIDE DEF c, d
<1> DEFINE e == q + c
<1>5. e \in Int /\ e * m = q * m + c * m
  BY <1>2, <1>3
<1> HIDE DEF e
<1>6. z % m = d
  <2>1. z = e * m + d
    BY <1>4, <1>5
  <2> QED
    BY <1>1, <1>3, <1>5, <2>1, RemainderIs
<1> QED
  BY <1>6 DEF d, y, p, x, z

\* An application goes on as it began.
LEMMA AppKept == [Next]_vars => app' = app
BY DEF Next, vars, Tick, Irq,
       QueueStep, Transfer, TransferFails, StartWait, SuspendScheduler, LockQueue,
       CheckTimeOut, TestQueue, Inherit, Block, UnlockSenders, UnlockReceivers,
       ResumeScheduler, Yield, Expired, Disinherit, TakeAgain, GiveRecursive, Reset,
       TaskStep, BeginSuspended, Delay, DelayUntil, Abort, EndSuspended, Suspend,
       EndSuspend, YieldAndReturn, Resume, PrioritySet

\* A call of xTaskDelayUntil.
LEMMA UntilCall ==
  ASSUME KernelInv, NEW t \in Task, Running(t, {"until"}, "suspended")
  PROVE  /\ t = k.current /\ k.current \in Task /\ Call(t).op = "until" /\ k \in Good
         /\ Call(t).ticks \in Ticks /\ Call(t).ticks \in Nat /\ Call(t).ticks < TickMod
         /\ thread[t].at \in DOMAIN app.calls[t] /\ thread[t] \in ThreadState
         /\ thread[t].previous \in Ticks /\ thread[t].rounds \in Nat
         /\ IsReady(k, t)
<1>1. /\ t = k.current /\ k.current \in Task /\ Call(t).op = "until" /\ k \in Good
      /\ IsCall(Call(t), Len(app.calls[t])) /\ thread[t] \in ThreadState
      /\ thread[t].at \in DOMAIN app.calls[t] /\ IsReady(k, t)
  BY RunningFacts DEF Awake
<1>2. Call(t).ticks \in Ticks
  BY <1>1 DEF IsCall
<1>3. \A n \in Ticks : n \in Nat /\ n < TickMod
  BY TaskAssumption DEF Ticks
<1>4. thread[t].previous \in Ticks /\ thread[t].rounds \in Nat
  BY <1>1 DEF ThreadState
<1> QED
  BY <1>1, <1>2, <1>3, <1>4

\* Each step keeps the time of the last period: the call moves it by one, and nothing else.
LEMMA PeriodStep ==
  ASSUME KernelInv, OnePeriod, PeriodKept, [Next]_vars
  PROVE  PeriodKept'
<1> SUFFICES ASSUME NEW t \in Task, NEW i \in DOMAIN app'.calls[t], app'.calls[t][i].op = "until"
             PROVE  thread'[t].previous = (thread'[t].rounds * app'.calls[t][i].ticks) % TickMod
  BY DEF PeriodKept
<1> DEFINE n == app.calls[t][i].ticks
<1>1. app' = app
  BY AppKept
<1>2. thread[t].previous = (thread[t].rounds * n) % TickMod
  BY <1>1 DEF PeriodKept
<1>3. CASE ~DelayUntil(t)
  BY <1>1, <1>2, <1>3, PreviousKept
<1>4. CASE DelayUntil(t)
  <2> DEFINE wake == TimeToWake(k.tick, thread[t].previous, Call(t).ticks)
  <2>1. /\ Running(t, {"until"}, "suspended")
        /\ thread' = [thread EXCEPT ![t].pc = "resume", ![t].previous = wake, ![t].rounds = @ + 1]
    BY <1>4 DEF DelayUntil
  <2>2. /\ Call(t).op = "until" /\ thread[t].at \in DOMAIN app.calls[t]
        /\ Call(t).ticks \in Nat /\ thread[t].rounds \in Nat /\ thread[t] \in ThreadState
    BY <2>1, UntilCall
  <2>3. Call(t).ticks = n
    <3>1. app \in Apps
      BY DEF KernelInv, CallsTyped
    <3> QED
      BY <1>1, <2>2, <3>1 DEF OnePeriod, Call
  <2>4. wake = (thread[t].previous + n) % TickMod
    BY <2>3 DEF TimeToWake
  <2> HIDE DEF wake
  <2>5. thread'[t].previous = wake /\ thread'[t].rounds = thread[t].rounds + 1
    BY <2>1, <2>2 DEF KernelInv, CallsTyped, ThreadState
  <2>6. n \in Nat /\ TickMod \in Nat /\ TickMod > 0
    BY <2>2, <2>3, TaskAssumption
  <2> HIDE DEF n
  <2>7. wake = ((thread[t].rounds + 1) * n) % TickMod
    <3> DEFINE r == thread[t].rounds
    <3>1. r \in Nat /\ wake = (((r * n) % TickMod) + n) % TickMod
      BY <1>2, <2>2, <2>4
    <3> HIDE DEF r
    <3>2. (((r * n) % TickMod) + n) % TickMod = ((r + 1) * n) % TickMod
      BY <2>6, <3>1, NextMultiple
    <3> QED
      BY <3>1, <3>2 DEF r
  <2> QED
    BY <1>1, <2>5, <2>7 DEF n
<1> QED
  BY <1>3, <1>4

\* The step of a call of xTaskDelayUntil that reaches its end is the one that decides.
LEMMA UntilStep ==
  ASSUME KernelInv, [Next]_vars, NEW t \in Task, Running(t, {"until"}, "suspended"),
         thread'[t].pc = "resume"
  PROVE  DelayUntil(t)
<1>1. t = k.current /\ Call(t).op = "until" /\ thread[t].pc = "suspended"
  BY UntilCall DEF Running
<1>2. thread' # thread
  BY <1>1
<1>3. ASSUME NEW u \in Task, QueueStep(u)
      PROVE  u = k.current /\ Call(u).op \in Waits \cup {"take recursive", "give recursive", "reset"}
  BY <1>3 DEF QueueStep, Transfer, TransferFails, StartWait, SuspendScheduler, LockQueue,
              CheckTimeOut, TestQueue, Inherit, Block, UnlockSenders, UnlockReceivers,
              ResumeScheduler, Yield, Expired, Disinherit, TakeAgain, GiveRecursive, Reset,
              Running, Waits, Looks, Takes
<1>4. ASSUME NEW u \in Task, TaskStep(u), ~DelayUntil(u)
      PROVE  u = k.current /\ (thread[u].pc # "suspended" \/ Call(u).op # "until")
  BY <1>4 DEF TaskStep, BeginSuspended, Delay, Abort, EndSuspended, Suspend, EndSuspend,
              YieldAndReturn, Resume, PrioritySet, Running
<1>5. ASSUME NEW u \in Task, QueueStep(u)
      PROVE  FALSE
  BY <1>1, <1>3, <1>5 DEF Waits, Looks, Takes, Sends
<1>6. ASSUME NEW u \in Task, TaskStep(u)
      PROVE  DelayUntil(t)
  <2>1. CASE DelayUntil(u)
    <3>1. u = k.current
      BY <2>1 DEF DelayUntil, Running
    <3> QED
      BY <1>1, <2>1, <3>1
  <2>2. CASE ~DelayUntil(u)
    BY <1>1, <1>4, <1>6, <2>2
  <2> QED
    BY <2>1, <2>2
<1>7. Tick \/ Irq \/ UNCHANGED vars => thread' = thread
  BY DEF Tick, Irq, vars
<1> QED
  BY <1>2, <1>5, <1>6, <1>7 DEF Next

\* It sleeps until its next period, if that is to come.
LEMMA UntilExact ==
  ASSUME KernelInv, TimeInv, PeriodKept, NEW t \in Task, DelayUntil(t),
         KernelTime(k) - (thread[t].rounds * Call(t).ticks) \in 0..(TickMod - 1)
  PROVE  LET next == (thread[t].rounds * Call(t).ticks) + Call(t).ticks
         IN /\ InDelayedList(k', t) <=> KernelTime(k) < next
            /\ InDelayedList(k', t) => due'[t] = next
<1> DEFINE n == Call(t).ticks
           last == thread[t].rounds * n
           m == TickMod
           a == last \div m
           p == thread[t].previous
           b == k.overflows
           x == k.tick
           d == Now(k) - last
           wake == TimeToWake(x, p, n)
           wait == (wake - x) % m
<1>1. /\ Running(t, {"until"}, "suspended") /\ RecordWait(wait)
      /\ k' = IF ShouldDelay(x, p, wake) THEN prvAddCurrentTaskToDelayedList(k, wait, FALSE) ELSE k
      /\ thread' = [thread EXCEPT ![t].pc = "resume", ![t].previous = wake, ![t].rounds = @ + 1]
  BY DEF DelayUntil
<1>2. /\ t = k.current /\ k.current \in Task /\ Call(t).op = "until" /\ k \in Good
      /\ n \in Nat /\ n < m /\ thread[t].at \in DOMAIN app.calls[t] /\ thread[t] \in ThreadState
      /\ p \in Ticks /\ thread[t].rounds \in Nat /\ IsReady(k, t)
  BY <1>1, UntilCall
<1>3. m \in Nat /\ m > 1 /\ \A i \in Ticks : i \in Nat /\ i < m
  BY TaskAssumption DEF Ticks
<1>4. last \in Nat /\ Now(k) \in Nat /\ x \in Ticks /\ b \in Int /\ Now(k) = b * m + x
  <2>1. last \in Nat
    BY <1>2
  <2>2. Now(k) \in Nat /\ x \in Ticks /\ b \in Int
    <3>1. k \in KernelState
      BY <1>2 DEF Good
    <3>2. k.tick \in Ticks
      BY <3>1 DEF KernelState
    <3> QED
      BY <3>1, <3>2, TimesTyped
  <2> QED
    BY <2>1, <2>2 DEF Now
<1>5. p = last % m
  BY <1>2 DEF PeriodKept, Call
<1>6. d \in Nat /\ d < m
  BY <1>3, KernelTimeIsNow
<1>7. last = a * m + p /\ a \in Int
  <2> HIDE DEF last
  <2> QED
    BY <1>3, <1>4, <1>5, Division
<1>8. p \in Nat /\ p < m /\ x \in Nat /\ x < m
  BY <1>2, <1>3, <1>4
<1>9. ~thread[t].timed /\ ~thread'[t].timed
  <2>1. WaitKept(k, Call(t), thread[t], due[t])
    BY DEF TimeInv
  <2>2. thread'[t].timed = thread[t].timed
    <3> HIDE DEF wake
    <3> QED
      BY <1>1, <1>2 DEF KernelInv, CallsTyped, ThreadState
  <2> QED
    BY <1>2, <2>1, <2>2 DEF WaitKept, Waits, Sends, Looks, Takes
<1>10. ~Delayed(k, t)
  BY <1>2, ReadyNotDelayed
<1>11. /\ wake \in Ticks
       /\ d < n <=> ShouldDelay(x, p, wake)
       /\ d < n => wait = n - d
  <2> DEFINE w == IF p + n < m THEN p + n ELSE (p + n) - m
  <2>1. (b * m + x) - (a * m + p) = d
    BY <1>4, <1>7
  <2> HIDE DEF last, a, d
  <2>2. /\ (p + n) % m = w
        /\ d < n <=> IF x < p THEN w < p /\ w > x ELSE w < p \/ w > x
        /\ d < n => n - d = IF w >= x THEN w - x ELSE (w - x) + m
    <3>1. w = After(m, p, n) /\ Apart(m, a, p, b, x, d)
      BY <2>1 DEF After, Apart
    <3> HIDE DEF n, m, b, x, p, w
    <3>2. m \in Nat /\ m > 1 /\ n \in Nat /\ n < m /\ a \in Int /\ p \in Nat /\ p < m
      BY <1>2, <1>3, <1>7, <1>8
    <3>3. b \in Int /\ x \in Nat /\ x < m /\ d \in Nat /\ d < m
      BY <1>4, <1>6, <1>8
    <3>4. ToCome(m, n, p, x, d, w)
      BY <3>1, <3>2, <3>3, NextPeriod
    <3> QED
      BY <3>4 DEF ToCome
  <2> HIDE DEF w
  <2>3. wake = w
    BY <2>2 DEF TimeToWake
  <2>4. w \in Ticks
    <3>1. p + n \in Int
      BY <1>2, <1>8
    <3> QED
      BY <2>2, <3>1, TicksWrap
  <2>5. wait = IF w >= x THEN w - x ELSE (w - x) + m
    BY <1>4, <2>3, <2>4, TicksUntil
  <2> HIDE DEF wake, wait
  <2> QED
    BY <2>2, <2>3, <2>4, <2>5 DEF ShouldDelay
<1> HIDE DEF wake, wait, last
<1>12. (d < n <=> Now(k) < last + n) /\ (d < n => Now(k) + (n - d) = last + n)
  BY <1>2, <1>4
<1> HIDE DEF d
<1>13. CASE d < n
  <2>1. wait \in Ticks /\ wait # 0
    <3>1. wait = n - d /\ wait \in Nat /\ wait < m /\ wait # 0
      BY <1>2, <1>3, <1>6, <1>11, <1>13
    <3> QED
      BY <1>3, <3>1 DEF Ticks
  <2>2. k' = prvAddCurrentTaskToDelayedList(k, wait, FALSE)
    BY <1>1, <1>11, <1>13
  <2>3. Dozes(k, k', t, wait, FALSE)
    BY <1>2, <2>1, <2>2, AddToDelayedTimes
  <2>4. InDelayedList(k', t) /\ ~InDelayedList(k, t)
    <3>1. k'.delayed \in Seq(Task) /\ k'.overflow \in Seq(Task)
      <4>1. k' \in Good
        BY <1>2, <2>1, <2>2, AddToDelayedGood DEF SleepsIn
      <4> QED
        BY <4>1 DEF Good, KernelState
    <3>2. Delayed(k', t)
      BY <2>3 DEF Dozes
    <3> QED
      BY <1>2, <1>10, <3>1, <3>2, ContainsIff, DelayedIff DEF InDelayedList, Delayed
  <2>5. due'[t] = KernelTime(k) + wait
    BY <1>1, <1>9, <2>4 DEF RecordWait, DelayBegins
  <2>6. due'[t] = last + n
    BY <1>11, <1>12, <1>13, <2>5, KernelTimeIsNow
  <2> QED
    BY <1>12, <1>13, <2>4, <2>6, KernelTimeIsNow DEF last
<1>14. CASE ~(d < n)
  <2>1. k' = k
    BY <1>1, <1>11, <1>14
  <2>2. ~InDelayedList(k', t)
    BY <1>2, <1>10, <2>1, DelayedIff
  <2> QED
    BY <1>12, <1>14, <2>2, KernelTimeIsNow DEF last
<1> QED
  BY <1>13, <1>14

\* At the start no period has begun.
LEMMA InitPeriod == Init => PeriodKept
<1> SUFFICES ASSUME Init, NEW t \in Task, NEW i \in DOMAIN app.calls[t],
                    app.calls[t][i].op = "until"
             PROVE  thread[t].previous = (thread[t].rounds * app.calls[t][i].ticks) % TickMod
  BY DEF PeriodKept
<1> DEFINE n == app.calls[t][i].ticks
<1>1. thread[t].previous = 0 /\ thread[t].rounds = 0
  BY DEF Init, Begin
<1>2. n \in Nat
  <2>1. app \in Apps /\ IsApp(app)
    BY AppsAssumption DEF Init
  <2>2. IsCall(app.calls[t][i], Len(app.calls[t]))
    BY <2>1 DEF IsApp
  <2> QED
    BY <2>2, TaskAssumption DEF IsCall, Ticks
<1> HIDE DEF n
<1>3. 0 * n = 0 /\ TickMod \in Nat /\ TickMod > 0
  BY <1>2, TaskAssumption
<1>4. 0 % TickMod = 0
  <2>1. 0 = 0 * TickMod + 0 /\ 0 \in Nat /\ 0 \in Int
    BY <1>3
  <2> QED
    BY <1>3, <2>1, RemainderIs
<1> QED
  BY <1>1, <1>3, <1>4 DEF n

\* A task that waits for the clock alone is woken in time.
LEMMA WokenInTime ==
  ASSUME KernelInv, KernelInv', TimeInv, InTime,
         NEW t \in Task, InDelayedList(k, t), ~InEventList(k, t), ~InDelayedList(k', t)
  PROVE  \/ KernelTime(k') >= due[t]
         \/ Call(k.current).op \in {"suspend", "abort"}
<1>1. k \in Good /\ k' \in Good
  BY DEF KernelInv
<1>2. Delayed(k, t) /\ Free(k, t) /\ ~Delayed(k', t)
  BY <1>1, DelayedIff, InEventListIff
<1>3. due[t] = WakesAt(k, t) /\ due[t] \in Nat
  BY <1>2 DEF TimeInv
<1>4. Now(k') \in Nat
  BY <1>1, TimesTyped DEF Good
<1>5. WakesAt(k, t) <= Now(k') \/ Call(k.current).op \in {"suspend", "abort"}
  BY <1>2 DEF InTime
<1> QED
  BY <1>3, <1>4, <1>5, KernelTimeIsNow

\* In every behaviour as above in which each task that delays itself periodically has
\* one period, a delay is as long as it was asked to be, and no periodic task drifts
\* (tasks.c: vTaskDelay, xTaskDelayUntil, xTaskIncrementTick).
THEOREM DelaysAreExact ==
  ASSUME OnePeriod
  PROVE  Spec /\ []GivenByHolder /\ []LookedAtInTime => DelaysExact
<1> DEFINE Inv == KernelInv /\ TimeInv /\ PeriodKept
           Promised == GivenByHolder /\ LookedAtInTime
           NotEarly ==
             \A t \in Task :
               InDelayedList(k, t) /\ ~InEventList(k, t) /\ ~InDelayedList(k', t) =>
                 \/ KernelTime(k') >= due[t]
                 \/ k.note[t].state = "waiting" /\ k'.note[t].state = "received"
                 \/ Call(k.current).op \in {"suspend", "abort", "delete"}
           NotDrifting ==
             \A t \in Task :
               Running(t, {"until"}, "suspended") /\ thread'[t].pc = "resume" =>
                 LET last == thread[t].rounds * Call(t).ticks
                     next == last + Call(t).ticks
                 IN KernelTime(k) - last \in 0..(TickMod - 1) =>
                      /\ InDelayedList(k', t) <=> KernelTime(k) < next
                      /\ InDelayedList(k', t) => due'[t] = next
<1>1. Init => Inv
  BY InitInv, InitTime, InitPeriod
<1>2. Inv /\ Promised /\ [Next]_vars => Inv' /\ InTime
  <2> SUFFICES ASSUME Inv, Promised, [Next]_vars PROVE Inv' /\ InTime
    OBVIOUS
  <2>1. KernelInv'
    BY NextKeeps
  <2>2. TimeInv' /\ InTime
    BY NextInTime
  <2>3. PeriodKept'
    BY PeriodStep
  <2> QED
    BY <2>1, <2>2, <2>3
<1>3. Inv /\ Promised /\ [Next]_vars => [NotEarly]_vars
  <2> SUFFICES ASSUME Inv, Promised, [Next]_vars PROVE NotEarly
    OBVIOUS
  <2>1. KernelInv' /\ InTime
    BY <1>2
  <2> QED
    BY <2>1, WokenInTime
<1>4. Inv /\ Promised /\ [Next]_vars => [NotDrifting]_vars
  <2> SUFFICES ASSUME Inv, Promised, [Next]_vars,
                      NEW t \in Task, Running(t, {"until"}, "suspended"), thread'[t].pc = "resume",
                      KernelTime(k) - (thread[t].rounds * Call(t).ticks) \in 0..(TickMod - 1)
               PROVE  LET next == (thread[t].rounds * Call(t).ticks) + Call(t).ticks
                      IN /\ InDelayedList(k', t) <=> KernelTime(k) < next
                         /\ InDelayedList(k', t) => due'[t] = next
    OBVIOUS
  <2>1. DelayUntil(t)
    BY UntilStep
  <2> QED
    BY <2>1, UntilExact
<1> QED
  BY <1>1, <1>2, <1>3, <1>4, PTL DEF Spec, DelaysExact, NoEarlyWake, NoDrift

-----------------------------------------------------------------------------
(***************************************************************************)
(* Calls that wait for ever, or not at all, have no time to look at, so    *)
(* the applications that have no others need no promise.                   *)
(***************************************************************************)
\* What a call has left of its wait is what it began with.
Unlimited == \A t \in Task : thread[t].timed => thread[t].wait.left = portMAX_DELAY

\* It is never counted down.
LEMMA UnlimitedStep ==
  ASSUME KernelInv, NoTimeouts, Unlimited, [Next]_vars
  PROVE  Unlimited'
<1> SUFFICES ASSUME NEW u \in Task, thread'[u].timed
             PROVE  thread'[u].wait.left = portMAX_DELAY
  BY DEF Unlimited
<1>1. thread[u] \in ThreadState /\ app \in Apps
  BY DEF KernelInv, CallsTyped
<1>2. CASE thread'[u] = thread[u]
  BY <1>2 DEF Unlimited
<1>3. CASE \E pc : thread'[u] = [thread[u] EXCEPT !.pc = pc]
  BY <1>1, <1>3 DEF Unlimited, ThreadState
<1>4. CASE \E at : thread'[u] = Begin(at, thread[u].previous, thread[u].rounds)
  BY <1>4 DEF Begin
<1>5. CASE StartWait(u)
  <2>1. CASE thread[u].timed
    BY <1>5, <2>1, LocalsOf DEF Unlimited
  <2>2. CASE ~thread[u].timed
    <3>1. Call(u).ticks # 0
      BY <1>5, <2>2 DEF StartWait, TicksToWait
    <3>2. Call(u).op \in Waits /\ thread[u].at \in DOMAIN app.calls[u]
      BY <1>5, RunningFacts DEF StartWait, Running
    <3>3. Call(u).ticks = portMAX_DELAY
      BY <1>1, <3>1, <3>2 DEF NoTimeouts, Call
    <3> QED
      BY <1>5, <2>2, <3>3, LocalsOf
  <2> QED
    BY <2>1, <2>2
<1>6. CASE CheckTimeOut(u)
  <2>1. thread[u].timed /\ thread'[u].wait = xTaskCheckForTimeOut(k, thread[u].wait).wait
    BY <1>6, LocalsOf
  <2>2. thread[u].wait.left = portMAX_DELAY
    BY <2>1 DEF Unlimited
  <2>3. xTaskCheckForTimeOut(k, thread[u].wait).wait = thread[u].wait
    BY <2>2 DEF xTaskCheckForTimeOut
  <2> QED
    BY <2>1, <2>2, <2>3
<1>7. CASE Inherit(u) \/ Block(u) \/ DelayUntil(u)
  <2>1. thread'[u].timed = thread[u].timed /\ thread'[u].wait = thread[u].wait
    BY <1>7, LocalsOf
  <2> QED
    BY <2>1 DEF Unlimited
<1> QED
  BY <1>2, <1>3, <1>4, <1>5, <1>6, <1>7, LocalsStep

\* So nobody looks at the clock too late.
LEMMA NoneLate ==
  ASSUME NoTimeouts
  PROVE  Spec /\ []GivenByHolder => []LookedAtInTime
<1> DEFINE Inv == KernelInv /\ TimeInv /\ Unlimited
<1>1. Init => Inv
  <2>1. Init => Unlimited
    BY DEF Init, Begin, Unlimited
  <2> QED
    BY <2>1, InitInv, InitTime
<1>2. Inv => LookedAtInTime
  <2> SUFFICES ASSUME Inv, NEW t \in Task, Running(t, Waits, "check")
               PROVE  thread[t].wait.left = portMAX_DELAY
    BY DEF LookedAtInTime
  <2>1. WaitKept(k, Call(t), thread[t], due[t])
    BY DEF TimeInv
  <2>2. thread[t].timed
    BY <2>1 DEF WaitKept, Running, Timed
  <2> QED
    BY <2>2 DEF Unlimited
<1>3. Inv /\ GivenByHolder /\ [Next]_vars => Inv'
  <2> SUFFICES ASSUME Inv, GivenByHolder, [Next]_vars PROVE Inv'
    OBVIOUS
  <2>1. LookedAtInTime
    BY <1>2
  <2>2. KernelInv'
    BY NextKeeps
  <2>3. TimeInv'
    BY <2>1, NextInTime
  <2>4. Unlimited'
    BY UnlimitedStep
  <2> QED
    BY <2>2, <2>3, <2>4
<1> QED
  BY <1>1, <1>2, <1>3, PTL DEF Spec

\* Of such applications without mutexes, that of main.c among them, time is kept in
\* every behaviour.
THEOREM TimeIsKeptWithoutTimeouts ==
  ASSUME NoTimeouts, OnePeriod,
         \A a \in Apps : \A id \in Queue : a.queues[id].kind # "mutex"
  PROVE  Spec => []TimeKept /\ DelaysExact
<1>1. Spec => []GivenByHolder
  BY NoneGiven
<1>2. Spec /\ []GivenByHolder => []LookedAtInTime
  BY NoneLate
<1>3. Spec /\ []GivenByHolder /\ []LookedAtInTime => DelaysExact
  BY DelaysAreExact
<1> QED
  BY <1>1, <1>2, <1>3, TimeIsKept, PTL

-----------------------------------------------------------------------------
(***************************************************************************)
(* Mutexes, of which an application gives back what it takes.              *)
(***************************************************************************)
\* How often a task with these calls has taken q when it comes to the call at.
TakenBy(calls, q) == CHOOSE taken \in Counts(calls) : Tracks(calls, q, taken)

Taken(calls, q, at) == IF calls = <<>> THEN 0 ELSE TakenBy(calls, q)[at]

HasTaken(t, q) == Taken(app.calls[t], q, thread[t].at)

\* What the mutex v records, when each task has taken it so often.
Records(v, n, counted) ==
  /\ v.length = 1
  /\ Len(v.items) = IF v.holder = NoTask THEN 1 ELSE 0
  /\ \A t \in Task : IF v.holder = t THEN n[t] > 0 ELSE n[t] = 0
  /\ v.recursion = IF v.holder # NoTask /\ counted THEN n[v.holder] ELSE 0

\* A call that cannot fail is over in one step.
AtOnce(call, q, n, pc) == Certain(call, q, n) => pc = "start"

MutexKept(q) ==
  /\ Records(queue[q], [t \in Task |-> HasTaken(t, q)], UsedBy(app, q, Counted))
  /\ \A t \in Task : app.calls[t] # <<>> => AtOnce(Call(t), q, HasTaken(t, q), thread[t].pc)

HeldOf(t) == {q \in MutexesOf(app) : queue[q].holder = t}

\* The inductive invariant, beside that of the lists.
MutexInv ==
  /\ \A q \in Queue : app.queues[q].kind # "mutex" => queue[q].holder = NoTask
  /\ \A q \in MutexesOf(app) : MutexKept(q)
  /\ \A t \in Task : k.held[t] = Cardinality(HeldOf(t))

\* What the program of a task says of its calls.
LEMMA TracksCall ==
  ASSUME MutexesGivenBack, CallsTyped, NEW t \in Task, app.calls[t] # <<>>,
         NEW q \in MutexesOf(app)
  PROVE  /\ HasTaken(t, q) \in Nat
         /\ On(Call(t), q) => /\ Call(t).op # "reset"
                              /\ Call(t).op = "receive" => HasTaken(t, q) = 0
                              /\ Call(t).op \in Sends => HasTaken(t, q) = 1
         /\ ~Vain(Call(t), q, HasTaken(t, q)) =>
              Taken(app.calls[t], q, NextOf(app.calls[t], thread[t].at))
              = TakenAfter(Call(t), q, HasTaken(t, q))
         /\ Call(t).op \in Waits \cup Gives /\ ~Certain(Call(t), q, HasTaken(t, q)) =>
              Taken(app.calls[t], q, Call(t).fail) = HasTaken(t, q)
         /\ Taken(app.calls[t], q, 1) = 0
<1> DEFINE calls == app.calls[t]
           taken == TakenBy(calls, q)
           at == thread[t].at
<1>1. app \in Apps /\ at \in DOMAIN calls /\ 1 \in DOMAIN calls /\ Len(calls) \in Nat
  <2>1. app \in Apps /\ at \in 1..Len(calls) /\ DOMAIN calls = 1..Len(calls) /\ Len(calls) \in Nat \ {0}
    BY AppTyped DEF CallsTyped
  <2> HIDE DEF calls, at
  <2> QED
    BY <2>1
<1>2. \E f \in Counts(calls) : Tracks(calls, q, f)
  BY <1>1 DEF MutexesGivenBack, GivesBack
<1>3. taken \in Counts(calls) /\ Tracks(calls, q, taken)
  BY <1>2 DEF TakenBy
<1>4. \A i : Taken(calls, q, i) = taken[i]
  BY DEF Taken
<1>5. HasTaken(t, q) = taken[at]
  BY <1>4 DEF HasTaken
<1>6. Call(t) = calls[at]
  BY DEF Call
<1> HIDE DEF taken, calls, at
<1>7. \A i \in DOMAIN calls : taken[i] \in Nat
  BY <1>1, <1>3 DEF Counts
<1>8. taken[1] = 0
  BY <1>1, <1>3 DEF Tracks
<1> QED
  BY <1>1, <1>3, <1>4, <1>5, <1>6, <1>7, <1>8, SMTT(30) DEF Tracks, calls, at

-----------------------------------------------------------------------------
\* The record of a mutex that is left alone.
LEMMA SameRecords ==
  ASSUME NEW v, NEW w, NEW n, NEW counted, Records(v, n, counted),
         w.length = v.length, Len(w.items) = Len(v.items),
         w.holder = v.holder, w.recursion = v.recursion
  PROVE  Records(w, n, counted)
BY DEF Records

\* A step of a task, for one mutex.
LEMMA MutexStep ==
  ASSUME MutexesGivenBack, CallsTyped, app' = app, NEW q \in MutexesOf(app), MutexKept(q),
         NEW t \in Task, app.calls[t] # <<>>, NEW th, thread' = [thread EXCEPT ![t] = th],
         NEW m, Taken(app.calls[t], q, th.at) = m, AtOnce(app.calls[t][th.at], q, m, th.pc),
         Records(queue'[q], [[u \in Task |-> HasTaken(u, q)] EXCEPT ![t] = m],
                 UsedBy(app, q, Counted))
  PROVE  MutexKept(q)'
<1> DEFINE n == [u \in Task |-> HasTaken(u, q)]
           new == [u \in Task |-> Taken(app'.calls[u], q, thread'[u].at)]
<1>1. thread \in [Task -> ThreadState]
  BY DEF CallsTyped
<1>2. thread'[t] = th /\ \A u \in Task \ {t} : thread'[u] = thread[u]
  BY <1>1
<1>3. new[t] = m /\ \A u \in Task \ {t} : new[u] = n[u]
  BY <1>2 DEF HasTaken
<1>4. new = [n EXCEPT ![t] = m]
  BY <1>3
<1>5. Records(queue'[q], new, UsedBy(app, q, Counted)')
  <2>1. UsedBy(app, q, Counted)' = UsedBy(app, q, Counted)
    BY DEF UsedBy
  <2> HIDE DEF n, new
  <2> QED
    BY <1>4, <2>1 DEF n
<1>6. ASSUME NEW u \in Task, app'.calls[u] # <<>>
      PROVE  AtOnce(app'.calls[u][thread'[u].at], q, Taken(app'.calls[u], q, thread'[u].at), thread'[u].pc)
  <2>1. CASE u = t
    BY <1>2, <2>1
  <2>2. CASE u # t
    BY <1>2, <1>6, <2>2 DEF MutexKept, HasTaken, Call
  <2> QED
    BY <2>1, <2>2
<1> QED
  BY <1>5, <1>6 DEF MutexKept, HasTaken, Call

-----------------------------------------------------------------------------
\* Where a call goes on.
LEMMA ReturnTo ==
  ASSUME NEW t \in Task, Return(t)
  PROVE  \E th : /\ thread' = [thread EXCEPT ![t] = th] /\ th.pc = "start"
                 /\ th.at = NextOf(app.calls[t], thread[t].at)
<1> DEFINE at == NextOf(app.calls[t], thread[t].at)
           th == Begin(at, thread[t].previous, thread[t].rounds)
<1>1. thread' = [thread EXCEPT ![t] = th]
  BY DEF Return, NextOf
<1>2. th.pc = "start" /\ th.at = at
  BY DEF Begin
<1> HIDE DEF th
<1> QED
  BY <1>1, <1>2

\* Where it goes on when it fails.
LEMMA FailTo ==
  ASSUME NEW t \in Task, Fail(t)
  PROVE  \E th : /\ thread' = [thread EXCEPT ![t] = th] /\ th.pc = "start"
                 /\ th.at = Call(t).fail
<1> DEFINE th == Begin(Call(t).fail, thread[t].previous, thread[t].rounds)
<1>1. thread' = [thread EXCEPT ![t] = th]
  BY DEF Fail
<1>2. th.pc = "start" /\ th.at = Call(t).fail
  BY DEF Begin
<1> HIDE DEF th
<1> QED
  BY <1>1, <1>2

\* t goes to where it has taken each mutex as often as it had.
Steady(t) ==
  \E th : /\ thread' = [thread EXCEPT ![t] = th]
          /\ \A q \in MutexesOf(app) :
               /\ Taken(app.calls[t], q, th.at) = HasTaken(t, q)
               /\ AtOnce(app.calls[t][th.at], q, HasTaken(t, q), th.pc)

\* A call that is under way can fail,
CanFail(t) == \A q \in MutexesOf(app) : ~Certain(Call(t), q, HasTaken(t, q))

\* since one that cannot has ended with its first step.
LEMMA UnderWayCanFail ==
  ASSUME MutexInv, NEW t \in Task, app.calls[t] # <<>>, thread[t].pc # "start"
  PROVE  CanFail(t)
BY DEF MutexInv, MutexKept, AtOnce, CanFail

\* so that it goes on
LEMMA GoesOnSteady ==
  ASSUME NEW t \in Task, CanFail(t), NEW th, thread' = [thread EXCEPT ![t] = th], th.at = thread[t].at
  PROVE  Steady(t)
BY DEF Steady, CanFail, AtOnce, HasTaken, Call

\* or fails steadily.
LEMMA FailSteady ==
  ASSUME MutexesGivenBack, CallsTyped, NEW t \in Task, app.calls[t] # <<>>, CanFail(t),
         Fail(t), Call(t).op \in Waits \cup Gives
  PROVE  Steady(t)
<1>1. PICK th : /\ thread' = [thread EXCEPT ![t] = th] /\ th.pc = "start"
                /\ th.at = Call(t).fail
  BY FailTo
<1>2. \A q \in MutexesOf(app) : Taken(app.calls[t], q, th.at) = HasTaken(t, q)
  BY <1>1, TracksCall DEF CanFail
<1> QED
  BY <1>1, <1>2 DEF Steady, AtOnce

\* A call that neither takes nor gives returns steadily.
LEMMA ReturnsSteady ==
  ASSUME MutexesGivenBack, CallsTyped, NEW t \in Task, app.calls[t] # <<>>, Return(t),
         \A q \in MutexesOf(app) : ~On(Call(t), q) \/ Call(t).op \notin Takes \cup Gives
  PROVE  Steady(t)
<1>1. PICK th : /\ thread' = [thread EXCEPT ![t] = th] /\ th.pc = "start"
                /\ th.at = NextOf(app.calls[t], thread[t].at)
  BY ReturnTo
<1>2. ASSUME NEW q \in MutexesOf(app) PROVE Taken(app.calls[t], q, th.at) = HasTaken(t, q)
  <2>1. ~Vain(Call(t), q, HasTaken(t, q))
    BY DEF Vain
  <2>2. TakenAfter(Call(t), q, HasTaken(t, q)) = HasTaken(t, q)
    BY DEF TakenAfter, Gives
  <2> QED
    BY <1>1, <2>1, <2>2, TracksCall
<1> QED
  BY <1>1, <1>2 DEF Steady, AtOnce

-----------------------------------------------------------------------------
\* A queue's record of its holder is the same.
SameMutex(v, w) ==
  /\ w.length = v.length /\ Len(w.items) = Len(v.items)
  /\ w.holder = v.holder /\ w.recursion = v.recursion

\* A step of t that changes none of that, and not what anyone holds.
LEMMA QuietMutexes ==
  ASSUME MutexesGivenBack, CallsTyped, MutexInv, app' = app, NEW t \in Task, app.calls[t] # <<>>,
         Steady(t), k'.held = k.held,
         \A q \in MutexesOf(app) : SameMutex(queue[q], queue'[q]),
         \A q \in Queue : app.queues[q].kind # "mutex" => queue'[q].holder = queue[q].holder
  PROVE  MutexInv'
<1>1. PICK th :
        /\ thread' = [thread EXCEPT ![t] = th]
        /\ \A q \in MutexesOf(app) :
             /\ Taken(app.calls[t], q, th.at) = HasTaken(t, q)
             /\ AtOnce(app.calls[t][th.at], q, HasTaken(t, q), th.pc)
  BY DEF Steady
<1>2. ASSUME NEW q \in MutexesOf(app) PROVE MutexKept(q)'
  <2> DEFINE n == [u \in Task |-> HasTaken(u, q)]
             m == HasTaken(t, q)
  <2>1. MutexKept(q)
    BY DEF MutexInv
  <2>2. [n EXCEPT ![t] = m] = n
    OBVIOUS
  <2>3. Records(queue'[q], n, UsedBy(app, q, Counted))
    BY <2>1, SameRecords DEF MutexKept, SameMutex
  <2>4. Records(queue'[q], [n EXCEPT ![t] = m], UsedBy(app, q, Counted))
    BY <2>2, <2>3
  <2>5. Taken(app.calls[t], q, th.at) = m /\ AtOnce(app.calls[t][th.at], q, m, th.pc)
    BY <1>1
  <2> HIDE DEF m
  <2> QED
    BY <1>1, <2>1, <2>4, <2>5, MutexStep
<1>3. \A u \in Task : HeldOf(u)' = HeldOf(u)
  BY DEF HeldOf, SameMutex, MutexesOf
<1>4. MutexesOf(app)' = MutexesOf(app)
  BY DEF MutexesOf
<1> QED
  BY <1>2, <1>3, <1>4 DEF MutexInv

\* Nor does a step that no task makes.
LEMMA InterruptMutexes ==
  ASSUME MutexInv, app' = app, thread' = thread, k'.held = k.held,
         \A q \in MutexesOf(app) : SameMutex(queue[q], queue'[q]),
         \A q \in Queue : app.queues[q].kind # "mutex" => queue'[q].holder = queue[q].holder
  PROVE  MutexInv'
<1>1. ASSUME NEW q \in MutexesOf(app) PROVE MutexKept(q)'
  <2> DEFINE n == [u \in Task |-> HasTaken(u, q)]
  <2>1. MutexKept(q)
    BY DEF MutexInv
  <2>2. Records(queue'[q], n, UsedBy(app, q, Counted))
    BY <2>1, SameRecords DEF MutexKept, SameMutex
  <2>3. /\ UsedBy(app, q, Counted)' = UsedBy(app, q, Counted)
        /\ \A u \in Task : HasTaken(u, q)' = HasTaken(u, q) /\ Call(u)' = Call(u)
    BY DEF UsedBy, HasTaken, Call
  <2> QED
    BY <2>1, <2>2, <2>3 DEF MutexKept
<1>2. \A u \in Task : HeldOf(u)' = HeldOf(u)
  BY DEF HeldOf, SameMutex, MutexesOf
<1>3. MutexesOf(app)' = MutexesOf(app)
  BY DEF MutexesOf
<1> QED
  BY <1>1, <1>2, <1>3 DEF MutexInv

-----------------------------------------------------------------------------
\* What the functions of a queue do to the record of a mutex: it is given back,
LEMMA GivenQueue ==
  ASSUME NEW s, NEW q \in AnyQueue, q.kind = "mutex", Len(q.items) = 0, NEW id,
         NEW item \in Item, NEW position \in Position
  PROVE  LET w == SendWithRoom(s, q, id, item, position).q
         IN /\ w.length = q.length /\ Len(w.items) = 1 /\ w.holder = NoTask
            /\ w.recursion = q.recursion
<1> DEFINE items == Put(q.items, item, position)
           put == [q EXCEPT !.items = items]
           w == SendWithRoom(s, q, id, item, position).q
<1>1. w = [put EXCEPT !.holder = NoTask]
  BY DEF SendWithRoom, prvCopyDataToQueue
<1>2. q.items = <<>>
  BY DEF AnyQueue
<1>3. items = <<item>>
  BY <1>2 DEF Put, Position
<1> HIDE DEF items, w
<1>4. w.length = q.length /\ w.items = items /\ w.holder = NoTask /\ w.recursion = q.recursion
  BY <1>1 DEF AnyQueue
<1> QED
  BY <1>3, <1>4 DEF w

\* it is taken,
LEMMA TakenQueue ==
  ASSUME NEW s, NEW q \in AnyQueue, q.kind = "mutex", Len(q.items) = 1, NEW id, NEW again \in Nat
  PROVE  LET w == TakeItem(s, q, id, again).q
         IN /\ w.length = q.length /\ Len(w.items) = 0 /\ w.holder = s.current
            /\ w.recursion = q.recursion + again
<1> DEFINE items == Tail(q.items)
           more == q.recursion + again
           w == TakeItem(s, q, id, again).q
<1>1. w = [q EXCEPT !.items = items, !.recursion = more, !.holder = s.current]
  BY DEF TakeItem
<1>2. Len(items) = 0
  BY DEF AnyQueue
<1> HIDE DEF items, more, w
<1>3. w.length = q.length /\ w.items = items /\ w.holder = s.current /\ w.recursion = more
  BY <1>1 DEF AnyQueue
<1> QED
  BY <1>2, <1>3 DEF w, more

\* or none of this happens to it.
LEMMA QuietQueue ==
  ASSUME NEW s, NEW q \in AnyQueue, NEW id
  PROVE  /\ SameMutex(q, PeekItem(s, q, id).q) /\ SameMutex(q, prvLockQueue(q))
         /\ SameMutex(q, UnlockTx(s, q, id).q) /\ SameMutex(q, UnlockRx(s, q, id).q)
<1>1. SameMutex(q, prvLockQueue(q))
  <2> DEFINE rx == IF q.rxLock = queueUNLOCKED THEN queueLOCKED_UNMODIFIED ELSE q.rxLock
             tx == IF q.txLock = queueUNLOCKED THEN queueLOCKED_UNMODIFIED ELSE q.txLock
  <2>1. prvLockQueue(q) = [q EXCEPT !.rxLock = rx, !.txLock = tx]
    BY DEF prvLockQueue
  <2> HIDE DEF rx, tx
  <2> QED
    BY <2>1 DEF SameMutex, AnyQueue
<1>2. SameMutex(q, UnlockTx(s, q, id).q) /\ SameMutex(q, UnlockRx(s, q, id).q)
  BY DEF UnlockTx, UnlockRx, SameMutex, AnyQueue
<1>3. SameMutex(q, PeekItem(s, q, id).q)
  BY DEF PeekItem, SameMutex
<1> QED
  BY <1>1, <1>2, <1>3

-----------------------------------------------------------------------------
\* The number of mutexes that each task holds, when one is taken
LEMMA HeldMore ==
  ASSUME IsFiniteSet(Queue), app' = app, NEW id \in MutexesOf(app), NEW t \in Task,
         \A q \in MutexesOf(app) \ {id} : queue'[q].holder = queue[q].holder,
         \A u \in Task : k.held[u] = Cardinality(HeldOf(u)), k.held \in [Task -> Nat],
         queue[id].holder = NoTask, queue'[id].holder = t,
         k'.held = [k.held EXCEPT ![t] = k.held[t] + 1]
  PROVE  \A u \in Task : k'.held[u] = Cardinality(HeldOf(u)')
<1>1. MutexesOf(app)' = MutexesOf(app) /\ NoTask \notin Task
  BY TaskAssumption DEF MutexesOf
<1>2. \A u \in Task \ {t} : HeldOf(u)' = HeldOf(u)
  BY <1>1 DEF HeldOf
<1>3. IsFiniteSet(HeldOf(t))
  <2>1. HeldOf(t) \in SUBSET Queue
    BY DEF HeldOf, MutexesOf
  <2> QED
    BY <2>1, FS_Subset
<1>4. HeldOf(t)' = HeldOf(t) \cup {id} /\ id \notin HeldOf(t)
  BY <1>1 DEF HeldOf
<1>5. Cardinality(HeldOf(t)') = Cardinality(HeldOf(t)) + 1
  <2>1. Cardinality(HeldOf(t) \cup {id}) = Cardinality(HeldOf(t)) + 1
    BY <1>3, <1>4, FS_AddElement
  <2> QED
    BY <1>4, <2>1
<1> QED
  BY <1>2, <1>5

\* or given back.
LEMMA HeldLess ==
  ASSUME IsFiniteSet(Queue), app' = app, NEW id \in MutexesOf(app), NEW t \in Task,
         \A q \in MutexesOf(app) \ {id} : queue'[q].holder = queue[q].holder,
         \A u \in Task : k.held[u] = Cardinality(HeldOf(u)), k.held \in [Task -> Nat],
         queue[id].holder = t, queue'[id].holder = NoTask,
         k'.held = [k.held EXCEPT ![t] = k.held[t] - 1]
  PROVE  \A u \in Task : k'.held[u] = Cardinality(HeldOf(u)')
<1>1. MutexesOf(app)' = MutexesOf(app) /\ NoTask \notin Task
  BY TaskAssumption DEF MutexesOf
<1>2. \A u \in Task \ {t} : HeldOf(u)' = HeldOf(u)
  BY <1>1 DEF HeldOf
<1>3. IsFiniteSet(HeldOf(t))
  <2>1. HeldOf(t) \in SUBSET Queue
    BY DEF HeldOf, MutexesOf
  <2> QED
    BY <2>1, FS_Subset
<1>4. HeldOf(t)' = HeldOf(t) \ {id} /\ id \in HeldOf(t)
  BY <1>1 DEF HeldOf
<1>5. Cardinality(HeldOf(t)') = Cardinality(HeldOf(t)) - 1
  BY <1>3, <1>4, FS_RemoveElement
<1> QED
  BY <1>2, <1>5

\* A call of t that takes a mutex or gives it back returns, and nothing else changes.
LEMMA OneMutex ==
  ASSUME MutexesGivenBack, CallsTyped, MutexInv, app' = app, NEW t \in Task, app.calls[t] # <<>>,
         Return(t), NEW id \in MutexesOf(app), On(Call(t), id), ~Vain(Call(t), id, HasTaken(t, id)),
         NEW w, queue' = [queue EXCEPT ![id] = w], queue \in [Queue -> AnyQueue],
         Records(w, [[u \in Task |-> HasTaken(u, id)]
                       EXCEPT ![t] = TakenAfter(Call(t), id, HasTaken(t, id))],
                 UsedBy(app, id, Counted)),
         \A u \in Task : k'.held[u] = Cardinality(HeldOf(u)')
  PROVE  MutexInv'
<1>1. PICK th : /\ thread' = [thread EXCEPT ![t] = th] /\ th.pc = "start"
                /\ th.at = NextOf(app.calls[t], thread[t].at)
  BY ReturnTo
<1>2. id \in Queue /\ app.queues[id].kind = "mutex"
  BY DEF MutexesOf
<1>3. queue'[id] = w /\ \A q \in Queue \ {id} : queue'[q] = queue[q]
  BY <1>2
<1>4. MutexKept(id)'
  <2> DEFINE m == TakenAfter(Call(t), id, HasTaken(t, id))
  <2>1. Taken(app.calls[t], id, th.at) = m
    BY <1>1, TracksCall
  <2>2. AtOnce(app.calls[t][th.at], id, m, th.pc)
    BY <1>1 DEF AtOnce
  <2>3. MutexKept(id)
    BY DEF MutexInv
  <2> HIDE DEF m
  <2>4. Records(queue'[id], [[u \in Task |-> HasTaken(u, id)] EXCEPT ![t] = m], UsedBy(app, id, Counted))
    BY <1>3 DEF m
  <2> QED
    BY <1>1, <2>1, <2>2, <2>3, <2>4, MutexStep
<1>5. ASSUME NEW q \in MutexesOf(app) \ {id} PROVE MutexKept(q)'
  <2> DEFINE n == [u \in Task |-> HasTaken(u, q)]
             m == HasTaken(t, q)
  <2>1. MutexKept(q)
    BY DEF MutexInv
  <2>2. ~Vain(Call(t), q, m) /\ TakenAfter(Call(t), q, m) = m
    BY DEF On, Vain, TakenAfter
  <2>3. Taken(app.calls[t], q, th.at) = m
    BY <1>1, <2>2, TracksCall
  <2>4. AtOnce(app.calls[t][th.at], q, m, th.pc)
    BY <1>1 DEF AtOnce
  <2>5. [n EXCEPT ![t] = m] = n
    OBVIOUS
  <2>6. Records(queue'[q], n, UsedBy(app, q, Counted))
    BY <1>3, <2>1 DEF MutexKept, MutexesOf
  <2>7. Records(queue'[q], [n EXCEPT ![t] = m], UsedBy(app, q, Counted))
    BY <2>5, <2>6
  <2> HIDE DEF m
  <2> QED
    BY <1>1, <2>1, <2>3, <2>4, <2>7, MutexStep
<1>6. \A q \in Queue : app.queues[q].kind # "mutex" => queue'[q].holder = NoTask
  BY <1>2, <1>3 DEF MutexInv
<1>7. MutexesOf(app)' = MutexesOf(app)
  BY DEF MutexesOf
<1> QED
  BY <1>4, <1>5, <1>6, <1>7 DEF MutexInv

-----------------------------------------------------------------------------
\* What is known of a mutex.
LEMMA MutexFacts ==
  ASSUME KernelInv, MutexInv, MutexesGivenBack, NEW q \in MutexesOf(app)
  PROVE  /\ q \in Queue /\ queue[q] \in AnyQueue /\ queue[q].kind = "mutex" /\ MutexKept(q)
         /\ [u \in Task |-> HasTaken(u, q)] \in [Task -> Nat]
         /\ UsedBy(app, q, Counted) \in BOOLEAN
         /\ ~UsedBy(app, q, Plain) \/ ~UsedBy(app, q, Counted)
<1>1. q \in Queue /\ queue[q] \in AnyQueue /\ queue[q].kind = "mutex" /\ MutexKept(q)
  BY DEF MutexInv, MutexesOf, KernelInv, QueuesTyped
<1>2. CallsTyped
  BY DEF KernelInv
<1>3. ASSUME NEW u \in Task PROVE HasTaken(u, q) \in Nat
  <2>1. CASE app.calls[u] = <<>>
    BY <2>1 DEF HasTaken, Taken
  <2>2. CASE app.calls[u] # <<>>
    BY <1>2, <2>2, TracksCall
  <2> QED
    BY <2>1, <2>2
<1>4. ~UsedBy(app, q, Plain) \/ ~UsedBy(app, q, Counted)
  BY <1>2 DEF CallsTyped, MutexesGivenBack, GivesBack
<1>5. UsedBy(app, q, Counted) \in BOOLEAN
  BY DEF UsedBy
<1> QED
  BY <1>1, <1>3, <1>4, <1>5

\* Who has taken a mutex holds it, and counts it.
LEMMA TakenIsHeld ==
  ASSUME KernelInv, MutexInv, MutexesGivenBack, IsFiniteSet(Queue), NEW q \in MutexesOf(app), NEW t \in Task
  PROVE  /\ HasTaken(t, q) > 0 <=> queue[q].holder = t
         /\ queue[q].holder = t => k.held[t] > 0
<1> DEFINE n == [u \in Task |-> HasTaken(u, q)]
<1>1. Records(queue[q], n, UsedBy(app, q, Counted))
  BY MutexFacts DEF MutexKept
<1>2. n \in [Task -> Nat] /\ n[t] = HasTaken(t, q)
  BY MutexFacts
<1>3. n[t] > 0 <=> queue[q].holder = t
  <2> HIDE DEF n
  <2> QED
    BY <1>1, <1>2 DEF Records
<1>4. ASSUME queue[q].holder = t PROVE k.held[t] > 0
  <2>1. HeldOf(t) \in SUBSET Queue /\ q \in HeldOf(t) /\ k.held[t] = Cardinality(HeldOf(t))
    BY <1>4 DEF HeldOf, MutexesOf, MutexInv
  <2>2. IsFiniteSet(HeldOf(t))
    BY <2>1, FS_Subset
  <2>3. Cardinality(HeldOf(t)) \in Nat /\ Cardinality(HeldOf(t)) # 0
    BY <2>1, <2>2, FS_CardinalityType, FS_EmptySet
  <2> QED
    BY <2>1, <2>3
<1> QED
  BY <1>2, <1>3, <1>4

\* A call on a mutex is in the program of its task.
LEMMA CallUses ==
  ASSUME KernelInv, NEW t \in Task, app.calls[t] # <<>>, NEW q, On(Call(t), q), NEW ops, Call(t).op \in ops
  PROVE  UsedBy(app, q, ops)
BY DEF UsedBy, Call, KernelInv, CallsTyped

\* The mutexes are sound where the invariant holds.
LEMMA InvImpliesMutexes ==
  ASSUME KernelInv, MutexInv, MutexesGivenBack, IsFiniteSet(Queue)
  PROVE  MutexesSound
<1>1. Mutexes = MutexesOf(app)
  BY DEF Mutexes, MutexesOf, KernelInv, QueuesTyped
<1>2. GivenByHolder
  <2> SUFFICES ASSUME NEW t \in Task, GivesMutex(t), Q(t).holder # NoTask
               PROVE  Q(t).holder = t /\ k.held[t] > 0
    BY DEF GivenByHolder
  <2> DEFINE ops == {"give recursive"}
             q == Call(t).queue
  <2>1. \/ Running(t, Sends, "start")
        \/ Running(t, ops, "start") /\ Q(t).holder = t
    BY DEF GivesMutex
  <2>2. ops \subseteq Gives
    BY DEF Gives
  <2> HIDE DEF ops
  <2>3. app.calls[t] # <<>> /\ IsCall(Call(t), Len(app.calls[t])) /\ Call(t).op \in Gives /\ CallsTyped
    BY <2>1, <2>2, RunningFacts DEF Gives
  <2>4. q \in Queue
    BY <2>3 DEF IsCall, Gives, Waits
  <2>5. q \in MutexesOf(app) /\ On(Call(t), q)
    BY <1>1, <2>3, <2>4 DEF GivesMutex, Mutexes, Q, On
  <2>6. CASE Running(t, Sends, "start")
    <3>1. Call(t).op \in Sends
      BY <2>6, RunningFacts
    <3>2. HasTaken(t, q) = 1
      BY <2>3, <2>5, <3>1, TracksCall
    <3> QED
      BY <2>5, <3>2, TakenIsHeld DEF Q
  <2>7. CASE Q(t).holder = t
    BY <2>5, <2>7, TakenIsHeld DEF Q
  <2> QED
    BY <2>1, <2>6, <2>7
<1>3. GivenAsTaken
  <2> DEFINE ops == {"give recursive"}
  <2> SUFFICES ASSUME NEW t \in Task, Running(t, ops, "start"), Q(t).holder = t
               PROVE  Q(t).recursion > 0
    BY DEF GivenAsTaken
  <2> DEFINE q == Call(t).queue
             n == [u \in Task |-> HasTaken(u, q)]
  <2>1. ops \subseteq Counted /\ ops \subseteq Gives
    BY DEF Gives, Counted
  <2> HIDE DEF ops
  <2>2. app.calls[t] # <<>> /\ IsCall(Call(t), Len(app.calls[t])) /\ Call(t).op \in ops
    BY RunningFacts
  <2>3. q \in Queue /\ On(Call(t), q)
    BY <2>1, <2>2 DEF IsCall, On, ops
  <2>4. q \in MutexesOf(app)
    BY <2>3, TaskAssumption DEF MutexInv, Q, MutexesOf
  <2>5. UsedBy(app, q, Counted)
    BY <2>1, <2>2, <2>3, CallUses
  <2>6. Records(queue[q], n, UsedBy(app, q, Counted)) /\ n[t] = HasTaken(t, q)
    BY <2>4, MutexFacts DEF MutexKept
  <2>7. HasTaken(t, q) > 0
    BY <2>4, TakenIsHeld DEF Q
  <2> HIDE DEF n
  <2> QED
    BY <2>5, <2>6, <2>7, TaskAssumption DEF Records, Q
<1>4. MutexesHeld
  <2>1. ASSUME NEW q \in Mutexes PROVE (queue[q].holder = NoTask) <=> ~prvIsQueueEmpty(queue[q])
    <3>1. Len(queue[q].items) = IF queue[q].holder = NoTask THEN 1 ELSE 0
      BY <1>1 DEF MutexInv, MutexKept, Records
    <3> QED
      BY <3>1 DEF prvIsQueueEmpty, uxQueueMessagesWaiting
  <2>2. \A t \in Task : k.held[t] = Cardinality({q \in Mutexes : queue[q].holder = t})
    BY <1>1 DEF MutexInv, HeldOf
  <2> QED
    BY <2>1, <2>2 DEF MutexesHeld
<1>5. TakesCounted
  <2> SUFFICES ASSUME NEW q \in Recursive
               PROVE  (queue[q].recursion = 0) <=> (queue[q].holder = NoTask)
    BY DEF TakesCounted
  <2> DEFINE n == [u \in Task |-> HasTaken(u, q)]
  <2>1. q \in MutexesOf(app) /\ UsedBy(app, q, Counted)
    BY <1>1 DEF Recursive, UsedBy, Counted, On, Waits, Looks, Takes
  <2>2. Records(queue[q], n, UsedBy(app, q, Counted)) /\ n \in [Task -> Nat]
    BY <2>1, MutexFacts DEF MutexKept
  <2>3. queue[q].holder \in Task \cup {NoTask}
    BY <2>1, MutexFacts DEF AnyQueue
  <2> HIDE DEF n
  <2> QED
    BY <2>1, <2>2, <2>3 DEF Records
<1> QED
  BY <1>2, <1>3, <1>4, <1>5 DEF MutexesSound

-----------------------------------------------------------------------------
\* A step of a task that leaves the records of the mutexes alone.
LEMMA QuietStepMutexes ==
  ASSUME KernelInv, MutexInv, MutexesGivenBack, AllHoldersKept, app' = app, NEW t \in Task,
         app.calls[t] # <<>>, Steady(t), k'.held = k.held,
         \/ queue' = queue
         \/ \E r : /\ Commit(t, r) /\ Call(t).queue \in Queue
                   /\ Call(t).queue \in MutexesOf(app) => SameMutex(Q(t), r.q)
  PROVE  MutexInv'
<1>1. CallsTyped /\ \A q \in Queue : app.queues[q].kind # "mutex" => queue[q].kind # "mutex"
  BY DEF KernelInv, QueuesTyped
<1>2. \A q \in Queue : app.queues[q].kind # "mutex" => queue'[q].holder = queue[q].holder
  BY <1>1 DEF AllHoldersKept, HolderKept
<1>3. \A q \in MutexesOf(app) : SameMutex(queue[q], queue'[q])
  <2>1. CASE queue' = queue
    BY <2>1 DEF SameMutex
  <2>2. ASSUME NEW r, Commit(t, r), Call(t).queue \in Queue,
               Call(t).queue \in MutexesOf(app) => SameMutex(Q(t), r.q)
        PROVE  \A q \in MutexesOf(app) : SameMutex(queue[q], queue'[q])
    BY <2>2 DEF Commit, Q, SameMutex, MutexesOf, KernelInv, QueuesTyped
  <2> QED
    BY <2>1, <2>2
<1> QED
  BY <1>1, <1>2, <1>3, QuietMutexes

\* A step within a call that can fail.
LEMMA GotoSteady ==
  ASSUME KernelInv, NEW t \in Task, CanFail(t), NEW pc, Goto(t, pc)
  PROVE  Steady(t)
<1> DEFINE th == [thread[t] EXCEPT !.pc = pc]
<1>1. thread \in [Task -> ThreadState]
  BY DEF KernelInv, CallsTyped
<1>2. thread' = [thread EXCEPT ![t] = th]
  BY <1>1 DEF Goto
<1>3. th.at = thread[t].at
  BY <1>1 DEF ThreadState
<1> HIDE DEF th
<1> QED
  BY <1>2, <1>3, GoesOnSteady

\* What a wait does to the tasks takes and gives no mutex.
LEMMA WaitHeld ==
  ASSUME KernelInv, NEW t \in Task,
         \/ SuspendScheduler(t) \/ LockQueue(t) \/ CheckTimeOut(t) \/ TestQueue(t) \/ Inherit(t)
         \/ Block(t) \/ UnlockSenders(t) \/ UnlockReceivers(t) \/ ResumeScheduler(t)
         \/ Yield(t) \/ Expired(t) \/ Disinherit(t)
  PROVE  k'.held = k.held
<1>1. k \in Good /\ k \in KernelState
  BY DEF KernelInv, Good
<1>2. CASE k' = k
  BY <1>2
<1>3. CASE SuspendScheduler(t)
  BY <1>1, <1>3 DEF SuspendScheduler, vTaskSuspendAll, KernelState
<1>4. CASE CheckTimeOut(t)
  BY <1>1, <1>4, CheckForTimeOutFrees DEF CheckTimeOut, Frees
<1>5. CASE Inherit(t)
  <2>1. Running(t, Takes, "inherit") /\ k' = xTaskPriorityInherit(k, Q(t).holder).k
    BY <1>5 DEF Inherit
  <2>2. k.current \in Task /\ Call(t).op \in Takes /\ IsCall(Call(t), Len(app.calls[t]))
    BY <2>1, RunningFacts
  <2>3. Q(t).holder \in Task \cup {NoTask}
    BY <2>2, QueueOfCall DEF IsCall, AnyQueue, Waits, Looks
  <2> QED
    BY <1>1, <2>1, <2>2, <2>3, InheritFrees DEF Frees
<1>6. CASE Block(t)
  <2> DEFINE e == <<Call(t).queue, IF Call(t).op \in Sends THEN "send" ELSE "receive">>
  <2>1. Running(t, Waits, "block") /\ k' = vTaskPlaceOnEventList(k, e, thread[t].wait.left)
    BY <1>6 DEF Block
  <2>2. k.current \in Task /\ Call(t).op \in Waits /\ IsCall(Call(t), Len(app.calls[t]))
    BY <2>1, RunningFacts
  <2>3. e \in EventList
    BY <2>2 DEF IsCall, EventList
  <2> HIDE DEF e
  <2> QED
    BY <1>1, <2>1, <2>2, <2>3, PlaceOnEventListHeld
<1>7. CASE UnlockSenders(t) \/ UnlockReceivers(t)
  <2>1. PICK pc : Running(t, Waits, pc)
    BY <1>7 DEF UnlockSenders, UnlockReceivers
  <2>2. Call(t).op \in Waits /\ IsCall(Call(t), Len(app.calls[t]))
    BY <2>1, RunningFacts
  <2>3. Call(t).queue \in Queue /\ Q(t) \in AnyQueue
    BY <2>2, QueueOfCall DEF IsCall
  <2>4. \/ k' = UnlockTx(k, Q(t), Call(t).queue).k \/ k' = UnlockRx(k, Q(t), Call(t).queue).k
    BY <1>7 DEF UnlockSenders, UnlockReceivers, Commit
  <2> QED
    BY <1>1, <2>3, <2>4, QueueHeld
<1>8. CASE ResumeScheduler(t)
  <2>1. Running(t, Waits, "resume") /\ k' = xTaskResumeAll(k).k
    BY <1>8 DEF ResumeScheduler
  <2> QED
    BY <1>1, <2>1, RunningRun, ResumeAllFrees DEF Locked, Frees
<1>9. CASE Yield(t)
  BY <1>1, <1>9, SwitchFrees DEF Yield, Frees
<1>10. CASE Disinherit(t)
  <2>1. /\ Running(t, Takes, "disinherit")
        /\ k' = vTaskPriorityDisinheritAfterTimeout(k, Q(t).holder, HighestWaiting(k, Call(t).queue))
    BY <1>10 DEF Disinherit
  <2>2. Call(t).op \in Takes /\ IsCall(Call(t), Len(app.calls[t]))
    BY <2>1, RunningFacts
  <2>3. Call(t).queue \in Queue
    BY <2>2 DEF IsCall, Waits, Looks
  <2>4. Q(t).holder \in Task \cup {NoTask} /\ HighestWaiting(k, Call(t).queue) \in Priority
    BY <1>1, <2>3, QueueOfCall, HighestWaitingTyped DEF AnyQueue
  <2> QED
    BY <1>1, <2>1, <2>4, DisinheritAfterTimeoutFrees DEF Frees
<1>11. LockQueue(t) \/ TestQueue(t) \/ Expired(t) => k' = k
  BY DEF LockQueue, TestQueue, Expired, Commit
<1> QED
  BY <1>2, <1>3, <1>4, <1>5, <1>6, <1>7, <1>8, <1>9, <1>10, <1>11

\* Nor does a task by it come to where it has taken one.
LEMMA WaitSteady ==
  ASSUME KernelInv, MutexInv, MutexesGivenBack, NEW t \in Task,
         \/ SuspendScheduler(t) \/ LockQueue(t) \/ CheckTimeOut(t) \/ TestQueue(t) \/ Inherit(t)
         \/ Block(t) \/ UnlockSenders(t) \/ UnlockReceivers(t) \/ ResumeScheduler(t)
         \/ Yield(t) \/ Expired(t) \/ Disinherit(t)
  PROVE  Steady(t) /\ app.calls[t] # <<>> /\ app' = app
<1>1. PICK pc \in PCs \ {"start"} : Running(t, Waits, pc)
  <2>1. \A ops \in SUBSET Waits, pc \in PCs : Running(t, ops, pc) => Running(t, Waits, pc)
    BY DEF Running
  <2>2. Takes \in SUBSET Waits /\ Looks \in SUBSET Waits
    BY DEF Waits, Looks
  <2>3. \E pc \in PCs \ {"start"} : Running(t, Waits, pc) \/ Running(t, Takes, pc) \/ Running(t, Looks, pc)
    BY DEF SuspendScheduler, LockQueue, CheckTimeOut, TestQueue, Inherit, Block, UnlockSenders,
           UnlockReceivers, ResumeScheduler, Yield, Expired, Disinherit, PCs, Awake
  <2> QED
    BY <2>1, <2>2, <2>3
<1>2. /\ app.calls[t] # <<>> /\ thread[t].pc # "start" /\ Call(t).op \in Waits
      /\ thread[t] \in ThreadState /\ CallsTyped
  BY <1>1, RunningFacts
<1>3. app.calls[t] # <<>> /\ app' = app
  BY <1>2 DEF SuspendScheduler, LockQueue, CheckTimeOut, TestQueue, Inherit, Block, UnlockSenders,
              UnlockReceivers, ResumeScheduler, Yield, Expired, Disinherit
<1>4. CanFail(t)
  BY <1>2, UnderWayCanFail
<1>5. ASSUME NEW to, Goto(t, to) PROVE Steady(t)
  BY <1>4, <1>5, GotoSteady
<1>6. ASSUME Fail(t) PROVE Steady(t)
  BY <1>2, <1>4, <1>6, FailSteady
<1>7. ASSUME CheckTimeOut(t) \/ Inherit(t) \/ Block(t)
      PROVE  \E th : thread' = [thread EXCEPT ![t] = th] /\ th.at = thread[t].at
  <2>1. thread \in [Task -> ThreadState]
    BY <1>2 DEF CallsTyped
  <2>2. CASE CheckTimeOut(t)
    <3> DEFINE checked == xTaskCheckForTimeOut(k, thread[t].wait)
               to == IF checked.yes THEN "unlockTx" ELSE "test"
               then == IF checked.yes THEN "expired" ELSE "retry"
               wait == checked.wait
               th == [thread[t] EXCEPT !.wait = wait, !.pc = to, !.then = then]
    <3>1. thread' = [thread EXCEPT ![t].wait = wait, ![t].pc = to, ![t].then = then]
      BY <2>2 DEF CheckTimeOut
    <3> HIDE DEF wait, to, then
    <3>2. thread' = [thread EXCEPT ![t] = th] /\ th.at = thread[t].at
      BY <1>2, <2>1, <3>1 DEF ThreadState
    <3> HIDE DEF th
    <3> QED
      BY <3>2
  <2>3. CASE Inherit(t)
    <3> DEFINE yes == xTaskPriorityInherit(k, Q(t).holder).yes
               th == [thread[t] EXCEPT !.pc = "block", !.inherited = yes]
    <3>1. thread' = [thread EXCEPT ![t].pc = "block", ![t].inherited = yes]
      BY <2>3 DEF Inherit
    <3> HIDE DEF yes
    <3>2. thread' = [thread EXCEPT ![t] = th] /\ th.at = thread[t].at
      BY <1>2, <2>1, <3>1 DEF ThreadState
    <3> HIDE DEF th
    <3> QED
      BY <3>2
  <2>4. CASE Block(t)
    <3> DEFINE th == [thread[t] EXCEPT !.pc = "unlockTx", !.then = "blocked"]
    <3>1. thread' = [thread EXCEPT ![t].pc = "unlockTx", ![t].then = "blocked"]
      BY <2>4 DEF Block
    <3>2. thread' = [thread EXCEPT ![t] = th] /\ th.at = thread[t].at
      BY <1>2, <2>1, <3>1 DEF ThreadState
    <3> HIDE DEF th
    <3> QED
      BY <3>2
  <2> QED
    BY <1>7, <2>2, <2>3, <2>4
<1>8. CASE SuspendScheduler(t) \/ LockQueue(t) \/ UnlockSenders(t) \/ UnlockReceivers(t) \/ Yield(t)
  <2>1. \E to : Goto(t, to)
    BY <1>8 DEF SuspendScheduler, LockQueue, UnlockSenders, UnlockReceivers, Yield
  <2> QED
    BY <1>3, <1>5, <2>1
<1>9. CASE TestQueue(t)
  <2>1. \E to : Goto(t, to)
    BY <1>9 DEF TestQueue
  <2> QED
    BY <1>3, <1>5, <2>1
<1>10. CASE CheckTimeOut(t) \/ Inherit(t) \/ Block(t)
  BY <1>3, <1>4, <1>7, <1>10, GoesOnSteady
<1>11. CASE Expired(t) \/ Disinherit(t)
  <2>1. Fail(t) \/ \E to : Goto(t, to)
    BY <1>11 DEF Expired, Disinherit
  <2> QED
    BY <1>3, <1>5, <1>6, <2>1
<1>12. CASE ResumeScheduler(t)
  <2>1. thread[t].then \in {"blocked", "retry", "expired"}
    BY <1>2 DEF ThreadState
  <2>2. Fail(t) \/ \E to : Goto(t, to)
    <3>1. CASE thread[t].then = "blocked"
      BY <1>12, <3>1 DEF ResumeScheduler
    <3>2. CASE thread[t].then = "retry"
      BY <1>12, <3>2 DEF ResumeScheduler
    <3>3. CASE thread[t].then = "expired"
      BY <1>12, <3>3 DEF ResumeScheduler
    <3> QED
      BY <2>1, <3>1, <3>2, <3>3
  <2> QED
    BY <1>3, <1>5, <1>6, <2>2
<1> QED
  BY <1>8, <1>9, <1>10, <1>11, <1>12

\* The steps of a call that waits.
LEMMA WaitMutexes ==
  ASSUME KernelInv, MutexInv, MutexesGivenBack, AllHoldersKept, NEW t \in Task,
         \/ SuspendScheduler(t) \/ LockQueue(t) \/ CheckTimeOut(t) \/ TestQueue(t) \/ Inherit(t)
         \/ Block(t) \/ UnlockSenders(t) \/ UnlockReceivers(t) \/ ResumeScheduler(t)
         \/ Yield(t) \/ Expired(t) \/ Disinherit(t)
  PROVE  MutexInv'
<1>1. Steady(t) /\ app.calls[t] # <<>> /\ app' = app /\ k'.held = k.held
  BY WaitHeld, WaitSteady
<1>2. \/ queue' = queue
      \/ \E r : /\ Commit(t, r) /\ Call(t).queue \in Queue
                /\ Call(t).queue \in MutexesOf(app) => SameMutex(Q(t), r.q)
  <2>1. CASE LockQueue(t) \/ UnlockSenders(t) \/ UnlockReceivers(t)
    <3> DEFINE locked == [k |-> k, q |-> prvLockQueue(Q(t))]
               tx == UnlockTx(k, Q(t), Call(t).queue)
               rx == UnlockRx(k, Q(t), Call(t).queue)
    <3>1. PICK pc : Running(t, Waits, pc)
      BY <2>1 DEF LockQueue, UnlockSenders, UnlockReceivers
    <3>2. Call(t).op \in Waits /\ IsCall(Call(t), Len(app.calls[t]))
      BY <3>1, RunningFacts
    <3>3. Call(t).queue \in Queue /\ Q(t) \in AnyQueue
      BY <3>2, QueueOfCall DEF IsCall
    <3>4. Commit(t, locked) \/ Commit(t, tx) \/ Commit(t, rx)
      BY <2>1 DEF LockQueue, UnlockSenders, UnlockReceivers
    <3>5. SameMutex(Q(t), locked.q) /\ SameMutex(Q(t), tx.q) /\ SameMutex(Q(t), rx.q)
      BY <3>3, QuietQueue
    <3> HIDE DEF locked, tx, rx
    <3> QED
      BY <3>3, <3>4, <3>5
  <2>2. CASE \/ SuspendScheduler(t) \/ CheckTimeOut(t) \/ TestQueue(t) \/ Inherit(t)
             \/ Block(t) \/ ResumeScheduler(t) \/ Yield(t) \/ Expired(t) \/ Disinherit(t)
    BY <2>2 DEF SuspendScheduler, CheckTimeOut, TestQueue, Inherit, Block, ResumeScheduler, Yield,
                Expired, Disinherit
  <2> QED
    BY <2>1, <2>2
<1> QED
  BY <1>1, <1>2, QuietStepMutexes

-----------------------------------------------------------------------------
\* A task that comes to a mutex with nothing to give it can fail.
LEMMA StuckCanFail ==
  ASSUME KernelInv, MutexInv, MutexesGivenBack, IsFiniteSet(Queue), NEW t \in Task,
         Running(t, Waits, "start"), ~CanGo(t), ~HoldsAlready(t)
  PROVE  CanFail(t)
<1>1. /\ app.calls[t] # <<>> /\ Call(t).op \in Waits /\ CallsTyped
      /\ IsCall(Call(t), Len(app.calls[t]))
  BY RunningFacts
<1>2. ASSUME NEW q \in MutexesOf(app), Certain(Call(t), q, HasTaken(t, q)) PROVE FALSE
  <2>1. On(Call(t), q) /\ Q(t) = queue[q]
    BY <1>2 DEF Certain, On, Q
  <2>2. Len(queue[q].items) = (IF queue[q].holder = NoTask THEN 1 ELSE 0) /\ queue[q].length = 1
    BY DEF MutexInv, MutexKept, Records
  <2>3. HasTaken(t, q) > 0 => queue[q].holder = t
    BY TakenIsHeld
  <2>4. CASE Call(t).op \in Sends
    <3>1. HasTaken(t, q) = 1
      BY <1>1, <2>1, <2>4, TracksCall
    <3>2. Len(queue[q].items) = 0
      BY <2>2, <2>3, <3>1, TaskAssumption
    <3> QED
      BY <2>1, <2>2, <2>4, <3>2 DEF CanGo, HasRoom, uxQueueMessagesWaiting
  <2>5. CASE Call(t).op \in Counted /\ Call(t).op \notin Sends /\ HasTaken(t, q) > 0
    <3>1. Call(t).op = "take recursive"
      BY <1>1, <2>5 DEF Waits, Looks, Takes, Counted
    <3> QED
      BY <2>1, <2>3, <2>5, <3>1 DEF HoldsAlready
  <2> QED
    BY <1>2, <2>4, <2>5 DEF Certain
<1> QED
  BY <1>2 DEF CanFail

\* Its steps, when it fails at once or begins to wait.
LEMMA StuckMutexes ==
  ASSUME KernelInv, MutexInv, MutexesGivenBack, IsFiniteSet(Queue), AllHoldersKept, NEW t \in Task,
         TransferFails(t) \/ StartWait(t)
  PROVE  MutexInv'
<1>1. /\ Running(t, Waits, "start") /\ ~CanGo(t) /\ ~HoldsAlready(t)
      /\ app' = app /\ k' = k /\ queue' = queue
  BY DEF TransferFails, StartWait
<1>2. /\ app.calls[t] # <<>> /\ Call(t).op \in Waits /\ CallsTyped
      /\ thread[t] \in ThreadState
  BY <1>1, RunningFacts
<1>3. CanFail(t)
  BY <1>1, StuckCanFail
<1>4. CASE TransferFails(t)
  <2>1. Steady(t)
    BY <1>2, <1>3, <1>4, FailSteady DEF TransferFails
  <2> QED
    BY <1>1, <1>2, <2>1, QuietStepMutexes
<1>5. CASE StartWait(t)
  <2> DEFINE again == [thread[t] EXCEPT !.pc = "suspend"]
             wait == vTaskInternalSetTimeOutState(k, Call(t).ticks)
             first == [thread[t] EXCEPT !.pc = "suspend", !.timed = TRUE, !.wait = wait]
             th == IF thread[t].timed THEN again ELSE first
  <2>1. thread' = [thread EXCEPT ![t] = th]
    BY <1>5 DEF StartWait
  <2> HIDE DEF wait
  <2>2. again.at = thread[t].at /\ first.at = thread[t].at
    BY <1>2 DEF ThreadState
  <2> HIDE DEF again, first
  <2>3. th.at = thread[t].at
    BY <2>2
  <2> HIDE DEF th
  <2>4. Steady(t)
    BY <1>3, <2>1, <2>3, GoesOnSteady
  <2> QED
    BY <1>1, <1>2, <2>4, QuietStepMutexes
<1> QED
  BY <1>4, <1>5

\* A call on a queue that is no mutex, and one that only looks, leave the mutexes alone.
LEMMA ElsewhereSteady ==
  ASSUME KernelInv, MutexesGivenBack, NEW t \in Task, app.calls[t] # <<>>, Return(t),
         Call(t).op \notin Takes \cup Gives \/ Call(t).queue \notin MutexesOf(app)
  PROVE  Steady(t)
<1>1. \A q \in MutexesOf(app) : ~On(Call(t), q) \/ Call(t).op \notin Takes \cup Gives
  BY DEF On
<1> QED
  BY <1>1, ReturnsSteady DEF KernelInv

-----------------------------------------------------------------------------
\* A task takes a mutex,
LEMMA MutexTaken ==
  ASSUME KernelInv, MutexInv, MutexesGivenBack, IsFiniteSet(Queue), app' = app,
         NEW t \in Task, t = k.current, app.calls[t] # <<>>,
         NEW id \in MutexesOf(app), On(Call(t), id), Call(t).op \in Takes, Len(Q(t).items) # 0,
         Commit(t, TakeItem(k, Q(t), id, IF UsedBy(app, id, Counted) THEN 1 ELSE 0)), Return(t)
  PROVE  MutexInv'
<1> DEFINE counted == UsedBy(app, id, Counted)
           again == IF counted THEN 1 ELSE 0
           n == [u \in Task |-> HasTaken(u, id)]
           q == queue[id]
           w == TakeItem(k, q, id, again).q
           held == TakeItem(k, q, id, again).k.held
<1>1. /\ id \in Queue /\ q \in AnyQueue /\ q.kind = "mutex" /\ Records(q, n, counted)
      /\ n \in [Task -> Nat] /\ counted \in BOOLEAN
  BY MutexFacts DEF MutexKept
<1>2. Q(t) = q
  BY DEF On, Q
<1>3. queue' = [queue EXCEPT ![id] = w] /\ k'.held = held
  BY <1>2 DEF Commit, On
<1>4. q.holder = NoTask /\ Len(q.items) = 1 /\ q.recursion = 0
  <2> HIDE DEF n, q, counted
  <2> QED
    BY <1>1, <1>2 DEF Records
<1>5. HasTaken(t, id) = 0
  <2>1. n[t] = HasTaken(t, id) /\ t # NoTask
    BY TaskAssumption
  <2> HIDE DEF n, q, counted
  <2> QED
    BY <1>1, <1>4, <2>1 DEF Records
<1>6. w.length = q.length /\ Len(w.items) = 0 /\ w.holder = t /\ w.recursion = q.recursion + again
  <2>1. again \in Nat
    OBVIOUS
  <2> HIDE DEF again
  <2> QED
    BY <1>1, <1>4, <2>1, TakenQueue
<1>7. held = [k.held EXCEPT ![t] = k.held[t] + 1]
  <2>1. k \in Good /\ k.current \in Task
    BY DEF KernelInv
  <2> HIDE DEF again
  <2> QED
    BY <1>1, <2>1, TakeItemHeld
<1> HIDE DEF w, held
<1>8. Records(w, [n EXCEPT ![t] = 1], counted)
  <2>1. w.recursion = IF counted THEN 1 ELSE 0
    BY <1>4, <1>6
  <2> HIDE DEF n, q, counted
  <2> QED
    BY <1>1, <1>4, <1>6, <2>1, TaskAssumption DEF Records
<1>9. TakenAfter(Call(t), id, HasTaken(t, id)) = 1 /\ ~Vain(Call(t), id, HasTaken(t, id))
  <2>1. Call(t).op \notin Gives
    BY DEF Takes, Gives, Sends
  <2> QED
    BY <1>5, <2>1 DEF TakenAfter, Vain
<1>10. queue \in [Queue -> AnyQueue] /\ CallsTyped /\ k.held \in [Task -> Nat]
  BY DEF KernelInv, QueuesTyped, Good, KernelState
<1>11. \A u \in Task : k'.held[u] = Cardinality(HeldOf(u)')
  <2>1. queue'[id].holder = t /\ \A p \in MutexesOf(app) \ {id} : queue'[p].holder = queue[p].holder
    BY <1>1, <1>3, <1>6, <1>10 DEF MutexesOf
  <2>2. \A u \in Task : k.held[u] = Cardinality(HeldOf(u))
    BY DEF MutexInv
  <2>3. /\ queue[id].holder = NoTask /\ queue'[id].holder = t
        /\ k'.held = [k.held EXCEPT ![t] = k.held[t] + 1]
    BY <1>3, <1>4, <1>7, <2>1
  <2> HIDE DEF n, q, counted
  <2> QED
    BY <1>10, <2>1, <2>2, <2>3, HeldMore
<1> QED
  BY <1>3, <1>8, <1>9, <1>10, <1>11, OneMutex

\* or gives one back.  v is the mutex when the count of its takes is settled.
LEMMA MutexGiven ==
  ASSUME KernelInv, MutexInv, MutexesGivenBack, IsFiniteSet(Queue), app' = app,
         NEW t \in Task, IsReady(k, t), app.calls[t] # <<>>,
         NEW id \in MutexesOf(app), On(Call(t), id), Call(t).op \in Gives, HasTaken(t, id) = 1,
         NEW v \in AnyQueue, v.kind = "mutex", v.holder = Q(t).holder, v.items = Q(t).items,
         v.length = Q(t).length, v.recursion = 0,
         NEW item \in Item, NEW position \in Position,
         Commit(t, SendWithRoom(k, v, id, item, position)), Return(t)
  PROVE  MutexInv'
<1> DEFINE counted == UsedBy(app, id, Counted)
           n == [u \in Task |-> HasTaken(u, id)]
           q == queue[id]
           w == SendWithRoom(k, v, id, item, position).q
           held == SendWithRoom(k, v, id, item, position).k.held
<1>1. /\ id \in Queue /\ q \in AnyQueue /\ Records(q, n, counted)
      /\ n \in [Task -> Nat] /\ counted \in BOOLEAN
  BY MutexFacts DEF MutexKept
<1>2. Q(t) = q
  BY DEF On, Q
<1>3. queue' = [queue EXCEPT ![id] = w] /\ k'.held = held
  BY DEF Commit, On
<1>4. q.holder = t /\ k.held[t] > 0 /\ t # NoTask
  BY TakenIsHeld, TaskAssumption
<1>5. Len(q.items) = 0
  <2> HIDE DEF n, q, counted
  <2> QED
    BY <1>1, <1>4 DEF Records
<1>6. w.length = q.length /\ Len(w.items) = 1 /\ w.holder = NoTask /\ w.recursion = 0
  <2> HIDE DEF q
  <2> QED
    BY <1>2, <1>5, GivenQueue
<1>7. held = [k.held EXCEPT ![t] = k.held[t] - 1]
  <2>1. k \in Good /\ HeldBy(k, v, t)
    BY <1>2, <1>4 DEF KernelInv, HeldBy
  <2>2. held = IF v.kind = "mutex" /\ v.holder # NoTask
               THEN [k.held EXCEPT ![t] = k.held[t] - 1] ELSE k.held
    BY <1>1, <2>1, SendWithRoomHeld
  <2> HIDE DEF held
  <2> QED
    BY <1>2, <1>4, <2>2
<1> HIDE DEF w, held
<1>8. Records(w, [n EXCEPT ![t] = 0], counted)
  <2> HIDE DEF n, q, counted
  <2> QED
    BY <1>1, <1>4, <1>6, TaskAssumption DEF Records
<1>9. TakenAfter(Call(t), id, HasTaken(t, id)) = 0 /\ ~Vain(Call(t), id, HasTaken(t, id))
  <2>1. Call(t).op \notin Takes
    BY DEF Takes, Gives, Sends
  <2> QED
    BY <2>1 DEF TakenAfter, Vain
<1>10. queue \in [Queue -> AnyQueue] /\ CallsTyped /\ k.held \in [Task -> Nat]
  BY DEF KernelInv, QueuesTyped, Good, KernelState
<1>11. \A u \in Task : k'.held[u] = Cardinality(HeldOf(u)')
  <2>1. queue'[id].holder = NoTask /\ \A p \in MutexesOf(app) \ {id} : queue'[p].holder = queue[p].holder
    BY <1>1, <1>3, <1>6, <1>10 DEF MutexesOf
  <2>2. \A u \in Task : k.held[u] = Cardinality(HeldOf(u))
    BY DEF MutexInv
  <2>3. /\ queue[id].holder = t /\ queue'[id].holder = NoTask
        /\ k'.held = [k.held EXCEPT ![t] = k.held[t] - 1]
    BY <1>3, <1>4, <1>7, <2>1
  <2> HIDE DEF n, q, counted
  <2> QED
    BY <1>10, <2>1, <2>2, <2>3, HeldLess
<1> QED
  BY <1>3, <1>8, <1>9, <1>10, <1>11, OneMutex

\* or counts a take more, or one less, of the mutex it holds.
LEMMA MutexCounted ==
  ASSUME KernelInv, MutexInv, MutexesGivenBack, app' = app, k' = k,
         NEW t \in Task, app.calls[t] # <<>>,
         NEW id \in MutexesOf(app), On(Call(t), id), Q(t).holder = t,
         UsedBy(app, id, Counted), ~Vain(Call(t), id, HasTaken(t, id)),
         NEW m \in Nat \ {0}, TakenAfter(Call(t), id, HasTaken(t, id)) = m,
         NEW w, w = [Q(t) EXCEPT !.recursion = m], queue' = [queue EXCEPT ![id] = w], Return(t)
  PROVE  MutexInv'
<1> DEFINE counted == UsedBy(app, id, Counted)
           n == [u \in Task |-> HasTaken(u, id)]
           q == queue[id]
<1>1. /\ id \in Queue /\ q \in AnyQueue /\ Records(q, n, counted)
      /\ n \in [Task -> Nat] /\ counted \in BOOLEAN
  BY MutexFacts DEF MutexKept
<1>2. Q(t) = q
  BY DEF On, Q
<1>3. w.length = q.length /\ w.items = q.items /\ w.holder = q.holder /\ w.recursion = m
  <2> HIDE DEF q
  <2> QED
    BY <1>1, <1>2 DEF AnyQueue
<1>4. Records(w, [n EXCEPT ![t] = m], counted)
  <2> HIDE DEF n, q
  <2> QED
    BY <1>1, <1>2, <1>3, TaskAssumption DEF Records
<1>5. queue \in [Queue -> AnyQueue] /\ CallsTyped
  BY DEF KernelInv, QueuesTyped
<1>6. \A u \in Task : k'.held[u] = Cardinality(HeldOf(u)')
  <2>1. \A p \in MutexesOf(app) : queue'[p].holder = queue[p].holder
    BY <1>3, <1>5 DEF MutexesOf
  <2>2. \A u \in Task : HeldOf(u)' = HeldOf(u)
    BY <2>1 DEF HeldOf, MutexesOf
  <2> QED
    BY <2>2 DEF MutexInv
<1> QED
  BY <1>4, <1>5, <1>6, OneMutex

-----------------------------------------------------------------------------
\* The first critical section of xQueueGenericSend, xQueueReceive,
\* xQueueSemaphoreTake and xQueuePeek.
LEMMA TransferMutexes ==
  ASSUME KernelInv, MutexInv, MutexesGivenBack, IsFiniteSet(Queue), AllHoldersKept,
         NEW t \in Task, Transfer(t)
  PROVE  MutexInv'
<1> DEFINE id == Call(t).queue
           q == Q(t)
           sent == SendWithRoom(k, q, id, ItemSent(t), Call(t).position)
           taken(n) == TakeItem(k, q, id, n)
           peeked == PeekItem(k, q, id)
<1>1. Running(t, Waits, "start") /\ CanGo(t) /\ app' = app /\ Return(t)
  BY DEF Transfer
<1>2. /\ t = k.current /\ k.current \in Task /\ app.calls[t] # <<>> /\ Call(t).op \in Waits
      /\ IsCall(Call(t), Len(app.calls[t])) /\ thread[t] \in ThreadState /\ k \in Good
      /\ IsReady(k, t) /\ CallsTyped
  BY <1>1, RunningFacts DEF Awake
<1>3. id \in Queue /\ q \in AnyQueue /\ q.kind = app.queues[id].kind
  BY <1>2, QueueOfCall DEF IsCall, KernelInv, QueuesTyped, Q
<1>4. /\ Call(t).op \in Sends => Commit(t, sent)
      /\ Call(t).op = "receive" => Commit(t, taken(0))
      /\ Call(t).op \in Takes /\ Call(t).op # "receive" => Commit(t, taken(1))
      /\ Call(t).op = "peek" => Commit(t, peeked)
  <2>1. Call(t).op \in Sends => Commit(t, sent)
    BY DEF Transfer, Sends
  <2>2. Call(t).op = "receive" => Commit(t, taken(0))
    BY DEF Transfer, Sends
  <2>3. Call(t).op \in Takes /\ Call(t).op # "receive" => Commit(t, taken(1))
    BY DEF Transfer, Sends, Takes
  <2>4. Call(t).op = "peek" => Commit(t, peeked)
    BY DEF Transfer, Sends
  <2> QED
    BY <2>1, <2>2, <2>3, <2>4
<1>5. CASE Call(t).op \in Sends /\ id \in MutexesOf(app)
  <2>1. On(Call(t), id) /\ q = queue[id] /\ q.kind = "mutex"
    BY <1>2, <1>3, <1>5 DEF On, Q, MutexesOf
  <2>2. HasTaken(t, id) = 1
    BY <1>2, <1>5, <2>1, TracksCall
  <2>3. q.recursion = 0
    <3>1. UsedBy(app, id, Plain)
      BY <1>2, <1>5, <2>1, CallUses DEF Plain
    <3> QED
      BY <1>5, <2>1, <3>1, MutexFacts, ZenonT(30) DEF MutexKept, Records
  <2>4. Call(t).op \in Gives /\ Call(t).position \in Position
    BY <1>2, <1>5 DEF Gives, IsCall
  <2>5. ItemSent(t) \in Item
    BY <1>2, <1>5 DEF ItemSent, IsCall, ThreadState
  <2> HIDE DEF id, q
  <2> QED
    BY <1>1, <1>2, <1>3, <1>4, <1>5, <2>1, <2>2, <2>3, <2>4, <2>5, MutexGiven DEF q, id
<1>6. CASE Call(t).op \in Takes /\ id \in MutexesOf(app)
  <2>1. On(Call(t), id)
    BY <1>2 DEF On
  <2>2. Len(q.items) # 0
    BY <1>1, <1>6 DEF CanGo, Takes, Sends, prvIsQueueEmpty, uxQueueMessagesWaiting
  <2>3. UsedBy(app, id, Counted) <=> Call(t).op # "receive"
    <3>1. CASE Call(t).op = "receive"
      <4>1. UsedBy(app, id, Plain)
        BY <1>2, <2>1, <3>1, CallUses DEF Plain
      <4> QED
        BY <1>6, <3>1, <4>1, MutexFacts
    <3>2. CASE Call(t).op # "receive"
      <4>1. Call(t).op \in Counted
        BY <1>6, <3>2 DEF Takes, Counted
      <4> QED
        BY <1>2, <2>1, <3>2, <4>1, CallUses
    <3> QED
      BY <3>1, <3>2
  <2>4. Commit(t, taken(IF UsedBy(app, id, Counted) THEN 1 ELSE 0))
    <3>1. CASE UsedBy(app, id, Counted)
      BY <1>4, <1>6, <2>3, <3>1
    <3>2. CASE ~UsedBy(app, id, Counted)
      BY <1>4, <1>6, <2>3, <3>2
    <3> QED
      BY <3>1, <3>2
  <2> QED
    BY <1>1, <1>2, <1>6, <2>1, <2>2, <2>4, MutexTaken
<1>7. CASE Call(t).op = "peek" \/ id \notin MutexesOf(app)
  <2>1. Steady(t)
    <3>1. Call(t).op = "peek" => Call(t).op \notin Takes \cup Gives
      BY DEF Takes, Gives, Sends
    <3> QED
      BY <1>1, <1>2, <1>7, <3>1, ElsewhereSteady
  <2>2. q.kind # "mutex" \/ Call(t).op = "peek"
    BY <1>3, <1>7 DEF MutexesOf
  <2>3. PICK r \in {sent, taken(0), taken(1), peeked} : Commit(t, r) /\ (Call(t).op = "peek" => r = peeked)
    <3>1. CASE Call(t).op = "peek"
      BY <1>4, <3>1
    <3>2. CASE Call(t).op # "peek"
      BY <1>2, <1>4, <3>2 DEF Waits, Looks
    <3> QED
      BY <3>1, <3>2
  <2>4. peeked.k.held = k.held /\ SameMutex(q, peeked.q)
    BY <1>2, <1>3, QueueHeld, QuietQueue
  <2>5. r.k.held = k.held
    <3>1. CASE Call(t).op = "peek"
      BY <2>3, <2>4, <3>1
    <3>2. CASE Call(t).op \in Sends
      <4>1. ItemSent(t) \in Item /\ Call(t).position \in Position
        BY <1>2, <3>2 DEF ItemSent, IsCall, ThreadState
      <4>2. q.kind # "mutex"
        BY <2>2, <3>2 DEF Sends
      <4>3. sent.k.held = k.held /\ \A n : taken(n).k.held = k.held
        <5> HIDE DEF id, q
        <5> QED
          BY <1>2, <1>3, <4>1, <4>2, PlainQueueHeld
      <4> HIDE DEF sent, taken, peeked
      <4> QED
        BY <2>3, <2>4, <4>3
    <3>3. CASE Call(t).op \in Takes
      <4>1. q.kind # "mutex"
        BY <2>2, <3>3 DEF Takes
      <4>2. \A n : taken(n).k.held = k.held
        <5> HIDE DEF id, q
        <5> QED
          BY <1>2, <1>3, <4>1, PlainQueueHeld
      <4>3. k' = r.k /\ (k' = taken(0).k \/ k' = taken(1).k)
        BY <1>4, <2>3, <3>3 DEF Commit
      <4> HIDE DEF sent, taken, peeked
      <4> QED
        BY <4>2, <4>3
    <3> QED
      BY <1>2, <3>1, <3>2, <3>3 DEF Waits, Looks
  <2>6. k'.held = k.held
    BY <2>3, <2>5 DEF Commit
  <2>7. id \in MutexesOf(app) => SameMutex(q, r.q)
    BY <1>7, <2>3, <2>4
  <2> HIDE DEF sent, taken, peeked, id, q
  <2> QED
    BY <1>1, <1>2, <1>3, <2>1, <2>3, <2>6, <2>7, QuietStepMutexes DEF id, q
<1> QED
  BY <1>2, <1>5, <1>6, <1>7 DEF Waits, Looks

\* xQueueTakeMutexRecursive by the holder.
LEMMA TakeAgainMutexes ==
  ASSUME KernelInv, MutexInv, MutexesGivenBack, IsFiniteSet(Queue), NEW t \in Task, TakeAgain(t)
  PROVE  MutexInv'
<1> DEFINE ops == {"take recursive"}
           id == Call(t).queue
           w == [Q(t) EXCEPT !.recursion = @ + 1]
           n == HasTaken(t, id)
<1>1. /\ Running(t, ops, "start") /\ HoldsAlready(t) /\ Return(t) /\ app' = app
      /\ Commit(t, [k |-> k, q |-> w])
  BY DEF TakeAgain
<1>2. ops \subseteq Takes /\ ops \subseteq Counted /\ ops \subseteq Waits
  BY DEF Takes, Counted, Waits, Looks
<1> HIDE DEF ops
<1>3. /\ app.calls[t] # <<>> /\ Call(t).op \in ops /\ CallsTyped
      /\ IsCall(Call(t), Len(app.calls[t]))
  BY <1>1, RunningFacts
<1>4. Q(t).holder = t /\ id \in Queue
  BY <1>1, <1>2, <1>3 DEF HoldsAlready, IsCall
<1>5. id \in MutexesOf(app) /\ On(Call(t), id)
  BY <1>2, <1>3, <1>4, TaskAssumption DEF MutexInv, Q, MutexesOf, On
<1>6. UsedBy(app, id, Counted)
  BY <1>2, <1>3, <1>5, CallUses
<1>7. n \in Nat \ {0} /\ Q(t).recursion = n
  <2> DEFINE all == [u \in Task |-> HasTaken(u, id)]
  <2>1. Records(Q(t), all, UsedBy(app, id, Counted)) /\ all[t] = n /\ all \in [Task -> Nat]
    BY <1>5, MutexFacts DEF MutexKept, Q
  <2>2. n > 0
    BY <1>4, <1>5, TakenIsHeld DEF Q
  <2> HIDE DEF all, n
  <2> QED
    BY <1>4, <1>6, <2>1, <2>2, TaskAssumption DEF Records
<1>8. TakenAfter(Call(t), id, n) = n + 1 /\ ~Vain(Call(t), id, n)
  <2>1. Call(t).op \in Takes /\ Call(t).op \notin Gives
    BY <1>2, <1>3 DEF Takes, Gives, Sends
  <2> HIDE DEF id, n
  <2> QED
    BY <1>5, <2>1 DEF TakenAfter, Vain
<1>9. k' = k /\ queue' = [queue EXCEPT ![id] = w]
  BY <1>1 DEF Commit
<1>10. w = [Q(t) EXCEPT !.recursion = n + 1]
  BY <1>7
<1>11. n + 1 \in Nat \ {0}
  BY <1>7
<1> HIDE DEF w
<1> QED
  BY <1>1, <1>3, <1>4, <1>5, <1>6, <1>8, <1>9, <1>10, <1>11, MutexCounted

-----------------------------------------------------------------------------
\* xQueueGiveMutexRecursive
LEMMA GiveRecursiveMutexes ==
  ASSUME KernelInv, MutexInv, MutexesGivenBack, IsFiniteSet(Queue), AllHoldersKept,
         NEW t \in Task, GiveRecursive(t)
  PROVE  MutexInv'
<1> DEFINE ops == {"give recursive"}
           id == Call(t).queue
           q == Q(t)
           less == [q EXCEPT !.recursion = @ - 1]
           n == HasTaken(t, id)
<1>1. Running(t, ops, "start") /\ app' = app
  BY DEF GiveRecursive
<1>2. ops \subseteq Gives /\ ops \subseteq Counted
  BY DEF Gives, Counted
<1> HIDE DEF ops
<1>3. /\ app.calls[t] # <<>> /\ CallsTyped /\ IsReady(k, t) /\ Call(t).op \in ops
      /\ IsCall(Call(t), Len(app.calls[t]))
  BY <1>1, RunningFacts DEF Awake
<1>4. id \in Queue /\ Call(t).item \in Item /\ q \in AnyQueue /\ On(Call(t), id)
  BY <1>2, <1>3, QueueOfCall DEF IsCall, On, ops
<1>5. CASE q.holder # t
  <2>1. k' = k /\ queue' = queue /\ Fail(t)
    BY <1>5 DEF GiveRecursive
  <2>2. CanFail(t)
    <3> SUFFICES ASSUME NEW p \in MutexesOf(app), Certain(Call(t), p, HasTaken(t, p)) PROVE FALSE
      BY DEF CanFail
    <3>1. p = id /\ Call(t).op \notin Sends
      <4>1. \A op \in ops : op \notin Sends
        BY DEF ops, Sends
      <4> QED
        BY <1>3, <4>1 DEF Certain, On
    <3>2. HasTaken(t, p) > 0
      BY <3>1 DEF Certain
    <3> QED
      BY <1>5, <3>1, <3>2, TakenIsHeld DEF Q
  <2>3. Steady(t)
    BY <1>2, <1>3, <2>1, <2>2, FailSteady
  <2> QED
    BY <1>1, <1>3, <2>1, <2>3, QuietStepMutexes
<1>6. CASE q.holder = t
  <2>1. id \in MutexesOf(app) /\ q.kind = "mutex"
    BY <1>4, <1>6, TaskAssumption DEF MutexInv, KernelInv, QueuesTyped, MutexesOf, Q
  <2>2. UsedBy(app, id, Counted)
    BY <1>2, <1>3, <1>4, CallUses
  <2>3. n \in Nat \ {0} /\ q.recursion = n
    <3> DEFINE all == [u \in Task |-> HasTaken(u, id)]
    <3>1. Records(q, all, UsedBy(app, id, Counted)) /\ all[t] = n /\ all \in [Task -> Nat]
      BY <2>1, MutexFacts DEF MutexKept, Q
    <3>2. n > 0
      BY <1>6, <2>1, TakenIsHeld DEF Q
    <3> HIDE DEF all, n, q
    <3> QED
      BY <1>6, <2>2, <3>1, <3>2, TaskAssumption DEF Records
  <2>4. less = [q EXCEPT !.recursion = n - 1]
    BY <2>3
  <2>5. /\ less \in AnyQueue /\ less.kind = q.kind /\ less.holder = q.holder
        /\ less.recursion = n - 1 /\ less.items = q.items /\ less.length = q.length
    <3>1. less \in AnyQueue /\ less.kind = q.kind /\ less.holder = q.holder
      BY <1>4, RecursionTyped
    <3> HIDE DEF less, q, n
    <3> QED
      BY <1>4, <2>4, <3>1 DEF AnyQueue
  <2>6. TakenAfter(Call(t), id, n) = n - 1 /\ ~Vain(Call(t), id, n)
    <3>1. Call(t).op \in Gives /\ Call(t).op \notin Takes
      BY <1>2, <1>3 DEF Takes, ops
    <3> HIDE DEF id, n
    <3> QED
      BY <1>4, <2>3, <3>1 DEF TakenAfter, Vain
  <2>7. CASE less.recursion # 0
    <3>1. Commit(t, [k |-> k, q |-> less]) /\ Return(t)
      BY <1>6, <2>7 DEF GiveRecursive
    <3>2. k' = k /\ queue' = [queue EXCEPT ![id] = less]
      BY <3>1 DEF Commit
    <3>3. n - 1 \in Nat \ {0}
      BY <2>3, <2>5, <2>7
    <3> HIDE DEF less
    <3> QED
      BY <1>1, <1>3, <1>4, <1>6, <2>1, <2>2, <2>4, <2>6, <3>1, <3>2, <3>3, MutexCounted
  <2>8. CASE less.recursion = 0
    <3>1. Commit(t, SendWithRoom(k, less, id, Call(t).item, "back")) /\ Return(t)
      BY <1>6, <2>8 DEF GiveRecursive
    <3>2. n = 1 /\ "back" \in Position /\ Call(t).op \in Gives
      BY <1>2, <1>3, <2>3, <2>5, <2>8 DEF Position
    <3> HIDE DEF less, q, id
    <3> QED
      BY <1>1, <1>3, <1>4, <2>1, <2>5, <2>8, <3>1, <3>2, MutexGiven DEF q
  <2> QED
    BY <2>7, <2>8
<1> QED
  BY <1>5, <1>6

\* xQueueGenericReset
LEMMA ResetMutexes ==
  ASSUME KernelInv, MutexInv, MutexesGivenBack, AllHoldersKept, NEW t \in Task, Reset(t)
  PROVE  MutexInv'
<1> DEFINE r == xQueueGenericReset(k, Q(t), Call(t).queue)
<1>1. Running(t, {"reset"}, "start") /\ app' = app /\ Return(t) /\ Commit(t, r)
  BY DEF Reset
<1>2. /\ app.calls[t] # <<>> /\ CallsTyped /\ k \in Good /\ Call(t).op = "reset"
      /\ IsCall(Call(t), Len(app.calls[t]))
  BY <1>1, RunningFacts
<1>3. Call(t).queue \in Queue /\ Q(t) \in AnyQueue
  BY <1>2, QueueOfCall DEF IsCall
<1>4. Call(t).queue \notin MutexesOf(app)
  BY <1>2, TracksCall DEF On
<1>5. k'.held = k.held
  BY <1>1, <1>2, <1>3, QueueHeld DEF Commit
<1>6. Steady(t)
  BY <1>1, <1>2, <1>4, ElsewhereSteady
<1> HIDE DEF r
<1> QED
  BY <1>1, <1>2, <1>3, <1>4, <1>5, <1>6, QuietStepMutexes

\* The calls of queue.c.
LEMMA QueueStepMutexes ==
  ASSUME KernelInv, MutexInv, MutexesGivenBack, IsFiniteSet(Queue), AllHoldersKept,
         NEW t \in Task, QueueStep(t)
  PROVE  MutexInv'
BY TransferMutexes, StuckMutexes, WaitMutexes, TakeAgainMutexes, GiveRecursiveMutexes, ResetMutexes
   DEF QueueStep

-----------------------------------------------------------------------------
\* Those of tasks.c take and give no mutex.
LEMMA TaskStepHeld ==
  ASSUME KernelInv, NEW t \in Task, TaskStep(t)
  PROVE  k'.held = k.held
<1>1. k \in Good /\ k \in KernelState
  BY DEF KernelInv, Good
<1>2. CASE BeginSuspended(t)
  <2>1. k' = vTaskSwitchContext(k) \/ k' = vTaskSuspendAll(k)
    BY <1>2 DEF BeginSuspended
  <2>2. vTaskSuspendAll(k).held = k.held
    BY <1>1 DEF vTaskSuspendAll, KernelState
  <2> QED
    BY <1>1, <2>1, <2>2, SwitchFrees DEF Frees
<1>3. CASE Delay(t) \/ DelayUntil(t)
  <2>1. \E ops : Running(t, ops, "suspended")
    BY <1>3 DEF Delay, DelayUntil
  <2>2. k.current \in Task
    BY <2>1, RunningFacts
  <2>3. k' = k \/ \E ticks : k' = prvAddCurrentTaskToDelayedList(k, ticks, FALSE)
    BY <1>3 DEF Delay, DelayUntil
  <2> QED
    BY <1>1, <2>2, <2>3, AddToDelayedFrees, ZenonT(30) DEF Frees
<1>4. CASE Abort(t)
  <2>1. Running(t, {"abort"}, "suspended") /\ k' = xTaskAbortDelay(k, Call(t).task)
    BY <1>4 DEF Abort
  <2>2. Call(t).task \in Task
    BY <2>1, RunningFacts DEF IsCall
  <2> QED
    BY <1>1, <2>1, <2>2, AbortDelayFrees DEF Frees
<1>5. CASE EndSuspended(t)
  <2>1. Running(t, {"delay", "until", "abort"}, "resume") /\ k' = xTaskResumeAll(k).k
    BY <1>5 DEF EndSuspended
  <2> QED
    BY <1>1, <2>1, RunningRun, ResumeAllFrees DEF Locked, Frees
<1>6. CASE Suspend(t)
  <2>1. Running(t, {"suspend"}, "start") /\ k' = vTaskSuspend(k, Call(t).task)
    BY <1>6 DEF Suspend
  <2>2. Call(t).task \in Task
    BY <2>1, RunningFacts DEF IsCall
  <2> QED
    BY <1>1, <2>1, <2>2, SuspendFrees DEF Frees
<1>7. CASE EndSuspend(t) \/ YieldAndReturn(t)
  BY <1>1, <1>7, SwitchFrees DEF EndSuspend, YieldAndReturn, Frees
<1>8. CASE Resume(t)
  <2>1. Running(t, {"resume"}, "start") /\ k' = vTaskResume(k, Call(t).task)
    BY <1>8 DEF Resume
  <2>2. Call(t).task \in Task
    BY <2>1, RunningFacts DEF IsCall
  <2> QED
    BY <1>1, <2>1, <2>2, ResumeFrees DEF Frees
<1>9. CASE PrioritySet(t)
  <2>1. Running(t, {"priority"}, "start") /\ k' = vTaskPrioritySet(k, Call(t).task, Call(t).prio)
    BY <1>9 DEF PrioritySet
  <2>2. Call(t).op = "priority" /\ IsCall(Call(t), Len(app.calls[t]))
    BY <2>1, RunningFacts
  <2>3. Call(t).task \in Task /\ Call(t).prio \in Priority
    BY <2>2 DEF IsCall
  <2> QED
    BY <1>1, <2>1, <2>3, PrioritySetFrees DEF Frees
<1> QED
  BY <1>2, <1>3, <1>4, <1>5, <1>6, <1>7, <1>8, <1>9 DEF TaskStep

\* Nor do their tasks come to where they have.
LEMMA TaskStepMutexes ==
  ASSUME KernelInv, MutexInv, MutexesGivenBack, AllHoldersKept, NEW t \in Task, TaskStep(t)
  PROVE  MutexInv'
<1> DEFINE ops == {"delay", "until", "abort", "suspend", "resume", "priority"}
<1>1. \E pc : Running(t, ops, pc)
  <2>1. \E some \in SUBSET ops : \E pc : Running(t, some, pc)
    BY DEF TaskStep, BeginSuspended, Delay, DelayUntil, Abort, EndSuspended, Suspend, EndSuspend,
           YieldAndReturn, Resume, PrioritySet
  <2> QED
    BY <2>1 DEF Running
<1>2. app' = app /\ queue' = queue
  BY DEF TaskStep, BeginSuspended, Delay, DelayUntil, Abort, EndSuspended, Suspend, EndSuspend,
         YieldAndReturn, Resume, PrioritySet
<1>3. ops \cap (Waits \cup Gives \cup {"reset"}) = {}
  BY DEF Waits, Gives, Sends, Looks, Takes
<1> HIDE DEF ops
<1>4. app.calls[t] # <<>> /\ CallsTyped /\ thread[t] \in ThreadState /\ Call(t).op \in ops
  BY <1>1, RunningFacts
<1>5. \A q : ~On(Call(t), q)
  BY <1>3, <1>4 DEF On
<1>6. CanFail(t)
  BY <1>5 DEF CanFail, Certain
<1>7. Steady(t)
  <2>1. ASSUME Return(t) PROVE Steady(t)
    BY <1>4, <1>5, <2>1, ReturnsSteady
  <2>2. ASSUME NEW pc, Goto(t, pc) PROVE Steady(t)
    BY <1>6, <2>2, GotoSteady
  <2>3. CASE DelayUntil(t)
    <3> DEFINE wake == TimeToWake(k.tick, thread[t].previous, Call(t).ticks)
               rounds == thread[t].rounds + 1
               th == [thread[t] EXCEPT !.pc = "resume", !.previous = wake, !.rounds = rounds]
    <3>1. thread \in [Task -> ThreadState]
      BY <1>4 DEF CallsTyped
    <3>2. thread' = [thread EXCEPT ![t].pc = "resume", ![t].previous = wake, ![t].rounds = rounds]
      BY <1>4, <2>3, <3>1 DEF DelayUntil
    <3> HIDE DEF wake, rounds
    <3>3. thread' = [thread EXCEPT ![t] = th] /\ th.at = thread[t].at
      BY <1>4, <3>1, <3>2 DEF ThreadState
    <3> HIDE DEF th
    <3> QED
      BY <1>6, <3>3, GoesOnSteady
  <2>4. Return(t) \/ (\E pc : Goto(t, pc)) \/ DelayUntil(t)
    BY DEF TaskStep, BeginSuspended, Delay, Abort, EndSuspended, Suspend, EndSuspend,
           YieldAndReturn, Resume, PrioritySet
  <2> QED
    BY <2>1, <2>2, <2>3, <2>4
<1> QED
  BY <1>2, <1>4, <1>7, TaskStepHeld, QuietStepMutexes

-----------------------------------------------------------------------------
\* Interrupts.
LEMMA TickMutexes ==
  ASSUME KernelInv, MutexInv, Tick
  PROVE  MutexInv'
<1> DEFINE ticked == xTaskIncrementTick(k)
<1>1. k \in Good /\ k' = YieldIf(ticked.k, ticked.yes)
  BY DEF KernelInv, Tick
<1>2. ticked.k \in KernelState /\ ticked.k.held = k.held
  BY <1>1, IncrementTickGood, IncrementTickFrees DEF Moves, Good, Frees
<1> HIDE DEF ticked
<1>3. k'.held = k.held
  BY <1>1, <1>2, SwitchFrees DEF Frees
<1>4. app' = app /\ thread' = thread /\ queue' = queue
  BY DEF Tick
<1> QED
  BY <1>3, <1>4, InterruptMutexes DEF SameMutex

\* A handler neither takes a mutex nor gives one back.
LEMMA IrqMutexes ==
  ASSUME KernelInv, MutexInv, MutexesGivenBack, AllHoldersKept, Irq
  PROVE  MutexInv'
<1>1. k \in Good /\ QueuesTyped(queue) /\ IsApp(app) /\ GivesBack(app)
  BY AppsAssumption DEF KernelInv, CallsTyped, MutexesGivenBack
<1>2. app' = app /\ thread' = thread
  BY DEF Irq
<1>3. PICK h \in app.handlers : QueueIrq(h) \/ ResumeIrq(h)
  BY DEF Irq
<1>4. IsHandler(h, app.queues)
  BY <1>1 DEF IsApp
<1>5. k'.held = k.held /\ \A q \in MutexesOf(app) : queue'[q] = queue[q]
  <2>1. CASE QueueIrq(h)
    <3> DEFINE id == h.queue
               q == queue[id]
               sent == xQueueGenericSendFromISR(k, q, id, h.item, h.position)
               given == xQueueGiveFromISR(k, q, id, h.item)
               received == xQueueReceiveFromISR(k, q, id)
    <3>1. h.op \in {"send", "give", "receive"} /\ id \in Queue /\ q \in AnyQueue
      BY <1>1, <1>4, <2>1 DEF QueueIrq, IsHandler, QueuesTyped
    <3>2. id \notin MutexesOf(app)
      <4>1. CASE h.op = "send"
        BY <1>4, <4>1 DEF IsHandler, MutexesOf
      <4>2. CASE h.op \in {"give", "receive"}
        BY <1>1, <4>2 DEF GivesBack
      <4> QED
        BY <3>1, <4>1, <4>2
    <3>3. q.kind # "mutex"
      BY <1>1, <3>1, <3>2 DEF QueuesTyped, MutexesOf
    <3>4. sent.k.held = k.held /\ given.k.held = k.held /\ received.k.held = k.held
      BY <1>1, <3>1, <3>3, QueueIrqHeld
    <3>5. \E r \in {sent, given, received} : k' = r.k /\ queue' = [queue EXCEPT ![id] = r.q]
      <4>1. CASE h.op = "send"
        BY <2>1, <4>1 DEF QueueIrq
      <4>2. CASE h.op = "give"
        BY <2>1, <4>2 DEF QueueIrq
      <4>3. CASE h.op = "receive"
        BY <2>1, <4>3 DEF QueueIrq
      <4> QED
        BY <3>1, <4>1, <4>2, <4>3
    <3> HIDE DEF sent, given, received, id, q
    <3> QED
      BY <1>1, <3>2, <3>4, <3>5 DEF QueuesTyped, MutexesOf
  <2>2. CASE ResumeIrq(h)
    <3>1. h.task \in Task /\ k' = xTaskResumeFromISR(k, h.task) /\ queue' = queue
      BY <1>4, <2>2 DEF ResumeIrq, IsHandler
    <3> QED
      BY <1>1, <3>1, ResumeFromISRFrees DEF Frees
  <2> QED
    BY <1>3, <2>1, <2>2
<1>6. \A q \in Queue : app.queues[q].kind # "mutex" => queue'[q].holder = queue[q].holder
  BY <1>1 DEF AllHoldersKept, HolderKept, QueuesTyped
<1> QED
  BY <1>2, <1>5, <1>6, InterruptMutexes DEF SameMutex

\* Every step.
LEMMA NextMutexes ==
  ASSUME KernelInv, MutexInv, MutexesGivenBack, IsFiniteSet(Queue), [Next]_vars
  PROVE  MutexInv'
<1>1. AllHoldersKept
  BY InvImpliesMutexes, StepHolders DEF MutexesSound
<1>2. CASE Tick \/ Irq
  BY <1>1, <1>2, TickMutexes, IrqMutexes
<1>3. ASSUME NEW t \in Task, QueueStep(t) \/ TaskStep(t)
      PROVE  MutexInv'
  BY <1>1, <1>3, QueueStepMutexes, TaskStepMutexes
<1>4. CASE UNCHANGED vars
  <2>1. app' = app /\ thread' = thread /\ k' = k /\ queue' = queue
    BY <1>4 DEF vars
  <2> QED
    BY <2>1, InterruptMutexes DEF SameMutex
<1> QED
  BY <1>2, <1>3, <1>4 DEF Next

\* Before the start no task has taken one.
LEMMA InitMutexes ==
  ASSUME MutexesGivenBack, Init
  PROVE  MutexInv
<1>1. app \in Apps /\ IsApp(app) /\ GivesBack(app) /\ queue = app.queues /\ CallsTyped
  BY AppsAssumption, InitInv DEF Init, MutexesGivenBack, KernelInv
<1>2. \A t \in Task : thread[t].pc = "start" /\ thread[t].at = 1
  <2>1. \A t \in Task : thread[t] = Begin(1, 0, 0)
    BY DEF Init
  <2> QED
    BY <2>1 DEF Begin
<1>3. \A q \in Queue : queue[q].holder = NoTask
  BY <1>1 DEF GivesBack
<1>4. ASSUME NEW q \in MutexesOf(app) PROVE MutexKept(q)
  <2> DEFINE n == [t \in Task |-> HasTaken(t, q)]
  <2>1. ASSUME NEW t \in Task PROVE n[t] = 0
    <3>1. CASE app.calls[t] = <<>>
      BY <3>1 DEF HasTaken, Taken
    <3>2. CASE app.calls[t] # <<>>
      BY <1>1, <1>2, <3>2, TracksCall DEF HasTaken
    <3> QED
      BY <3>1, <3>2
  <2>2. q \in Queue /\ queue[q].length = 1 /\ Len(queue[q].items) = 1 /\ queue[q].recursion = 0
    BY <1>1 DEF GivesBack, MutexesOf
  <2> HIDE DEF n
  <2>3. Records(queue[q], n, UsedBy(app, q, Counted))
    BY <1>3, <2>1, <2>2, TaskAssumption DEF Records
  <2> QED
    BY <1>2, <2>3 DEF MutexKept, AtOnce, n
<1>5. ASSUME NEW t \in Task PROVE k.held[t] = Cardinality(HeldOf(t))
  <2> DEFINE empty == prvInitialiseTaskLists(app)
             tasks == app.tasks
             full == AddTasks(empty, tasks)
  <2>1. k = vTaskSwitchContext(full)
    BY DEF Init
  <2>2. /\ empty \in Good /\ empty.current = NoTask /\ empty.schedSusp = 0
        /\ \A u \in Task : Away(empty, u) /\ Free(empty, u)
    BY <1>1, EmptyListsGood
  <2>3. empty.held = [u \in Task |-> 0]
    BY DEF prvInitialiseTaskLists
  <2>4. tasks \in Seq(Task) /\ IsInjective(tasks)
    BY <1>1 DEF IsApp
  <2> HIDE DEF empty, tasks
  <2>5. full \in Good /\ full.held = empty.held
    BY <2>2, <2>4, AddTasksGood
  <2> HIDE DEF full
  <2>6. k.held[t] = 0
    BY <2>1, <2>3, <2>5, SwitchFrees DEF Good, Frees
  <2>7. HeldOf(t) = {}
    BY <1>3, TaskAssumption DEF HeldOf, MutexesOf
  <2> QED
    BY <2>6, <2>7, FS_EmptySet
<1> QED
  BY <1>3, <1>4, <1>5 DEF MutexInv

\* The inductive invariant of an application that gives its mutexes back.
LEMMA MutexesInvariant ==
  ASSUME MutexesGivenBack, IsFiniteSet(Queue)
  PROVE  Spec => [](KernelInv /\ MutexInv)
<1>1. Init => KernelInv /\ MutexInv
  BY InitInv, InitMutexes
<1>2. KernelInv /\ MutexInv /\ [Next]_vars => KernelInv' /\ MutexInv'
  <2> SUFFICES ASSUME KernelInv, MutexInv, [Next]_vars PROVE KernelInv' /\ MutexInv'
    OBVIOUS
  <2>1. GivenByHolder
    BY InvImpliesMutexes DEF MutexesSound
  <2> QED
    BY <2>1, NextKeeps, NextMutexes
<1> QED
  BY <1>1, <1>2, PTL DEF Spec

-----------------------------------------------------------------------------
\* What a mutex and the tasks record of who holds it agree, and no task gives back
\* what it does not hold or has not taken so often (queue.c: prvCopyDataToQueue,
\* xQueueTakeMutexRecursive, xQueueGiveMutexRecursive; tasks.c: uxMutexesHeld).
THEOREM MutexesKept ==
  ASSUME MutexesGivenBack, IsFiniteSet(Queue)
  PROVE  Spec => []MutexesSound
<1>1. Spec => [](KernelInv /\ MutexInv)
  BY MutexesInvariant
<1>2. KernelInv /\ MutexInv => MutexesSound
  BY InvImpliesMutexes
<1> QED
  BY <1>1, <1>2, PTL

\* So what the lists, the scheduler and the clock count on from who gives a mutex back
\* can be told from the programs: no task of theirs is lost or in two lists, and the
\* scheduler is suspended by the running task only (tasks.c, list.c, queue.c).
THEOREM ListsKeptWithMutexes ==
  ASSUME MutexesGivenBack, IsFiniteSet(Queue)
  PROVE  Spec => [](ListsSound /\ SuspendedByRunning /\ RunningIsReady)
<1>1. Spec => []MutexesSound
  BY MutexesKept
<1>2. MutexesSound => GivenByHolder
  BY DEF MutexesSound
<1> QED
  BY <1>1, <1>2, ListsKept, RunningTaskKept, PTL

\* Their bit map is exact and a most urgent task runs, as long as no task loses an
\* inherited priority where the scheduler does not look (tasks.c:
\* xTaskPriorityDisinherit, vTaskPriorityDisinheritAfterTimeout).
THEOREM SchedulerKeptWithMutexes ==
  ASSUME MutexesGivenBack, IsFiniteSet(Queue)
  PROVE  Spec /\ []GivenToUrgent /\ []GivenUpQuietly => []SchedulerSound
<1>1. Spec => []MutexesSound
  BY MutexesKept
<1>2. MutexesSound => GivenByHolder /\ GivenAsTaken
  BY DEF MutexesSound
<1> QED
  BY <1>1, <1>2, SchedulerKept, PTL

\* And time is kept, as long as whoever waits with a time-out looks at the clock in
\* time (tasks.c: xTaskCheckForTimeOut); always, if all wait for ever or not at all.
THEOREM TimeIsKeptWithMutexes ==
  ASSUME MutexesGivenBack, IsFiniteSet(Queue)
  PROVE  /\ Spec /\ []LookedAtInTime => []TimeKept
         /\ NoTimeouts => (Spec => []TimeKept)
<1>1. Spec => []MutexesSound
  BY MutexesKept
<1>2. MutexesSound => GivenByHolder
  BY DEF MutexesSound
<1>3. Spec /\ []LookedAtInTime => []TimeKept
  BY <1>1, <1>2, TimeIsKept, PTL
<1>4. ASSUME NoTimeouts PROVE Spec => []TimeKept
  <2>1. Spec /\ []GivenByHolder => []LookedAtInTime
    BY <1>4, NoneLate
  <2> QED
    BY <1>1, <1>2, <1>3, <2>1, PTL
<1> QED
  BY <1>3, <1>4
=============================================================================
