------------------------------ MODULE MCKernel ------------------------------
(***************************************************************************)
(* The applications that TLC runs on the kernel.                           *)
(***************************************************************************)
EXTENDS KernelCorrect

CONSTANTS A, B, C, Idle, Q1, Q2, I

MCTask == {A, B, C, Idle}

Send(q, n)    == [op |-> "send", queue |-> q, item |-> I, position |-> "back",
                  ticks |-> n, fail |-> 1]
Receive(q, n) == [op |-> "receive", queue |-> q, ticks |-> n, fail |-> 1]
Overwrite(q)  == [Send(q, 0) EXCEPT !.position = "overwrite"]
Give(q)       == Send(q, 0)
Take(q, n)    == Receive(q, n)
Peek(q, n)    == [Receive(q, n) EXCEPT !.op = "peek"]
TakeRec(q, n) == [Receive(q, n) EXCEPT !.op = "take recursive"]
GiveRec(q)    == [Send(q, 0) EXCEPT !.op = "give recursive"]
ResetOf(q)    == [op |-> "reset", queue |-> q]
Until(n)      == [op |-> "until", ticks |-> n]
Sleep(n)      == [op |-> "delay", ticks |-> n]
SuspendTask(t) == [op |-> "suspend", task |-> t]
ResumeTask(t) == [op |-> "resume", task |-> t]
SetPrio(t, p) == [op |-> "priority", task |-> t, prio |-> p]
AbortOf(t)    == [op |-> "abort", task |-> t]

A_queue(n) == prvInitialiseNewQueue("queue", n)
A_mutex    == xQueueCreateMutex(I)

\* What a handler does.
SendIrq(q)    == [op |-> "send", queue |-> q, item |-> I, position |-> "back"]
GiveIrq(q)    == [SendIrq(q) EXCEPT !.op = "give"]
ReceiveIrq(q) == [op |-> "receive", queue |-> q]
WakeIrq(t)    == [op |-> "resume", task |-> t]

App(tasks, prios, calls, queues, handlers, ticks, irq) ==
  [tasks |-> tasks \o <<Idle>>,
   prio |-> [t \in Task |-> IF t \in DOMAIN prios THEN prios[t] ELSE 0],
   calls |-> [t \in Task |-> IF t \in DOMAIN calls THEN calls[t] ELSE <<>>],
   queues |-> [q \in Queue |-> IF q \in DOMAIN queues THEN queues[q] ELSE A_queue(1)],
   handlers |-> handlers, maxTicks |-> ticks, maxIrqs |-> irq, memory |-> 0,
   firstTick |-> 0]

Prios(a, b, c) == A :> a @@ B :> b @@ C :> c
Calls(a, b, c) == A :> a @@ B :> b @@ C :> c
None == [q \in {} |-> 0]

\* A call whose failure goes on at call i.
Otherwise(call, i) == [call EXCEPT !.fail = i]

\* Delays of all lengths, of two tasks of one priority and one above them.
DelayApps ==
  {App(<<A, B, C>>, Prios(1, 2, 1),
       Calls(<<Sleep(1), Sleep(3)>>, <<Sleep(2), Sleep(0)>>, <<Sleep(3)>>),
       None, {}, 9, 0)}

\* The two tasks of riscv-freertos/src/main.c.
DemoApps ==
  {App(<<A, B>>, A :> 1 @@ B :> 2,
       A :> <<Send(Q1, 0), Sleep(2)>> @@ B :> <<Receive(Q1, portMAX_DELAY)>>,
       None, {}, 9, 0)}

\* Two receivers and a sender, with a handler that sends as well.
QueueApps ==
  {App(<<A, B, C>>, Prios(3, 2, 1),
       Calls(<<Receive(Q1, 2), Sleep(1)>>, <<Receive(Q1, n)>>, <<Send(Q1, 2), second>>),
       None, {[SendIrq(Q1) EXCEPT !.position = second.position]}, 3, 1) :
      n \in {1, 3}, second \in {Send(Q1, 0), Overwrite(Q1)}}

\* Two senders and a receiver, with a handler that receives as well.
RoomApps ==
  {App(<<A, B, C>>, Prios(3, 1, 1),
       Calls(<<Send(Q1, 2), Sleep(1)>>, <<Send(Q1, 3)>>, <<Receive(Q1, 2), Receive(Q1, 0)>>),
       None, {ReceiveIrq(Q1)}, 3, 1)}

\* Three tasks and one mutex.
MutexApps ==
  {App(<<A, B, C>>, Prios(3, pb, 1),
       Calls(<<Sleep(1), Take(Q1, 1), Give(Q1)>>, <<Sleep(2), Take(Q1, 2), Give(Q1)>>,
             <<Take(Q1, 3), Sleep(d), Give(Q1)>>),
       Q1 :> A_mutex, {}, 5, 0) :
      pb \in {2, 3}, d \in {0, 2}}

\* C holds two mutexes, each with a task that waits for it, one of them in vain: C
\* keeps what it has inherited until it has given both.
BothApps ==
  {App(<<A, B, C>>, Prios(3, 2, 1),
       Calls(<<Sleep(1), Take(Q1, 1), Give(Q1)>>,
             <<Sleep(1), Take(Q2, n), Give(Q2)>>,
             <<Take(Q1, 0), Otherwise(Take(Q2, 0), 5), Sleep(2), Otherwise(Give(Q2), 5), Give(Q1)>>),
       Q1 :> A_mutex @@ Q2 :> A_mutex, {}, 5, 0) : n \in {1, 3}}

\* Tasks that are suspended, resumed, made more urgent and woken by another.
ControlApps ==
  {App(<<A, B, C>>, Prios(3, 2, 1),
       Calls(<<Receive(Q1, n), SuspendTask(A)>>, <<Sleep(3), SetPrio(C, 1)>>,
             <<AbortOf(A), SuspendTask(B), ResumeTask(A), SetPrio(C, 2), ResumeTask(B), AbortOf(B)>>),
       None, {SendIrq(Q1)}, 4, 1) :
      n \in {2, 3}}

\* Periodic tasks, one of them late because of the others.
PeriodApps ==
  {App(<<A, B, C>>, Prios(1, 2, 1),
       Calls(<<Until(3)>>, <<Until(2)>>, <<Sleep(1), Until(3)>>), None, {}, 9, 0)}

\* Two tasks that look at an item, one that takes it, a handler that sends.
PeekApps ==
  {App(<<A, B, C>>, Prios(3, 2, 1),
       Calls(<<Peek(Q1, 2), Sleep(2)>>, <<Peek(Q1, 3), Receive(Q1, 0)>>, <<Receive(Q1, 1), Send(Q1, 1)>>),
       None, {SendIrq(Q1)}, 3, 1)}

\* A mutex that is taken twice by the same task, and wanted by another.
RecursiveApps ==
  {App(<<A, C>>, A :> 3 @@ C :> 1,
       A :> <<Sleep(1), TakeRec(Q1, 2), GiveRec(Q1)>> @@
       C :> <<TakeRec(Q1, 1), TakeRec(Q1, 0), GiveRec(Q1), Sleep(1), GiveRec(Q1), GiveRec(Q1)>>,
       Q1 :> A_mutex, {}, 5, 0)}

\* Two senders, one that empties the queue.
ResetApps ==
  {App(<<A, B, C>>, Prios(3, 2, 1),
       Calls(<<Send(Q1, 2), Sleep(1)>>, <<Send(Q1, 3)>>, <<ResetOf(Q1), Sleep(1)>>),
       None, {ReceiveIrq(Q1)}, 3, 1)}

\* A counting semaphore given by a handler.
CountApps ==
  {App(<<A, B, C>>, Prios(3, 2, 1),
       Calls(<<Take(Q1, 2)>>, <<Take(Q1, 1), Give(Q1)>>, <<Sleep(1), Take(Q1, 3)>>),
       Q1 :> xQueueCreateCountingSemaphore(2, 1, I), {GiveIrq(Q1)}, 2, 2)}

\* A task that suspends itself is resumed by a handler, while another has the
\* scheduler suspended.
WakeApps ==
  {App(<<A, B, C>>, Prios(2, 3, 1),
       Calls(<<SuspendTask(A), Sleep(1)>>, <<Sleep(2), Receive(Q1, 2)>>, <<AbortOf(A), Send(Q1, 2)>>),
       None, {WakeIrq(A)}, 4, 2)}

\* All of them, one application to a behaviour.
KernelApps ==
  UNION {DelayApps, DemoApps, QueueApps, RoomApps, MutexApps, BothApps, ControlApps, PeriodApps,
         PeekApps, RecursiveApps, ResetApps, CountApps, WakeApps}

\* What the theorems on time count on: periods, and that where calls have time-outs
\* there is no second wrap of the tick count, so that LookedAtInTime holds.
ASSUME PeriodsAssumption == OnePeriod

ASSUME TurnsAssumption ==
  \A a \in Apps :
    \/ a.firstTick + a.maxTicks < 2 * TickMod
    \/ \A t \in Task : \A i \in DOMAIN a.calls[t] :
         a.calls[t][i].op \in Waits => a.calls[t][i].ticks \in {0, portMAX_DELAY}

\* And those on mutexes, that an application gives back what it takes.
ASSUME GivesBackAssumption == \A a \in KernelApps : GivesBack(a)

-----------------------------------------------------------------------------
(***************************************************************************)
(* One application for each disagreement.                                  *)
(***************************************************************************)
\* B waits in vain for a mutex of C while A waits for one of B.
NestedApps ==
  {App(<<A, B, C>>, Prios(3, 2, 1),
       Calls(<<Sleep(2), Take(Q2, 3), Give(Q2)>>,
             <<Sleep(1), Take(Q2, 0), Otherwise(Take(Q1, 2), 5), Give(Q1), Sleep(1), Give(Q2)>>,
             <<Take(Q1, 0), Sleep(0), Give(Q1)>>),
       Q1 :> A_mutex @@ Q2 :> A_mutex, {}, 5, 0)}

\* C gives two mutexes back in the order in which it took them.
OrderApps ==
  {App(<<A, B, C>>, Prios(3, 1, 1),
       Calls(<<Sleep(1), Take(Q1, 3), Give(Q1)>>,
             <<Take(Q2, 3), Give(Q2)>>,
             <<Take(Q1, 0), Take(Q2, 0), Sleep(0), Give(Q1), Give(Q2)>>),
       Q1 :> A_mutex @@ Q2 :> A_mutex, {}, 5, 0)}

\* B is overtaken by A each time the mutex is given.
GiveUpApps ==
  {App(<<A, B, C>>, Prios(3, 2, 1),
       Calls(<<Sleep(2), Sleep(2), Take(Q1, 3), Sleep(1), Give(Q1)>>,
             <<Sleep(1), Take(Q1, 1), Give(Q1)>>,
             <<Take(Q1, 0), Sleep(0), Give(Q1)>>),
       Q1 :> A_mutex, {}, 5, 0)}

\* B is made more urgent than A while both wait.
UrgencyApps ==
  {App(<<A, B, C>>, Prios(2, 1, 3),
       Calls(<<Receive(Q1, 3)>>,
             <<Receive(Q1, 3)>>,
             <<Sleep(1), SetPrio(B, 3), Send(Q1, 0)>>),
       None, {}, 5, 0)}

\* A's wait for the mutex of C is over while C runs with A's priority and B waits
\* for the mutex as well.
LateApps ==
  {App(<<A, B, C>>, Prios(3, 1, 1),
       Calls(<<Sleep(1), Take(Q1, 1), Sleep(3)>>,
             <<Sleep(1), Take(Q1, 3), Give(Q1)>>,
             <<Take(Q1, 0), Sleep(2), Give(Q1)>>),
       Q1 :> A_mutex, {}, 7, 0)}
=============================================================================
