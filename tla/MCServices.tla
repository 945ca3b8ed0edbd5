----------------------------- MODULE MCServices -----------------------------
(***************************************************************************)
(* The applications that TLC runs on the services of the kernel.           *)
(***************************************************************************)
EXTENDS Services

CONSTANTS A, B, C, Idle, Q1, TQ, I, E1, X, Y, SB

MCTask == {A, B, C, Idle}

MCItem == {I} \cup [id : {"start", "stop", "delete", "change period"}, timer : {X, Y}, value : Ticks]

Sleep(n)       == [op |-> "delay", ticks |-> n]
AbortOf(t)     == [op |-> "abort", task |-> t]
SuspendTask(t) == [op |-> "suspend", task |-> t]
ResumeTask(t)  == [op |-> "resume", task |-> t]
SendTo(q, n)   == [op |-> "send", queue |-> q, item |-> I, position |-> "back",
                   ticks |-> n, fail |-> 1]
ReceiveFrom(q, n) == [op |-> "receive", queue |-> q, ticks |-> n, fail |-> 1]
Otherwise(call, i) == [call EXCEPT !.fail = i]

A_queue(n) == prvInitialiseNewQueue("queue", n)

ServiceApp(tasks, prios, calls, handlers, ticks, irq) ==
  [tasks |-> tasks \o <<Idle>>,
   prio |-> [t \in Task |-> IF t \in DOMAIN prios THEN prios[t] ELSE 0],
   calls |-> [t \in Task |-> IF t \in DOMAIN calls THEN calls[t]
                             ELSE IF t = Idle THEN <<[op |-> "idle"]>> ELSE <<>>],
   queues |-> [q \in Queue |-> A_queue(1)],
   handlers |-> handlers, maxTicks |-> ticks, maxIrqs |-> irq, memory |-> 0,
   firstTick |-> 0,
   timers |-> [x \in Timer |-> xTimerCreate(2, TRUE)],
   streams |-> [s \in Stream |-> xStreamBufferGenericCreate(3, 1, FALSE)]]

Prios(a, b, c) == A :> a @@ B :> b @@ C :> c
Programs(a, b, c) == A :> a @@ B :> b @@ C :> c

-----------------------------------------------------------------------------
Create(p, i) == [op |-> "create", prio |-> p, fail |-> i]
DeleteOf(t)  == [op |-> "delete", task |-> t]
FindTask(t, i) == [op |-> "find", task |-> t, fail |-> i]

\* Two tasks create a third that deletes itself, with memory for one and a half.
OwnEndApps ==
  {[ServiceApp(<<A, C>>, A :> 2 @@ C :> 1,
               Programs(<<Create(p, 2), Sleep(2)>>, <<Sleep(1), DeleteOf(B)>>,
                        <<Create(1, 2), FindTask(B, 3), Sleep(1)>>), {}, 4, 0)
     EXCEPT !.memory = 3] : p \in {1, 3}}

\* One that is deleted by another, while it waits for a queue or is ready.
OtherEndApps ==
  {[ServiceApp(<<A, C>>, A :> 2 @@ C :> 1,
               Programs(<<Create(p, 4), Sleep(1), DeleteOf(B), Sleep(1)>>,
                        <<ReceiveFrom(Q1, 2), Sleep(1)>>,
                        <<Sleep(1), SendTo(Q1, 1)>>), {}, 4, 0)
     EXCEPT !.memory = 2] : p \in {1, 3}}

-----------------------------------------------------------------------------
NotifyTake(clear, n) == [op |-> "notify take", clear |-> clear, ticks |-> n, fail |-> 1]
NotifyWait(entry, exit, n) ==
  [op |-> "notify wait", entry |-> entry, exit |-> exit, ticks |-> n, fail |-> 1]
NotifyTask(t, action, value) ==
  [op |-> "notify", task |-> t, action |-> action, value |-> value]
ClearState(t) == [op |-> "clear state", task |-> t]
ClearValue(t, mask) == [op |-> "clear value", task |-> t, value |-> mask]

\* A counts what another task and a handler give, while C suspends the scheduler.
GiveApps ==
  {ServiceApp(<<A, B, C>>, Prios(3, 2, 1),
              Programs(<<NotifyTake(clear, 2)>>,
                       <<NotifyTask(A, "increment", 0), ReceiveFrom(Q1, 1)>>,
                       <<AbortOf(B), NotifyTake(TRUE, 0)>>),
              {NotifyTask(A, "increment", 0),
               [op |-> "send", queue |-> Q1, item |-> I, position |-> "back"]}, 2, 2) : clear \in BOOLEAN}

\* Values and bits, one notification after another.
ValueApps ==
  {ServiceApp(<<A, B, C>>, Prios(2, 2, 1),
              Programs(<<NotifyWait(1, 3, portMAX_DELAY), NotifyWait(0, 1, 2), Sleep(1)>>,
                       <<NotifyTask(A, action, 1), Sleep(1), ClearValue(A, 2)>>,
                       <<ClearState(A), AbortOf(A), NotifyTask(A, "overwrite", 3)>>),
              {NotifyTask(A, "set bits", 2)}, 2, 1) :
      action \in {"none", "set bits", "no overwrite"}}

-----------------------------------------------------------------------------
WaitBits(bits, clear, all, n) ==
  [op |-> "wait bits", group |-> E1, bits |-> bits, clear |-> clear, all |-> all,
   ticks |-> n, fail |-> 1]
SetOf(bits)   == [op |-> "set bits", group |-> E1, bits |-> bits]
ClearOf(bits) == [op |-> "clear bits", group |-> E1, bits |-> bits]
SyncOf(set, n) ==
  [op |-> "sync", group |-> E1, set |-> set, bits |-> EventBit, clear |-> TRUE,
   all |-> TRUE, ticks |-> n, fail |-> 1]
DeleteGroupCall == [op |-> "delete group", group |-> E1]

\* Two tasks wait, for one bit and for both, and a third sets and clears them.
BitApps ==
  {ServiceApp(<<A, B, C>>, Prios(n, 2, 1),
              Programs(<<WaitBits({1}, clear, FALSE, 2), ReceiveFrom(Q1, 1)>>,
                       <<WaitBits({1, 2}, TRUE, TRUE, n)>>,
                       <<SetOf({2}), SetOf({1}), Sleep(1), [WaitBits({1}, clear, TRUE, 0) EXCEPT !.fail = 5],
                         ClearOf({1})>>), {}, 3, 0) :
      <<clear, n>> \in {<<TRUE, 2>>, <<FALSE, 3>>}}

\* Two tasks meet, round after round; a third comes between.
MeetApps ==
  {ServiceApp(<<A, B, C>>, Prios(pa, 2, 1),
              Programs(<<SyncOf({1}, portMAX_DELAY), Sleep(1)>>,
                       <<Sleep(1), SyncOf({2}, portMAX_DELAY)>>,
                       <<Sleep(2), SyncOf({}, 1)>>), {}, 4, 0) : pa \in {1, 2}}

\* A group is deleted while a task waits in it, and one has only just timed out.
DeletedApps ==
  {ServiceApp(<<A, B, C>>, Prios(3, 2, 1),
              Programs(<<WaitBits({1}, TRUE, TRUE, n), SuspendTask(A)>>,
                       <<WaitBits({2}, TRUE, FALSE, 2), SuspendTask(B)>>,
                       <<Sleep(1), DeleteGroupCall, SuspendTask(C)>>), {}, 4, 0) :
      n \in {1, portMAX_DELAY}}

-----------------------------------------------------------------------------
Command(id, x, value) == [id |-> id, timer |-> x, value |-> value]
Tell(command, n) ==
  [op |-> "command", queue |-> TQ, item |-> command, position |-> "back", ticks |-> n, fail |-> 1]
ChangeTo(x, period) ==
  [op |-> "send", queue |-> TQ, item |-> Command("change period", x, period),
   position |-> "back", ticks |-> 0, fail |-> 1]
DeleteTimer(x) ==
  [op |-> "send", queue |-> TQ, item |-> Command("delete", x, 0),
   position |-> "back", ticks |-> 0, fail |-> 1]
GetTick == [op |-> "get tick"]
SetReload(x, reload) == [op |-> "reload mode", timer |-> x, reload |-> reload]
DaemonCalls == <<[op |-> "daemon", queue |-> TQ, ticks |-> 0]>>

TimerApp(calls, prios, periods, handlers, first, ticks, irq) ==
  [ServiceApp(<<A>> \o (IF C \in DOMAIN calls THEN <<B, C>> ELSE <<B>>),
              A :> 3 @@ prios, A :> DaemonCalls @@ calls, handlers, ticks, irq)
     EXCEPT !.firstTick = first, !.timers = periods,
            !.queues = [q \in Queue |-> A_queue(2)]]

\* Timers of two periods, started late, across the wrap of the tick count.
PeriodicTimerApps ==
  {TimerApp(B :> <<GetTick, Tell(Command("start", X, 0), 0), Sleep(2),
                   GetTick, Tell(Command("start", Y, 0), 0), Sleep(3)>>,
            B :> p, X :> xTimerCreate(2, TRUE) @@ Y :> xTimerCreate(3, p = 2),
            {}, TickMod - 3, TickMod + 2, 0) : p \in {2, 3}}

\* Timers that are stopped, changed and deleted; a handler restarts one.
ChangedTimerApps ==
  {TimerApp(B :> <<GetTick, Tell(Command("start", X, 0), 1), ChangeTo(Y, 2),
                   SetReload(Y, TRUE), Sleep(1), ChangeTo(X, 3), Tell(Command("stop", Y, 0), 1),
                   Sleep(2), DeleteTimer(Y), SuspendTask(B)>>,
            B :> 1, X :> xTimerCreate(1, TRUE) @@ Y :> xTimerCreate(4, FALSE),
            {[op |-> "command", queue |-> TQ, item |-> Command("start", X, 0)]},
            TickMod - 2, TickMod + 1, 1)}

\* A handler sets bits through the daemon, which is kept from running for a while.
DeferredApps ==
  {TimerApp(B :> <<WaitBits({1}, TRUE, TRUE, 3)>> @@
            C :> <<AbortOf(B), GetTick, Tell(Command("start", X, 0), 0), Sleep(1)>>,
            B :> 2 @@ C :> 1, X :> xTimerCreate(2, FALSE) @@ Y :> xTimerCreate(3, TRUE),
            {[op |-> "command", queue |-> TQ,
              item |-> [id |-> "call", group |-> E1, bits |-> {1}, value |-> 0]]},
            TickMod - 1, TickMod + 1, 1)}

-----------------------------------------------------------------------------
StreamSend(data, n) ==
  [op |-> "stream send", stream |-> SB, data |-> data, ticks |-> n, fail |-> 1]
StreamReceive(max, n) ==
  [op |-> "stream receive", stream |-> SB, max |-> max, ticks |-> n, fail |-> 1]
AskOf(op) == [op |-> op, stream |-> SB, fail |-> 1]
ResetStream == [op |-> "stream reset", stream |-> SB, fail |-> 1]
SetTrigger(n) == [op |-> "set trigger", stream |-> SB, level |-> n, fail |-> 1]

StreamApp(calls, prios, create, handlers, ticks, irq) ==
  [ServiceApp(<<A, B>>, prios, calls, handlers, ticks, irq) EXCEPT !.streams = SB :> create]

\* A stream of three bytes between two tasks, with either the more urgent.
ByteApps ==
  {StreamApp(A :> <<StreamReceive(2, 2), Sleep(last)>> @@
             B :> <<StreamSend(<<1, 2>>, 2), Sleep(1), StreamSend(<<3, 4, 5>>, 1)>>,
             A :> pa @@ B :> 2, xStreamBufferGenericCreate(3, trigger, FALSE),
             {}, 3, 0) : pa \in {1, 3}, trigger \in {0, 2}, last \in {0, 1}}

\* One byte does not wake the reader, and leaves no room for three: both sleep, for
\* ever or until the writer gives up waiting.
BothSleepApps ==
  {StreamApp(A :> <<StreamReceive(2, portMAX_DELAY), Sleep(1)>> @@
             B :> <<StreamSend(<<1>>, 0), StreamSend(<<2, 3, 4>>, n)>>,
             A :> 3 @@ B :> 2, xStreamBufferGenericCreate(3, 2, FALSE),
             {}, 3, 0) : n \in {2, portMAX_DELAY}}

\* One side is a handler.
FromHandlerApps ==
  {StreamApp(A :> <<StreamReceive(3, portMAX_DELAY), ResetStream, SetTrigger(2)>> @@
             B :> <<Sleep(1), AbortOf(A)>>,
             A :> 3 @@ B :> 2, xStreamBufferGenericCreate(3, 1, FALSE),
             {[op |-> "stream send", stream |-> SB, data |-> data],
              [op |-> "send completed", stream |-> SB]}, 2, 3) :
      data \in {<<1>>, <<1, 2>>}}
ToHandlerApps ==
  {StreamApp(A :> <<StreamSend(<<1, 2>>, 2), AskOf("is full")>> @@ B :> <<Sleep(1), AbortOf(A)>>,
             A :> 3 @@ B :> 2, xStreamBufferGenericCreate(3, 1, FALSE),
             {[op |-> "stream receive", stream |-> SB, max |-> 1],
              [op |-> "receive completed", stream |-> SB]}, 2, 2)}

\* Messages, some too long for the reader or for the buffer.
MessageApps ==
  {StreamApp(A :> <<StreamReceive(max, 2), AskOf("next length"), AskOf("is empty")>> @@
             B :> <<StreamSend(<<1, 2>>, 2), [StreamSend(<<3>>, 1) EXCEPT !.fail = 3],
                    StreamSend(<<1, 2, 3, 4, 5>>, 2)>>,
             A :> pa @@ B :> 2, xStreamBufferGenericCreate(4, 0, TRUE),
             {}, 3, 0) : pa \in {1, 3}, max \in {2, 1}}

\* A writer that empties the buffer, unless its reader waits.
EmptiedApps ==
  {StreamApp(A :> <<StreamReceive(2, 2), Sleep(1)>> @@
             B :> <<Otherwise(ResetStream, 2), StreamSend(<<1>>, 0), Otherwise(SetTrigger(n), 1)>>,
             A :> 3 @@ B :> 2, xStreamBufferGenericCreate(3, 1, FALSE), {}, 3, 0) : n \in {0, 4}}

\* All of them, one application to a behaviour.
ServiceApps ==
  UNION {OwnEndApps, OtherEndApps, GiveApps, ValueApps, BitApps, MeetApps, DeletedApps,
         PeriodicTimerApps, ChangedTimerApps, DeferredApps,
         ByteApps, BothSleepApps, FromHandlerApps, ToHandlerApps, MessageApps,
         EmptiedApps}
=============================================================================
