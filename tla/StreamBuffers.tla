--------------------------- MODULE StreamBuffers ----------------------------
(***************************************************************************)
(* Stream and message buffers (stream_buffer.c): a ring of bytes between   *)
(* one writer and one reader, tasks or handlers, without a lock.           *)
(*                                                                         *)
(* The writer alone moves the head, the reader alone the tail, each after  *)
(* it has copied the bytes.  Who finds too little registers itself in the  *)
(* buffer and waits for a notification, which the other sends to whom it   *)
(* finds there after it has moved its index.  A message is kept behind     *)
(* HeaderBytes bytes that hold its length.                                 *)
(***************************************************************************)
EXTENDS Notifications

CONSTANTS
  Stream,       \* the stream and message buffers
  HeaderBytes   \* sbBYTES_TO_STORE_MESSAGE_LENGTH

VARIABLES
  stream,    \* the buffers; sent, for the properties, is what a reader should find
  local      \* of each task: xSpace or xBytesAvailable, the bytes it copies, and
             \* xNextHead or xNextTail

\* prvInitialiseNewStreamBuffer; one byte of the ring is never used.
prvInitialiseNewStreamBuffer(cells, length, trigger, message) ==
  [cells |-> cells, length |-> length, head |-> 0, tail |-> 0, trigger |-> trigger,
   message |-> message, reader |-> NoTask, writer |-> NoTask, sent |-> <<>>]

xStreamBufferGenericCreate(size, trigger, message) ==
  prvInitialiseNewStreamBuffer([i \in 0..size |-> 0], size + 1,
                               IF trigger = 0 THEN 1 ELSE trigger, message)

NoLocals == [n |-> 0, data |-> <<>>, next |-> 0]

S(t) == stream[Call(t).stream]
Header(s) == IF s.message THEN HeaderBytes ELSE 0

prvBytesInBuffer(s) == (s.length + s.head - s.tail) % s.length
xStreamBufferSpacesAvailable(s) == (s.length + s.tail - s.head - 1) % s.length

\* slip: the bytes behind the end of the ring are not copied
WriteFirstPart(s, data, head) ==
  [i \in DOMAIN s.cells |->
     IF i >= head /\ i - head < Len(data) THEN data[i - head + 1] ELSE s.cells[i]]

prvWriteBytesToBuffer(s, data, head) ==
  [i \in DOMAIN s.cells |->
     LET offset == (i - head) % s.length
     IN IF offset < Len(data) THEN data[offset + 1] ELSE s.cells[i]]

prvReadBytesFromBuffer(s, count, tail) ==
  [i \in 1..count |-> s.cells[(tail + i - 1) % s.length]]

\* A message with its length before it.
Framed(s, data) == [i \in 1..Header(s) |-> Len(data)] \o data

\* What is sent of data when there is space: a message goes as a whole.
prvWriteMessageToBuffer(s, data, space) ==
  IF s.message
  THEN IF space >= HeaderBytes + Len(data) THEN data ELSE <<>>
  ELSE SubSeq(data, 1, Min({Len(data), space}))

\* How much of what is available is taken; a message longer than the caller's
\* buffer stays.
prvReadMessageFromBuffer(s, max, available) ==
  LET length == IF s.message THEN s.cells[s.tail] ELSE max
  IN Min({IF length > max THEN 0 ELSE length, available - Header(s)})

Advance(s, index, count) ==
  IF index + count >= s.length THEN index + count - s.length ELSE index + count

NextHead(s, data)  == Advance(s, s.head, Header(s) + Len(data))
NextTail(s, count) == Advance(s, s.tail, Header(s) + count)

Publish(s, data, head) ==
  [s EXCEPT !.head = head,
            !.sent = @ \o (IF s.message THEN <<data>> ELSE [i \in DOMAIN data |-> <<data[i]>>])]

Release(s, count, tail) ==
  [s EXCEPT !.tail = tail,
            !.sent = SubSeq(@, IF s.message THEN 2 ELSE count + 1, Len(@))]

\* slip: the bytes that make the level up are not enough
AboveTrigger(s) == prvBytesInBuffer(s) > s.trigger
TriggerReached(s) == prvBytesInBuffer(s) >= s.trigger

-----------------------------------------------------------------------------
(***************************************************************************)
(* xStreamBufferSend.                                                      *)
(***************************************************************************)
StreamUnchanged == UNCHANGED <<app, queue, irqs>>

MaxReportedSpace(s) == s.length - 1

\* xRequiredSpace: a stream takes as much as there is ever room for.
RequiredSpace(s, data) ==
  IF s.message THEN HeaderBytes + Len(data) ELSE Min({Len(data), MaxReportedSpace(s)})

\* A message that never fits is not waited for.
BeginSend(t) ==
  /\ Running(t, {"stream send"}, "start")
  /\ local' = [local EXCEPT ![t] = NoLocals]
  /\ IF Call(t).ticks = 0 \/ RequiredSpace(S(t), Call(t).data) > MaxReportedSpace(S(t))
     THEN Goto(t, "write")
     ELSE thread' = [thread EXCEPT
                       ![t].pc = "space", ![t].timed = TRUE,
                       ![t].wait = vTaskInternalSetTimeOutState(k, Call(t).ticks)]
  /\ UNCHANGED <<k, stream>> /\ StreamUnchanged /\ RecordDue

\* The critical section: enough space, or the task is registered.
FindSpace(t) ==
  /\ Running(t, {"stream send"}, "space")
  /\ LET space == xStreamBufferSpacesAvailable(S(t))
     IN /\ local' = [local EXCEPT ![t].n = space]
        /\ IF space >= RequiredSpace(S(t), Call(t).data)
           THEN Goto(t, "write") /\ UNCHANGED <<k, stream>>
           ELSE /\ k' = xTaskGenericNotifyStateClear(k, t)
                /\ stream' = [stream EXCEPT ![Call(t).stream].writer = t]
                /\ Goto(t, "wait")
  /\ StreamUnchanged /\ RecordDue

\* xTaskNotifyWait, with the ticks that are left; then the task is no longer
\* registered.
WaitForOther(t) ==
  /\ \/ /\ Running(t, {"stream send", "stream receive"}, "wait")
        /\ k' = EnterNotifyWait(k, [op |-> "notify wait", entry |-> 0, exit |-> 0],
                                IF thread[t].timed THEN thread[t].wait.left ELSE Call(t).ticks)
        /\ Goto(t, "notified")
     \/ /\ Running(t, {"stream send", "stream receive"}, "notified")
        /\ k' = [k EXCEPT !.note[t] = NoteOnExit([op |-> "notify wait", exit |-> 0], @)]
        /\ Goto(t, "woken")
  /\ UNCHANGED <<stream, local>> /\ StreamUnchanged /\ RecordDue

Unregister(t) ==
  /\ Running(t, {"stream send", "stream receive"}, "woken")
  /\ IF Call(t).op = "stream send"
     THEN stream' = [stream EXCEPT ![Call(t).stream].writer = NoTask] /\ Goto(t, "timeout")
     ELSE stream' = [stream EXCEPT ![Call(t).stream].reader = NoTask] /\ Goto(t, "available")
  /\ UNCHANGED <<k, local>> /\ StreamUnchanged /\ RecordDue

SendTimeOut(t) ==
  /\ Running(t, {"stream send"}, "timeout")
  /\ LET checked == xTaskCheckForTimeOut(k, thread[t].wait)
     IN /\ k' = checked.k
        /\ thread' = [thread EXCEPT ![t].wait = checked.wait,
                                    ![t].pc = IF checked.yes THEN "write" ELSE "space"]
  /\ UNCHANGED <<stream, local>> /\ StreamUnchanged /\ RecordDue

\* The space is that of the last look unless that was none.
WriteBytes(t) ==
  /\ Running(t, {"stream send"}, "write")
  /\ LET space == IF local[t].n = 0 THEN xStreamBufferSpacesAvailable(S(t)) ELSE local[t].n
         data  == prvWriteMessageToBuffer(S(t), Call(t).data, space)
     IN IF data = <<>> THEN Fail(t) /\ UNCHANGED <<stream, local>>
        ELSE /\ stream' = [stream EXCEPT ![Call(t).stream].cells =
                             prvWriteBytesToBuffer(S(t), Framed(S(t), data), S(t).head)]
             /\ local' = [local EXCEPT ![t].data = data, ![t].next = NextHead(S(t), data)]
             /\ Goto(t, "publish")
  /\ UNCHANGED k /\ StreamUnchanged /\ RecordDue

PublishHead(t) ==
  /\ Running(t, {"stream send"}, "publish")
  /\ stream' = [stream EXCEPT ![Call(t).stream] = Publish(@, local[t].data, local[t].next)]
  /\ Goto(t, "published")
  /\ UNCHANGED <<k, local>> /\ StreamUnchanged /\ RecordDue

\* sbSEND_COMPLETED, sbRECEIVE_COMPLETED: the other is looked for with the
\* scheduler suspended.
SendCompleted(t) ==
  /\ Running(t, {"stream send"}, "published")
  /\ IF TriggerReached(S(t)) THEN k' = vTaskSuspendAll(k) /\ Goto(t, "notify")
     ELSE Return(t) /\ UNCHANGED k
  /\ UNCHANGED <<stream, local>> /\ StreamUnchanged /\ RecordDue

\* The other side of the call.
NotifyOther(t) ==
  /\ Running(t, {"stream send", "stream receive"}, "notify")
  /\ LET other == IF Call(t).op = "stream send" THEN S(t).reader ELSE S(t).writer
     IN k' = IF other = NoTask THEN k ELSE xTaskGenericNotify(k, other, "none", 0)
  /\ stream' = IF Call(t).op = "stream send"
               THEN [stream EXCEPT ![Call(t).stream].reader = NoTask]
               ELSE [stream EXCEPT ![Call(t).stream].writer = NoTask]
  /\ Goto(t, "resume")
  /\ UNCHANGED local /\ StreamUnchanged /\ RecordDue

StreamResume(t) ==
  /\ Running(t, {"stream send", "stream receive"}, "resume")
  /\ k' = xTaskResumeAll(k).k
  /\ Return(t)
  /\ UNCHANGED <<stream, local>> /\ StreamUnchanged /\ RecordDue

-----------------------------------------------------------------------------
(***************************************************************************)
(* xStreamBufferReceive.                                                   *)
(***************************************************************************)
\* With time to wait, the first look is a critical section, as for a sender.
BeginReceive(t) ==
  /\ Running(t, {"stream receive"}, "start")
  /\ LET available == prvBytesInBuffer(S(t))
     IN /\ local' = [local EXCEPT ![t] = [NoLocals EXCEPT !.n = available]]
        /\ IF Call(t).ticks > 0 /\ available <= Header(S(t))
           THEN /\ k' = xTaskGenericNotifyStateClear(k, t)
                /\ stream' = [stream EXCEPT ![Call(t).stream].reader = t]
                /\ Goto(t, "wait")
           ELSE Goto(t, "read") /\ UNCHANGED <<k, stream>>
  /\ StreamUnchanged /\ RecordDue

LookAgain(t) ==
  /\ Running(t, {"stream receive"}, "available")
  /\ local' = [local EXCEPT ![t].n = prvBytesInBuffer(S(t))]
  /\ Goto(t, "read")
  /\ UNCHANGED <<k, stream>> /\ StreamUnchanged /\ RecordDue

ReadBytes(t) ==
  /\ Running(t, {"stream receive"}, "read")
  /\ LET count == IF local[t].n <= Header(S(t)) THEN 0
                  ELSE prvReadMessageFromBuffer(S(t), Call(t).max, local[t].n)
     IN IF count = 0 THEN Fail(t) /\ UNCHANGED local
        ELSE /\ local' = [local EXCEPT
                            ![t].data = prvReadBytesFromBuffer(
                                          S(t), count, Advance(S(t), S(t).tail, Header(S(t)))),
                            ![t].next = NextTail(S(t), count)]
             /\ Goto(t, "release")
  /\ UNCHANGED <<k, stream>> /\ StreamUnchanged /\ RecordDue

ReleaseTail(t) ==
  /\ Running(t, {"stream receive"}, "release")
  /\ stream' = [stream EXCEPT ![Call(t).stream] = Release(@, Len(local[t].data), local[t].next)]
  /\ Goto(t, "released")
  /\ UNCHANGED <<k, local>> /\ StreamUnchanged /\ RecordDue

ReceiveCompleted(t) ==
  /\ Running(t, {"stream receive"}, "released")
  /\ k' = vTaskSuspendAll(k)
  /\ Goto(t, "notify")
  /\ UNCHANGED <<stream, local>> /\ StreamUnchanged /\ RecordDue

-----------------------------------------------------------------------------
(***************************************************************************)
(* The short calls, and the handlers.                                      *)
(***************************************************************************)
\* xStreamBufferReset gives up if a task is registered; the cells are written
\* over, which no one can see.
xStreamBufferReset(t) ==
  /\ Running(t, {"stream reset"}, "start")
  /\ IF S(t).reader = NoTask /\ S(t).writer = NoTask
     THEN /\ stream' = [stream EXCEPT
                          ![Call(t).stream] =
                             prvInitialiseNewStreamBuffer(@.cells, @.length, @.trigger, @.message)]
          /\ Return(t)
     ELSE Fail(t) /\ UNCHANGED stream
  /\ UNCHANGED <<k, local>> /\ StreamUnchanged /\ RecordDue

xStreamBufferSetTriggerLevel(t) ==
  /\ Running(t, {"set trigger"}, "start")
  /\ LET level == IF Call(t).level = 0 THEN 1 ELSE Call(t).level
     IN IF level < S(t).length
        THEN stream' = [stream EXCEPT ![Call(t).stream].trigger = level] /\ Return(t)
        ELSE Fail(t) /\ UNCHANGED stream
  /\ UNCHANGED <<k, local>> /\ StreamUnchanged /\ RecordDue

xStreamBufferNextMessageLengthBytes(s) ==
  IF s.message /\ prvBytesInBuffer(s) > HeaderBytes THEN s.cells[s.tail] ELSE 0

\* A task asks, and its program goes on accordingly.
Ask(t) ==
  /\ Running(t, {"is empty", "is full", "next length"}, "start")
  /\ IF CASE Call(t).op = "is empty" -> S(t).head = S(t).tail
          [] Call(t).op = "is full" -> xStreamBufferSpacesAvailable(S(t)) <= Header(S(t))
          [] Call(t).op = "next length" -> xStreamBufferNextMessageLengthBytes(S(t)) > 0
     THEN Return(t) ELSE Fail(t)
  /\ UNCHANGED <<k, stream, local>> /\ StreamUnchanged /\ RecordDue

NotifyFromISR(state, t) ==
  IF t = NoTask THEN state ELSE xTaskGenericNotifyFromISR(state, t, "none", 0)

\* sbSEND_COMPLETE_FROM_ISR, sbRECEIVE_COMPLETED_FROM_ISR.
SendCompleteFromISR(s, id) ==
  k' = NotifyFromISR(k, s.reader) /\ stream' = [stream EXCEPT ![id] = [s EXCEPT !.reader = NoTask]]
ReceiveCompletedFromISR(s, id) ==
  k' = NotifyFromISR(k, s.writer) /\ stream' = [stream EXCEPT ![id] = [s EXCEPT !.writer = NoTask]]

xStreamBufferSendFromISR(h) ==
  LET s    == stream[h.stream]
      data == prvWriteMessageToBuffer(s, h.data, xStreamBufferSpacesAvailable(s))
      sent == Publish([s EXCEPT !.cells = prvWriteBytesToBuffer(s, Framed(s, data), s.head)],
                      data, NextHead(s, data))
  IN CASE data = <<>> -> UNCHANGED <<k, stream>>
       [] data # <<>> /\ TriggerReached(sent) -> SendCompleteFromISR(sent, h.stream)
       [] data # <<>> /\ ~TriggerReached(sent) ->
            stream' = [stream EXCEPT ![h.stream] = sent] /\ UNCHANGED k

xStreamBufferReceiveFromISR(h) ==
  LET s     == stream[h.stream]
      bytes == prvBytesInBuffer(s)
      count == IF bytes <= Header(s) THEN 0 ELSE prvReadMessageFromBuffer(s, h.max, bytes)
  IN IF count = 0 THEN UNCHANGED <<k, stream>>
     ELSE ReceiveCompletedFromISR(Release(s, count, NextTail(s, count)), h.stream)

StreamIrq ==
  /\ k.current # NoTask
  /\ irqs < app.maxIrqs
  /\ \E h \in app.handlers :
       \/ h.op = "stream send" /\ xStreamBufferSendFromISR(h)
       \/ h.op = "stream receive" /\ xStreamBufferReceiveFromISR(h)
       \/ h.op = "send completed" /\ SendCompleteFromISR(stream[h.stream], h.stream)
       \/ h.op = "receive completed" /\ ReceiveCompletedFromISR(stream[h.stream], h.stream)
  /\ irqs' = irqs + 1
  /\ UNCHANGED <<app, queue, thread, local>> /\ RecordDue

StreamStep(t) ==
  \/ BeginSend(t) \/ FindSpace(t) \/ WaitForOther(t) \/ Unregister(t) \/ SendTimeOut(t)
  \/ WriteBytes(t) \/ PublishHead(t) \/ SendCompleted(t) \/ NotifyOther(t) \/ StreamResume(t)
  \/ BeginReceive(t) \/ LookAgain(t) \/ ReadBytes(t) \/ ReleaseTail(t) \/ ReceiveCompleted(t)
  \/ xStreamBufferReset(t) \/ xStreamBufferSetTriggerLevel(t) \/ Ask(t)

-----------------------------------------------------------------------------
InStream(t, op) == app.calls[t] # <<>> /\ Call(t).op = op

\* What is in the ring is what has been sent and not yet received, in order, each
\* message behind its length; and what a reader has copied is the oldest of it,
\* whatever is written meanwhile.
StreamInOrder ==
  /\ \A id \in Stream :
       LET s == stream[id]
       IN prvReadBytesFromBuffer(s, prvBytesInBuffer(s), s.tail)
            = FlattenSeq([i \in DOMAIN s.sent |-> Framed(s, s.sent[i])])
  /\ \A t \in Task :
       InStream(t, "stream receive") /\ thread[t].pc = "release" =>
         IF S(t).message THEN local[t].data = S(t).sent[1]
         ELSE local[t].data = FlattenSeq(SubSeq(S(t).sent, 1, Len(local[t].data)))

Asleep(t) == thread[t].pc = "notified" /\ ~InReadyList(k, t) /\ ~Contains(k.pending, t)

\* Some task is past the point from which it goes on to notify the other side.
Notifying(id, op, pcs) ==
  \E t \in Task : InStream(t, op) /\ Call(t).stream = id /\ thread[t].pc \in pcs

\* No wakeup is lost, though bytes come and go without a lock: while a reader
\* sleeps the bytes are fewer than its level, while a writer sleeps there is too
\* little space for it, unless the other side is about to notify it.
NoLostStreamWakeup ==
  \A t \in Task :
    /\ InStream(t, "stream receive") /\ Asleep(t) =>
         prvBytesInBuffer(S(t)) < S(t).trigger
           \/ Notifying(Call(t).stream, "stream send", {"published", "notify"})
    /\ InStream(t, "stream send") /\ Asleep(t) =>
         xStreamBufferSpacesAvailable(S(t)) < RequiredSpace(S(t), Call(t).data)
           \/ Notifying(Call(t).stream, "stream receive", {"released", "notify"})

\* Only a task that waits for the buffer is registered there, and so no other is
\* sent a notification it did not ask for.
OnlyWaitersRegistered ==
  \A id \in Stream : \A t \in Task :
    /\ stream[id].reader = t =>
         /\ InStream(t, "stream receive") /\ Call(t).stream = id
         /\ thread[t].pc \in {"wait", "notified", "woken"}
    /\ stream[id].writer = t =>
         /\ InStream(t, "stream send") /\ Call(t).stream = id
         /\ thread[t].pc \in {"wait", "notified", "woken"}

\* Writer and reader sleep at once only over bytes that are fewer than the level of
\* the reader and yet leave too little space for the writer, who has been told of no
\* such level: never with a level of one, but with any other (stream_buffer.c:611,
\* 654), and for ever if neither has a time-out.
BothSleepBelowLevel ==
  \A reader, writer \in Task :
    /\ InStream(reader, "stream receive") /\ Asleep(reader)
    /\ InStream(writer, "stream send") /\ Asleep(writer)
    /\ Call(reader).stream = Call(writer).stream
    => prvBytesInBuffer(S(reader)) \in 1..S(reader).trigger - 1

(***************************************************************************)
(* No task sleeps though the buffer has what it waits for, whatever the    *)
(* other side does between its look and its sleep; the two sleep at once   *)
(* only over bytes below the trigger level; and the buffer remembers a     *)
(* task only while it waits.                                               *)
(***************************************************************************)
StreamWaiters == NoLostStreamWakeup /\ BothSleepBelowLevel /\ OnlyWaitersRegistered
=============================================================================
