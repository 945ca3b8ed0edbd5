---------------------------- MODULE QueueStorage ----------------------------
(***************************************************************************)
(* The storage of a queue (queue.c): uxLength cells between pcHead and     *)
(* pcTail, which the two pointers walk round.  pcWriteTo is the cell the   *)
(* next item sent to the back goes to; pcReadFrom is the cell last read,   *)
(* which an item sent to the front takes.  Cells are numbered from pcHead; *)
(* every action is inside one critical section.                            *)
(***************************************************************************)
EXTENDS Sequences, Integers

CONSTANTS
  Item,
  Nothing,    \* what a cell holds before it is written
  MaxLength

ASSUME StorageAssumption ==
  /\ Nothing \notin Item
  /\ MaxLength \in Nat \ {0}

VARIABLES
  length,             \* uxLength
  cells,
  pcWriteTo,
  pcReadFrom,
  uxMessagesWaiting,
  got                 \* the item last copied to a caller

vars == <<length, cells, pcWriteTo, pcReadFrom, uxMessagesWaiting, got>>

\* += uxItemSize, and back to pcHead at pcTail.
After(p) == IF p + 1 >= length THEN 0 ELSE p + 1

\* slip: the wrap is one cell late
BeforeLate(p) == IF p = 0 THEN 0 ELSE p - 1

\* -= uxItemSize, and up to the last cell below pcHead.
Before(p) == IF p - 1 < 0 THEN length - 1 ELSE p - 1

Write(p, x) == cells' = [cells EXCEPT ![p] = x]

\* xQueueGenericReset on a new queue, whose cells hold what the memory held.
Init ==
  /\ length \in 1..MaxLength
  /\ cells = [p \in 0..(length - 1) |-> Nothing]
  /\ pcWriteTo = 0
  /\ pcReadFrom = length - 1
  /\ uxMessagesWaiting = 0
  /\ got = Nothing

\* prvCopyDataToQueue with queueSEND_TO_BACK.
SendToBack(x) ==
  /\ uxMessagesWaiting < length
  /\ Write(pcWriteTo, x)
  /\ pcWriteTo' = After(pcWriteTo)
  /\ uxMessagesWaiting' = uxMessagesWaiting + 1
  /\ UNCHANGED <<length, pcReadFrom, got>>

\* The same with queueSEND_TO_FRONT.
SendToFront(x) ==
  /\ uxMessagesWaiting < length
  /\ Write(pcReadFrom, x)
  /\ pcReadFrom' = Before(pcReadFrom)
  /\ uxMessagesWaiting' = uxMessagesWaiting + 1
  /\ UNCHANGED <<length, pcWriteTo, got>>

\* The same with queueOVERWRITE, which is for queues of one item: the item that
\* was there is no longer counted.
Overwrite(x) ==
  /\ length = 1
  /\ Write(pcReadFrom, x)
  /\ pcReadFrom' = Before(pcReadFrom)
  /\ uxMessagesWaiting' = (IF uxMessagesWaiting > 0 THEN uxMessagesWaiting - 1
                           ELSE uxMessagesWaiting) + 1
  /\ UNCHANGED <<length, pcWriteTo, got>>

\* prvCopyDataFromQueue, for xQueueReceive and xQueueReceiveFromISR.
Receive ==
  /\ uxMessagesWaiting > 0
  /\ pcReadFrom' = After(pcReadFrom)
  /\ got' = cells[pcReadFrom']
  /\ uxMessagesWaiting' = uxMessagesWaiting - 1
  /\ UNCHANGED <<length, cells, pcWriteTo>>

\* slip: the pointer is not put back
PeekOn ==
  /\ uxMessagesWaiting > 0
  /\ pcReadFrom' = After(pcReadFrom)
  /\ got' = cells[pcReadFrom']
  /\ UNCHANGED <<length, cells, pcWriteTo, uxMessagesWaiting>>

\* xQueuePeek and xQueuePeekFromISR put the pointer back.
Peek ==
  /\ uxMessagesWaiting > 0
  /\ got' = cells[After(pcReadFrom)]
  /\ UNCHANGED <<length, cells, pcWriteTo, pcReadFrom, uxMessagesWaiting>>

\* xQueueGenericReset.
Clear ==
  /\ uxMessagesWaiting' = 0
  /\ pcWriteTo' = 0
  /\ pcReadFrom' = length - 1
  /\ UNCHANGED <<length, cells, got>>

Next ==
  \/ \E x \in Item : SendToBack(x) \/ SendToFront(x) \/ Overwrite(x)
  \/ Receive \/ Peek \/ Clear

Spec == Init /\ [][Next]_vars

-----------------------------------------------------------------------------
TypeOK ==
  /\ length \in 1..MaxLength
  /\ cells \in [0..(length - 1) -> Item \cup {Nothing}]
  /\ pcWriteTo \in 0..(length - 1)
  /\ pcReadFrom \in 0..(length - 1)
  /\ uxMessagesWaiting \in 0..length
  /\ got \in Item \cup {Nothing}

\* The cell of the i-th item, counted from the one after pcReadFrom.
CellOf(i) ==
  IF pcReadFrom + i >= length THEN pcReadFrom + i - length ELSE pcReadFrom + i

(***************************************************************************)
(* The items fill the cells from the one after pcReadFrom to the one       *)
(* before pcWriteTo: pcWriteTo is never in the middle of the items, and an *)
(* item sent never lands on one that waits.                                *)
(***************************************************************************)
PointersMeet ==
  /\ pcWriteTo = CellOf(IF uxMessagesWaiting = length THEN 1 ELSE uxMessagesWaiting + 1)
  /\ \A i \in 1..uxMessagesWaiting : cells[CellOf(i)] \in Item

(***************************************************************************)
(* However its two ends wrap, the storage hands out the items of a         *)
(* sequence: sent to the back, sent to the front, overwritten, peeked at   *)
(* and cleared as queue.h says.                                            *)
(***************************************************************************)
Promised == INSTANCE ItemQueue WITH
  items <- [i \in 1..uxMessagesWaiting |-> cells[CellOf(i)]]

ImplementsItemQueue == Promised!Spec

(***************************************************************************)
(* The ring stays a ring: the two pointers are as far apart as there are   *)
(* items, whichever way each call moved them (queue.c:2205-2289).          *)
(***************************************************************************)
RingSound == TypeOK /\ PointersMeet
=============================================================================
