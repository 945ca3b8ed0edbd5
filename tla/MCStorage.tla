----------------------------- MODULE MCStorage -----------------------------
(***************************************************************************)
(* The storage of a queue of up to four items, the heaps, and co-routines: *)
(* a behaviour is of one of them.  Heap addresses and sizes are even, a    *)
(* header has two bytes, and size_t counts modulo 64.  Two co-routines of  *)
(* the high priority receive what one of the low priority and the handlers *)
(* send; TickType_t counts modulo 3.                                       *)
(***************************************************************************)
EXTENDS QueueStorage, TLC

Region(start, size) == [start |-> start, size |-> size]

\* Unaligned starts and odd sizes; two regions that touch, two that do not.
MCLayouts ==
  {[scheme |-> "heap_1", regions |-> <<Region(1, 18)>>],
   [scheme |-> "heap_2", regions |-> <<Region(1, 26)>>],
   [scheme |-> "heap_4", regions |-> <<Region(1, 31)>>],
   [scheme |-> "heap_5", regions |-> <<Region(2, 14), Region(16, 15)>>],
   [scheme |-> "heap_5", regions |-> <<Region(1, 11), Region(15, 9), Region(26, 12)>>]}

\* Nothing, a byte, sizes that fill a heap or almost do, one with the bit of
\* the allocated blocks, and one whose sum with the header overflows.
MCRequests == {0, 1, 3, 6, 8, 26, 33, 63}

CONSTANTS Requests, Align, Struct, SizeMod

ASSUME HeapAssumption ==
  /\ Align \in Nat \ {0} /\ Struct % Align = 0 /\ SizeMod % Align = 0
  /\ \A l \in MCLayouts : \A i \in DOMAIN l.regions :
       l.regions[i].start + l.regions[i].size < SizeMod

CONSTANTS worker, idler, sender, NoCoRoutine

MCCoRoutines == {worker, idler, sender}
MCPriorities == (worker :> 1) @@ (idler :> 1) @@ (sender :> 0)
MCCalls == (worker :> {"receive"}) @@ (idler :> {"receive"}) @@ (sender :> {"send", "delay"})

VARIABLES
  kind,    \* what the behaviour is of: "queue", "heap" or "co-routines"
  layout, ready, free, used, remaining, minimum, refused, stats

heapVars == <<layout, ready, free, used, remaining, minimum, refused, stats>>

Heap == INSTANCE BlockHeap WITH Layouts <- MCLayouts

VARIABLES
  pxReadyCoRoutineLists, pxDelayedCoRoutineList, pxOverflowDelayedCoRoutineList,
  uxTopCoRoutineReadyPriority, pxCurrentCoRoutine,
  xTickCount, xCoRoutineTickCount, xLastTickCount, xPassedTicks,
  value, uxState, q, pc, pxCRCB, ticksLeft, unserved

coRoutineVars ==
  <<pxReadyCoRoutineLists, pxDelayedCoRoutineList, pxOverflowDelayedCoRoutineList,
    uxTopCoRoutineReadyPriority, pxCurrentCoRoutine,
    xTickCount, xCoRoutineTickCount, xLastTickCount, xPassedTicks,
    value, uxState, q, pc, pxCRCB, ticksLeft, unserved>>

CR == INSTANCE CoRoutines WITH
  CoRoutine <- MCCoRoutines, uxPriority <- MCPriorities, Calls <- MCCalls,
  uxLength <- 2, TickMod <- 3, Late <- 2

MCInit ==
  /\ Init /\ Heap!Init /\ CR!Init
  /\ kind \in {"queue", "heap", "co-routines"}
  /\ kind # "queue" => length = 1
  /\ kind # "heap" => layout.scheme = "heap_4"

QueueStep == kind = "queue" /\ Next /\ UNCHANGED <<kind, heapVars, coRoutineVars>>
HeapStep  == kind = "heap" /\ Heap!Next /\ UNCHANGED <<kind, vars, coRoutineVars>>
CoRoutineStep == kind = "co-routines" /\ CR!Next /\ UNCHANGED <<kind, vars, heapVars>>

MCNext == QueueStep \/ HeapStep \/ CoRoutineStep

MCSpec == MCInit /\ [][MCNext]_<<vars, kind, heapVars, coRoutineVars>>

-----------------------------------------------------------------------------
(***************************************************************************)
(* Any sequence of allocations and frees leaves blocks that tile the heap, *)
(* a free list in order with no two neighbours apart, and an exact count   *)
(* of the free bytes; a heap of which all was freed is whole again.        *)
(***************************************************************************)
HeapSound == kind = "heap" => Heap!HeapSound

(***************************************************************************)
(* pvPortMalloc gives all that was asked for, or nothing because no block  *)
(* would do; vPortGetHeapStats describes the heap it was called on.        *)
(***************************************************************************)
HeapServes == kind = "heap" => Heap!HeapServes

(***************************************************************************)
(* The walk of vPortGetHeapStats ends at the end marker (heap_4.c:484).    *)
(***************************************************************************)
StatsWalkEnds == kind = "heap" => Heap!StatsWalkEnds

(***************************************************************************)
(* A co-routine is in one list of croutine.c, whether the scheduler or a   *)
(* handler put it there, and the most urgent ready one runs.               *)
(***************************************************************************)
CoRoutinesSound == kind = "co-routines" => CR!CoRoutinesSound

(***************************************************************************)
(* No co-routine sleeps past its delay, or next to an item or a slot it    *)
(* waits for.                                                              *)
(***************************************************************************)
CoRoutinesServed == kind = "co-routines" => CR!CoRoutinesServed
=============================================================================
