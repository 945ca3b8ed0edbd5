----------------------------- MODULE BlockHeap -----------------------------
(***************************************************************************)
(* The heaps of the FreeRTOS port (MemMang): heap_1, which only ever       *)
(* grows, heap_2, which keeps its free blocks by size, heap_4, which keeps *)
(* them by address and joins neighbours, and heap_5, a heap_4 over several *)
(* regions.  A call works on the free list with the scheduler suspended    *)
(* and is one action.                                                      *)
(*                                                                         *)
(* The free list is the sequence of its blocks; pxEnd (xEnd), after the    *)
(* last one, is left out.  The free rest of heap_1 is its only block.      *)
(***************************************************************************)
EXTENDS SequencesExt, FiniteSetsExt, Integers

CONSTANTS
  Layouts,    \* the heaps: a scheme, and the regions of memory it manages
  Requests,   \* the sizes that are asked for
  Align,      \* portBYTE_ALIGNMENT
  Struct,     \* xHeapStructSize, a multiple of Align
  SizeMod     \* size_t counts modulo this, and more than twice any heap

VARIABLES
  layout,
  ready,      \* the heap is initialised
  free,
  used,       \* the blocks that are allocated, and what was asked for
  remaining,  \* xFreeBytesRemaining
  minimum,    \* xMinimumEverFreeBytesRemaining, which heap_4 and heap_5 keep
  \* what the last call answered: the size it refused, and the statistics
  refused,
  stats

vars == <<layout, ready, free, used, remaining, minimum, refused, stats>>

None == -1

Scheme    == layout.scheme
Regions   == layout.regions
ByAddress == Scheme \in {"heap_4", "heap_5"}

Down(a) == (a \div Align) * Align
Up(a)   == Down(a + Align - 1)

FreeBytes(list) == FoldSeq(LAMBDA b, sum : b.size + sum, 0, list)

-----------------------------------------------------------------------------
\* Where the end marker of a region is, and what is free before it.
EndOf(r)  == Down(r.start + r.size - Struct)
Whole(r)  == [at |-> Up(r.start), size |-> EndOf(r) - Up(r.start)]
Marker(r) == [at |-> EndOf(r), size |-> 0]

\* prvHeapInit, and vPortDefineHeapRegions: the end markers of all regions but
\* the last are links of the list.
FreshList ==
  IF ByAddress
  THEN FlattenSeq([i \in DOMAIN Regions |->
         <<Whole(Regions[i])>> \o
         (IF i = Len(Regions) THEN <<>> ELSE <<Marker(Regions[i])>>)])
  ELSE <<[at |-> Up(Regions[1].start), size |-> Regions[1].size - Align]>>

\* The first call initialises the heap (heap_2 and heap_4), a call of its own
\* heap_5.
Current ==
  IF ready THEN [free |-> free, remaining |-> remaining, minimum |-> minimum]
  ELSE [free |-> FreshList, remaining |-> FreeBytes(FreshList),
        minimum |-> IF ByAddress THEN FreeBytes(FreshList) ELSE 0]

\* slip: the sums are not looked at
RoundedOpen(w) == IF w = 0 THEN 0 ELSE Up(w + Struct) % SizeMod

\* What a request takes with its header, 0 if it is none or a sum overflows.  A
\* block of heap_1 has no header.
RoundedBump(w) == IF Up(w) >= SizeMod THEN 0 ELSE Up(w)

\* heap_2 adds an alignment to what is aligned.
RoundedBySize(w) ==
  LET size == Down(w + Struct) + Align
  IN IF w = 0 \/ size >= SizeMod THEN 0 ELSE size

\* heap_4 and heap_5 need the top bit of a size for themselves, and no sum
\* overflows without it.
RoundedByAddress(w) == IF w \in 1..(SizeMod \div 2 - 1) THEN Up(w + Struct) ELSE 0

Rounded(w) ==
  CASE Scheme = "heap_1" -> RoundedBump(w)
    [] Scheme = "heap_2" -> RoundedBySize(w)
    [] ByAddress -> RoundedByAddress(w)

-----------------------------------------------------------------------------
\* slip: blocks that touch are not joined
JoinsNone(list, b, p) == FALSE

\* Block b goes after the p-th of the list: it begins where that one ends.
JoinsLeft(list, b, p) == p > 0 /\ list[p].at + list[p].size = b.at

\* It ends where the next one begins.
JoinsRight(list, b, p) == p < Len(list) /\ b.at + b.size = list[p + 1].at

\* prvInsertBlockIntoFreeList of heap_4 and heap_5.  The marker of a region
\* that touches a block is joined to it for good.
InsertByAddress(list, b) ==
  LET p == Cardinality({i \in DOMAIN list : list[i].at < b.at})
      before == IF JoinsLeft(list, b, p) THEN list[p].size ELSE 0
      behind == IF JoinsRight(list, b, p) THEN list[p + 1].size ELSE 0
  IN SubSeq(list, 1, IF JoinsLeft(list, b, p) THEN p - 1 ELSE p)
     \o <<[at |-> b.at - before, size |-> before + b.size + behind]>>
     \o SubSeq(list, IF JoinsRight(list, b, p) THEN p + 2 ELSE p + 1, Len(list))

\* The macro of heap_2: before the first that is no smaller.
InsertBySize(list, b) ==
  LET p == Cardinality({i \in DOMAIN list : \A j \in 1..i : list[j].size < b.size})
  IN InsertAt(list, p + 1, b)

Insert(list, b) ==
  IF ByAddress THEN InsertByAddress(list, b) ELSE InsertBySize(list, b)

\* The blocks the search stops at, and it takes the first of them.
Fits(list, n) == {i \in DOMAIN list : list[i].size >= n}

\* The rest of a block is worth a block of its own.
Splits(b, n) == b.size - n > 2 * Struct

SizeTaken(b, n) == IF Splits(b, n) THEN n ELSE b.size

\* What is taken off xFreeBytesRemaining.
Charge(b, n) == SizeTaken(b, n)

\* Block i is taken for n bytes, and its rest goes back to the list.
Take(h, i, n, w) ==
  LET b == h.free[i]
      others == RemoveAt(h.free, i)
  IN /\ free' = IF Splits(b, n)
                THEN Insert(others, [at |-> b.at + n, size |-> b.size - n])
                ELSE others
     /\ used' = used \cup {[at |-> b.at, size |-> SizeTaken(b, n), asked |-> w]}
     /\ remaining' = h.remaining - Charge(b, n)
     /\ minimum' = IF ByAddress /\ remaining' < h.minimum THEN remaining' ELSE h.minimum

-----------------------------------------------------------------------------
NoStats == [blocks |-> None, largest |-> 0, smallest |-> 0, astray |-> FALSE]

Quietly == refused' = None /\ stats' = NoStats

\* xFreeBytesRemaining of heap_2 has its value from the start.
Init ==
  /\ layout \in Layouts
  /\ ready = FALSE
  /\ free = <<>> /\ used = {}
  /\ remaining = (IF ByAddress THEN 0 ELSE FreeBytes(FreshList))
  /\ minimum = 0
  /\ refused = None /\ stats = NoStats

\* vPortDefineHeapRegions, which is called once.
vPortDefineHeapRegions ==
  /\ Scheme = "heap_5" /\ ~ready
  /\ ready' = TRUE
  /\ free' = Current.free
  /\ remaining' = Current.remaining /\ minimum' = Current.minimum
  /\ Quietly
  /\ UNCHANGED <<layout, used>>

\* pvPortMalloc of heap_2, heap_4 and heap_5; the last asserts that it is ready.
pvPortMalloc(w) ==
  /\ Scheme # "heap_1" /\ (Scheme = "heap_5" => ready)
  /\ LET h == Current
         n == Rounded(w)
         found == n > 0 /\ n <= h.remaining /\ Fits(h.free, n) # {}
     IN \/ /\ found
           /\ Take(h, Min(Fits(h.free, n)), n, w)
           /\ refused' = None
        \/ /\ ~found
           /\ free' = h.free /\ remaining' = h.remaining /\ minimum' = h.minimum
           /\ refused' = w
           /\ UNCHANGED used
  /\ ready' = TRUE
  /\ stats' = NoStats
  /\ UNCHANGED layout

\* pvPortMalloc of heap_1: xNextFreeByte moves up, and never to the end.
BumpMalloc(w) ==
  /\ Scheme = "heap_1"
  /\ LET rest  == Current.free[1]
         n     == Rounded(w)
         found == n > 0 /\ n < rest.size
     IN \/ /\ found
           /\ free' = <<[at |-> rest.at + n, size |-> rest.size - n]>>
           /\ used' = used \cup {[at |-> rest.at, size |-> n, asked |-> w]}
           /\ remaining' = remaining - n
           /\ refused' = None
        \/ /\ ~found
           /\ free' = Current.free
           /\ refused' = w
           /\ UNCHANGED <<used, remaining>>
  /\ ready' = TRUE
  /\ stats' = NoStats
  /\ UNCHANGED <<layout, minimum>>

\* vPortFree; heap_1 asserts that it is never called.
vPortFree(b) ==
  /\ Scheme # "heap_1"
  /\ used' = used \ {b}
  /\ free' = Insert(free, [at |-> b.at, size |-> b.size])
  /\ remaining' = remaining + b.size
  /\ Quietly
  /\ UNCHANGED <<layout, ready, minimum>>

\* xMinSize: portMAX_DELAY before the walk; heap_5 passes over the markers.
SmallestFree(sizes) ==
  IF sizes \ {0} = {} THEN SizeMod - 1 ELSE Min(sizes \ {0})

\* The walk of vPortGetHeapStats, which ends when the link after a block is
\* pxEnd: a list without blocks is left behind with the link of pxEnd, NULL.
\* The counters are read in a critical section after it.
vPortGetHeapStats ==
  /\ ByAddress
  /\ LET sizes == {free[i].size : i \in DOMAIN free}
     IN stats' = [blocks   |-> Len(free),
                  largest  |-> IF sizes = {} THEN 0 ELSE Max(sizes),
                  smallest |-> SmallestFree(sizes),
                  astray   |-> ready /\ free = <<>>]
  /\ refused' = None
  /\ UNCHANGED <<layout, ready, free, used, remaining, minimum>>

Next ==
  \/ vPortDefineHeapRegions
  \/ \E w \in Requests : pvPortMalloc(w) \/ BumpMalloc(w)
  \/ \E b \in used : vPortFree(b)
  \/ vPortGetHeapStats

Spec == Init /\ [][Next]_vars

-----------------------------------------------------------------------------
Blocks(list) == {b \in ToSet(list) : b.size > 0}

\* The memory the heap hands out.
Arenas == Blocks(FreshList)

Within(b, a) == a.at <= b.at /\ b.at + b.size <= a.at + a.size
Disjoint(b, c) == b.at + b.size <= c.at \/ c.at + c.size <= b.at

\* Blocks start and end where the processor can use them.
HeapTypeOK ==
  /\ ready \in BOOLEAN
  /\ \A b \in ToSet(free) \cup used : b.at % Align = 0 /\ b.size % Align = 0
  /\ {remaining, minimum} \subseteq 0..SizeMod
  /\ refused \in Requests \cup {None}

(***************************************************************************)
(* Whatever is allocated and freed, split and joined, and in whatever      *)
(* order, the blocks partition the memory of the heap: no byte is in two   *)
(* blocks, none is outside, and none is lost.                              *)
(***************************************************************************)
BlocksTile ==
  ready =>
    LET all == Blocks(free) \cup used
    IN /\ \A b \in all : \E a \in Arenas : Within(b, a)
       /\ \A b, c \in all : b = c \/ Disjoint(b, c)
       /\ FreeBytes(free) + MapThenSumSet(LAMBDA b : b.size, used)
            = FreeBytes(FreshList)

(***************************************************************************)
(* A caller has the bytes it asked for behind the header of its block,     *)
(* also when the sum of the two would overflow.                            *)
(***************************************************************************)
CallerHasRoom ==
  \A b \in used : b.size >= b.asked + (IF Scheme = "heap_1" THEN 0 ELSE Struct)

(***************************************************************************)
(* heap_4 and heap_5 keep their free blocks by address and no two that     *)
(* touch, so that a request finds all the space there is in one place;     *)
(* heap_2 keeps them by size, so that the first that fits is the best.     *)
(***************************************************************************)
FreeListInOrder ==
  \A i, j \in DOMAIN free :
    i < j => IF ByAddress THEN free[i].at + free[i].size < free[j].at
                               \/ free[j] \in {Marker(Regions[r]) : r \in DOMAIN Regions}
             ELSE free[i].size <= free[j].size

(***************************************************************************)
(* xFreeBytesRemaining is what the list holds, and the minimum is never    *)
(* above it: a block that is taken whole counts whole.                     *)
(***************************************************************************)
RemainingExact ==
  ready => /\ remaining = FreeBytes(free)
           /\ minimum <= remaining

(***************************************************************************)
(* A request is refused only when no free block holds it with its header   *)
(* and an alignment.                                                       *)
(***************************************************************************)
RefusedWithoutRoom ==
  refused > 0 => \A b \in ToSet(free) : b.size < refused + Struct + Align

(***************************************************************************)
(* When everything is freed, heap_4 and heap_5 are as new: no order of     *)
(* calls leaves the memory in pieces.                                      *)
(***************************************************************************)
WholeAgain == ready /\ ByAddress /\ used = {} => Blocks(free) = Arenas

(***************************************************************************)
(* The statistics of a heap with a free block are those of its blocks; the *)
(* number of blocks of heap_5 counts the end markers in the list.          *)
(***************************************************************************)
StatsDescribe ==
  stats # NoStats /\ free # <<>> =>
    /\ stats.blocks - Cardinality(Blocks(free)) \in 0..(Len(Regions) - 1)
    /\ \A b \in Blocks(free) : b.size \in stats.smallest..stats.largest
    /\ Blocks(free) # {} => {stats.smallest, stats.largest} \subseteq {b.size : b \in Blocks(free)}

(***************************************************************************)
(* "Move to the next block in the chain until the last block is reached":  *)
(* the walk of vPortGetHeapStats stays in the list.                        *)
(***************************************************************************)
StatsWalkEnds == ~stats.astray

(***************************************************************************)
(* The blocks, with those in the hands of callers, tile the heap; the free *)
(* list is in order, with no two neighbours apart; the count of free bytes *)
(* is theirs; and a heap of which all was freed is whole again.            *)
(***************************************************************************)
HeapSound ==
  HeapTypeOK /\ BlocksTile /\ FreeListInOrder /\ RemainingExact /\ WholeAgain

(***************************************************************************)
(* A caller gets all it asked for, aligned, or is refused because no block *)
(* would do, whatever its size overflows; and the statistics describe the  *)
(* heap they were taken of.                                                *)
(***************************************************************************)
HeapServes == CallerHasRoom /\ RefusedWithoutRoom /\ StatsDescribe
=============================================================================
