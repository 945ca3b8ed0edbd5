----------------------------- MODULE KernelList -----------------------------
(***************************************************************************)
(* The lists of the FreeRTOS kernel (list.c, list.h).                      *)
(*                                                                         *)
(* A List_t is a ring of items with an end marker and a walking index.     *)
(* Here it is the sequence of the items after the marker and the position  *)
(* of pxIndex in it, 0 when pxIndex is at the marker.  The lists that are  *)
(* never walked (delayed tasks, event lists) are the sequence alone: their *)
(* index stays at the marker, so their end is the place before it.         *)
(***************************************************************************)
EXTENDS Integers, SequencesExt

vListInitialise == [items |-> <<>>, index |-> 0]

\* The new item goes just before the index: it is the last to be walked to.
vListInsertEnd(list, x) ==
  IF list.index = 0
  THEN [list EXCEPT !.items = Append(@, x)]
  ELSE [items |-> InsertAt(list.items, list.index, x), index |-> list.index + 1]

\* Behind the items of smaller or equal value that start the list.  The code
\* walks from the marker and stops at the first larger value, sorted or not.
vListInsert(items, x, value) ==
  LET Passed == {i \in DOMAIN items :
                   \A j \in 1..i : value[items[j]] <= value[x]}
  IN InsertAt(items, Cardinality(Passed) + 1, x)

PositionOf(items, x) == CHOOSE i \in DOMAIN items : items[i] = x

Unlink(items, x) ==
  IF Contains(items, x) THEN RemoveAt(items, PositionOf(items, x)) ELSE items

\* An index at the removed item steps back; the list may be without the item.
uxListRemove(list, x) ==
  IF ~Contains(list.items, x) THEN list
  ELSE [items |-> Unlink(list.items, x),
        index |-> IF list.index >= PositionOf(list.items, x) THEN list.index - 1 ELSE list.index]

\* The index moves to the next item and never rests on the marker.
WalkToNext(list) ==
  [list EXCEPT !.index = IF @ = Len(list.items) THEN 1 ELSE @ + 1]

\* What Op(state, i) makes of k for each i from 1 to n in turn.
InTurn(Op(_, _), k, n) ==
  LET after[i \in 0..n] == IF i = 0 THEN k ELSE Op(after[i - 1], i)
  IN after[n]

listGET_OWNER_OF_NEXT_ENTRY(list) == list.items[WalkToNext(list).index]
=============================================================================
