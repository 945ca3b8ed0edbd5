----------------------------- MODULE ItemQueue -----------------------------
(***************************************************************************)
(* What the storage of a queue promises: the items come out in the order   *)
(* of the queue, whole, each once, wherever they are kept.                 *)
(***************************************************************************)
EXTENDS Sequences, Naturals

CONSTANTS Item, Nothing

VARIABLES
  length,   \* uxLength
  items,
  got       \* the item the last read answered with

vars == <<length, items, got>>

Init ==
  /\ length \in Nat \ {0}
  /\ items = <<>>
  /\ got = Nothing

SendToBack(x)  == Len(items) < length /\ items' = Append(items, x) /\ UNCHANGED <<length, got>>

SendToFront(x) == Len(items) < length /\ items' = <<x>> \o items /\ UNCHANGED <<length, got>>

\* The queue of one item, full or not.
Overwrite(x) == length = 1 /\ items' = <<x>> /\ UNCHANGED <<length, got>>

Receive == items # <<>> /\ got' = Head(items) /\ items' = Tail(items) /\ UNCHANGED length

Peek == items # <<>> /\ got' = Head(items) /\ UNCHANGED <<length, items>>

Clear == items' = <<>> /\ UNCHANGED <<length, got>>

Next ==
  \/ \E x \in Item : SendToBack(x) \/ SendToFront(x) \/ Overwrite(x)
  \/ Receive \/ Peek \/ Clear

Spec == Init /\ [][Next]_vars
=============================================================================
