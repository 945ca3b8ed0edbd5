------------------------- MODULE QueueStorageProofs -------------------------
(***************************************************************************)
(* Proofs about the storage of a queue, for every length: its pointers     *)
(* stay where the items end, and it implements the queue of items.         *)
(***************************************************************************)
EXTENDS QueueStorage, SequenceTheorems, TLAPS

\* The items, in the order in which they come out.
Contents == [i \in 1..uxMessagesWaiting |-> cells[CellOf(i)]]

IInv == TypeOK /\ PointersMeet

-----------------------------------------------------------------------------
(***************************************************************************)
(* Sequences.                                                              *)
(***************************************************************************)
LEMMA FunctionIsSeq ==
  ASSUME NEW S, NEW n \in Nat, NEW s \in [1..n -> S]
  PROVE  s \in Seq(S) /\ Len(s) = n
BY SeqDef, SMT

LEMMA IsAppend ==
  ASSUME NEW S, NEW n \in Nat, NEW x \in S,
         NEW t \in [1..n -> S], NEW s \in [1..(n + 1) -> S],
         \A i \in 1..n : s[i] = t[i], s[n + 1] = x
  PROVE  s = Append(t, x)
<1>1. t \in Seq(S) /\ Len(t) = n /\ s \in Seq(S) /\ Len(s) = n + 1
  BY FunctionIsSeq
<1>2. /\ Append(t, x) \in Seq(S) /\ Len(Append(t, x)) = n + 1
      /\ \A i \in 1..n : Append(t, x)[i] = t[i]
      /\ Append(t, x)[n + 1] = x
  BY <1>1, AppendProperties
<1>3. \A i \in 1..(n + 1) : s[i] = Append(t, x)[i]
  BY <1>2
<1> QED
  BY <1>1, <1>2, <1>3, SeqEqual

LEMMA IsPrepend ==
  ASSUME NEW S, NEW n \in Nat, NEW x \in S,
         NEW t \in [1..n -> S], NEW s \in [1..(n + 1) -> S],
         \A i \in 1..n : s[i + 1] = t[i], s[1] = x
  PROVE  s = <<x>> \o t
<1>1. t \in Seq(S) /\ Len(t) = n /\ s \in Seq(S) /\ Len(s) = n + 1
  BY FunctionIsSeq
<1>2. <<x>> \in Seq(S) /\ Len(<<x>>) = 1 /\ <<x>>[1] = x
  OBVIOUS
<1>3. /\ <<x>> \o t \in Seq(S) /\ Len(<<x>> \o t) = n + 1
      /\ \A i \in 1..(n + 1) : (<<x>> \o t)[i] = IF i <= 1 THEN <<x>>[i] ELSE t[i - 1]
  BY <1>1, <1>2, ConcatProperties
<1>4. \A i \in 1..(n + 1) : s[i] = (<<x>> \o t)[i]
  <2> SUFFICES ASSUME NEW i \in 1..(n + 1) PROVE s[i] = (<<x>> \o t)[i]
    OBVIOUS
  <2>1. CASE i = 1
    BY <2>1, <1>2, <1>3
  <2>2. CASE i # 1
    <3>1. i - 1 \in 1..n /\ (i - 1) + 1 = i
      BY <2>2
    <3>2. s[i] = t[i - 1]
      BY <3>1
    <3> QED
      BY <2>2, <3>2, <1>3
  <2> QED
    BY <2>1, <2>2
<1> QED
  BY <1>1, <1>3, <1>4, SeqEqual

LEMMA IsTail ==
  ASSUME NEW S, NEW n \in Nat,
         NEW t \in [1..(n + 1) -> S], NEW s \in [1..n -> S],
         \A i \in 1..n : s[i] = t[i + 1]
  PROVE  s = Tail(t) /\ t # <<>> /\ Head(t) = t[1]
<1>1. t \in Seq(S) /\ Len(t) = n + 1 /\ s \in Seq(S) /\ Len(s) = n
  BY FunctionIsSeq
<1>2. t # <<>>
  BY <1>1
<1>3. /\ Tail(t) \in Seq(S) /\ Len(Tail(t)) = n
      /\ \A i \in 1..n : Tail(t)[i] = t[i + 1]
  BY <1>1, <1>2, HeadTailProperties
<1>4. s = Tail(t)
  BY <1>1, <1>3, SeqEqual
<1> QED
  BY <1>1, <1>2, <1>4

-----------------------------------------------------------------------------
(***************************************************************************)
(* Cells.                                                                  *)
(***************************************************************************)
LEMMA CellsApart ==
  ASSUME TypeOK
  PROVE  /\ \A i \in 1..length : CellOf(i) \in 0..(length - 1)
         /\ \A i, j \in 1..length : CellOf(i) = CellOf(j) => i = j
         /\ CellOf(length) = pcReadFrom
         /\ CellOf(1) = After(pcReadFrom)
         /\ \A i \in 1..(length - 1) : CellOf(i + 1) = After(CellOf(i))
BY DEF TypeOK, CellOf, After

LEMMA ContentsType ==
  ASSUME TypeOK, PointersMeet
  PROVE  Contents \in [1..uxMessagesWaiting -> Item]
BY DEF PointersMeet, Contents

(***************************************************************************)
(* A new queue is empty.                                                   *)
(***************************************************************************)
LEMMA InitInv ==
  Init => IInv
BY StorageAssumption DEF Init, IInv, TypeOK, PointersMeet, CellOf

LEMMA NoItems ==
  ASSUME uxMessagesWaiting = 0
  PROVE  Contents = <<>>
BY DEF Contents

-----------------------------------------------------------------------------
(***************************************************************************)
(* One lemma for each action: it keeps the invariant, and does to the      *)
(* items what the queue promises.                                          *)
(***************************************************************************)
LEMMA BackStep ==
  ASSUME IInv, NEW x \in Item, SendToBack(x)
  PROVE  IInv' /\ Promised!SendToBack(x)
<1> USE DEF IInv
<1> DEFINE n == uxMessagesWaiting
<1>1. TypeOK'
  BY DEF TypeOK, SendToBack, Write, After
<1>2. \A i \in 1..length : CellOf(i)' = CellOf(i)
  BY DEF SendToBack, CellOf
<1>3. pcWriteTo = CellOf(n + 1) /\ n + 1 \in 1..length /\ n \in Nat
  BY DEF PointersMeet, SendToBack, TypeOK
<1>4. \A i \in 1..n : cells'[CellOf(i)'] = cells[CellOf(i)]
  BY <1>2, <1>3, CellsApart DEF TypeOK, SendToBack, Write
<1>5. \A i \in 1..length : i = n + 1 => cells'[CellOf(i)'] = x
  BY <1>2, <1>3 DEF TypeOK, SendToBack, Write
<1>6. PointersMeet'
  <2>1. \A i \in 1..(n + 1) : cells'[CellOf(i)'] \in Item
    BY <1>3, <1>4, <1>5 DEF PointersMeet
  <2>2. pcWriteTo' = CellOf(IF n + 1 = length THEN 1 ELSE n + 2)
    BY <1>3, CellsApart DEF SendToBack, TypeOK, CellOf, After
  <2> QED
    BY <2>1, <2>2, <1>2, <1>3 DEF PointersMeet, SendToBack, TypeOK, CellOf
<1>7. Contents \in [1..n -> Item] /\ Contents' \in [1..(n + 1) -> Item]
  BY <1>1, <1>6, ContentsType DEF SendToBack, PointersMeet, Contents
<1>8. Contents' = Append(Contents, x)
  <2>1. \A i \in 1..n : Contents'[i] = Contents[i]
    BY <1>3, <1>4 DEF Contents, SendToBack
  <2>2. \A i \in 1..(n + 1) : i = n + 1 => Contents'[i] = x
    BY <1>3, <1>5 DEF Contents, SendToBack
  <2> QED
    BY <1>3, <1>7, <2>1, <2>2, IsAppend
<1>9. Len(Contents) = n
  BY <1>3, <1>7, FunctionIsSeq
<1> QED
  BY <1>1, <1>6, <1>8, <1>9 DEF SendToBack, Promised!SendToBack, Contents

LEMMA FrontStep ==
  ASSUME IInv, NEW x \in Item, SendToFront(x)
  PROVE  IInv' /\ Promised!SendToFront(x)
<1> USE DEF IInv
<1> DEFINE n == uxMessagesWaiting
<1>1. TypeOK'
  BY DEF TypeOK, SendToFront, Write, Before
<1>2. n \in Nat /\ n < length /\ length \in Nat \ {0}
  BY DEF SendToFront, TypeOK
<1>3. \A i \in 1..(length - 1) : CellOf(i + 1)' = CellOf(i)
  BY DEF SendToFront, CellOf, Before, TypeOK
<1>4. CellOf(1)' = pcReadFrom
  BY DEF SendToFront, CellOf, Before, TypeOK
<1>5. \A i \in 1..n : cells'[CellOf(i + 1)'] = cells[CellOf(i)]
  BY <1>2, <1>3, CellsApart DEF TypeOK, SendToFront, Write
<1>6. cells'[CellOf(1)'] = x
  BY <1>4 DEF TypeOK, SendToFront, Write
<1>7. \A i \in 1..(n + 1) : cells'[CellOf(i)'] \in Item
  <2> SUFFICES ASSUME NEW i \in 1..(n + 1) PROVE cells'[CellOf(i)'] \in Item
    OBVIOUS
  <2>1. CASE i = 1
    BY <2>1, <1>6
  <2>2. CASE i # 1
    <3>1. i - 1 \in 1..n /\ (i - 1) + 1 = i
      BY <2>2, <1>2
    <3>2. cells'[CellOf(i)'] = cells[CellOf(i - 1)]
      BY <3>1, <1>5
    <3> QED
      BY <3>1, <3>2 DEF PointersMeet
  <2> QED
    BY <2>1, <2>2
<1>8. PointersMeet'
  BY <1>2, <1>7 DEF PointersMeet, SendToFront, TypeOK, CellOf, Before
<1>9. Contents \in [1..n -> Item] /\ Contents' \in [1..(n + 1) -> Item]
  BY <1>1, <1>8, ContentsType DEF SendToFront, PointersMeet, Contents
<1>10. Contents' = <<x>> \o Contents
  <2>1. \A i \in 1..n : Contents'[i + 1] = Contents[i]
    BY <1>2, <1>5 DEF Contents, SendToFront
  <2>2. Contents'[1] = x
    BY <1>2, <1>6 DEF Contents, SendToFront
  <2> QED
    BY <1>2, <1>9, <2>1, <2>2, IsPrepend
<1>11. Len(Contents) = n
  BY <1>2, <1>9, FunctionIsSeq
<1> QED
  BY <1>1, <1>8, <1>10, <1>11 DEF SendToFront, Promised!SendToFront, Contents

LEMMA OverwriteStep ==
  ASSUME IInv, NEW x \in Item, Overwrite(x)
  PROVE  IInv' /\ Promised!Overwrite(x)
<1> USE DEF IInv
<1>1. /\ length = 1 /\ pcReadFrom = 0 /\ pcWriteTo = 0
      /\ pcReadFrom' = 0 /\ uxMessagesWaiting' = 1
  BY DEF TypeOK, Overwrite, Before
<1>2. TypeOK'
  BY <1>1 DEF TypeOK, Overwrite, Write
<1>3. CellOf(1)' = 0 /\ cells'[0] = x
  BY <1>1 DEF TypeOK, Overwrite, Write, CellOf
<1>4. PointersMeet'
  BY <1>1, <1>3 DEF Overwrite, PointersMeet
<1>5. Contents' = [i \in 1..1 |-> x]
  BY <1>1, <1>3 DEF Contents
<1>6. Contents' = <<x>>
  BY <1>5
<1> QED
  BY <1>1, <1>2, <1>4, <1>6 DEF Overwrite, Promised!Overwrite, Contents

LEMMA ReceiveStep ==
  ASSUME IInv, Receive
  PROVE  IInv' /\ Promised!Receive
<1> USE DEF IInv
<1> DEFINE m == uxMessagesWaiting - 1
<1>1. /\ m \in Nat /\ uxMessagesWaiting = m + 1 /\ m + 1 \in 1..length
      /\ uxMessagesWaiting' = m /\ length \in Nat \ {0} /\ length' = length
  BY DEF Receive, TypeOK
<1>2. pcReadFrom' = CellOf(1)
  BY CellsApart DEF Receive
<1>3. got' = cells[CellOf(1)] /\ got' \in Item
  BY <1>1, <1>2 DEF Receive, PointersMeet
<1>4. TypeOK'
  BY <1>1, <1>2, <1>3, CellsApart DEF TypeOK, Receive
<1>5. \A i \in 1..(length - 1) : CellOf(i)' = CellOf(i + 1)
  BY <1>1 DEF Receive, CellOf, After, TypeOK
<1>6. \A i \in 1..m : cells'[CellOf(i)'] = cells[CellOf(i + 1)]
  BY <1>1, <1>5 DEF Receive
<1>7. \A i \in 1..m : cells'[CellOf(i)'] \in Item
  BY <1>1, <1>6 DEF PointersMeet
<1>8. PointersMeet'
  BY <1>1, <1>7 DEF PointersMeet, Receive, TypeOK, CellOf, After
<1>9. Contents \in [1..(m + 1) -> Item] /\ Contents' \in [1..m -> Item]
  BY <1>1, <1>7, ContentsType DEF Contents
<1>10. \A i \in 1..m : Contents'[i] = Contents[i + 1]
  BY <1>1, <1>6 DEF Contents
<1>11. Contents' = Tail(Contents) /\ Contents # <<>> /\ Head(Contents) = Contents[1]
  BY <1>1, <1>9, <1>10, IsTail
<1>12. Contents[1] = got'
  BY <1>1, <1>3 DEF Contents
<1> QED
  BY <1>1, <1>4, <1>8, <1>11, <1>12 DEF Promised!Receive, Contents

LEMMA PeekStep ==
  ASSUME IInv, Peek
  PROVE  IInv' /\ Promised!Peek
<1> USE DEF IInv
<1> DEFINE m == uxMessagesWaiting - 1
<1>1. m \in Nat /\ uxMessagesWaiting = m + 1
  BY DEF Peek, TypeOK
<1>2. got' = cells[CellOf(1)] /\ got' \in Item
  BY <1>1, CellsApart DEF Peek, PointersMeet
<1>3. \A i : CellOf(i)' = CellOf(i)
  BY DEF Peek, CellOf
<1>4. TypeOK' /\ PointersMeet'
  BY <1>2, <1>3 DEF TypeOK, PointersMeet, Peek
<1>5. Contents' = Contents
  BY <1>3 DEF Contents, Peek
<1>6. Contents \in [1..(m + 1) -> Item] /\ Contents[1] = got'
  BY <1>1, <1>2, ContentsType DEF Contents
<1>7. Contents # <<>> /\ Head(Contents) = Contents[1]
  BY <1>1, <1>6, FunctionIsSeq
<1> QED
  BY <1>4, <1>5, <1>6, <1>7 DEF Peek, Promised!Peek, Contents

LEMMA ClearStep ==
  ASSUME IInv, Clear
  PROVE  IInv' /\ Promised!Clear
<1> USE DEF IInv
<1>1. TypeOK'
  BY DEF TypeOK, Clear
<1>2. PointersMeet'
  BY DEF TypeOK, Clear, PointersMeet, CellOf
<1>3. Contents' = <<>>
  BY DEF Clear, Contents
<1> QED
  BY <1>1, <1>2, <1>3 DEF Clear, Promised!Clear, Contents

LEMMA Steps ==
  ASSUME IInv, [Next]_vars
  PROVE  IInv' /\ [Promised!Next]_(Promised!vars)
<1>1. CASE UNCHANGED vars
  <2>1. \A i : CellOf(i)' = CellOf(i)
    BY <1>1 DEF vars, CellOf
  <2>2. IInv'
    BY <1>1, <2>1 DEF vars, IInv, TypeOK, PointersMeet
  <2>3. Contents' = Contents
    BY <1>1, <2>1 DEF vars, Contents
  <2> QED
    BY <1>1, <2>2, <2>3 DEF vars, Promised!vars, Contents
<1>2. CASE \E x \in Item : SendToBack(x) \/ SendToFront(x) \/ Overwrite(x)
  BY <1>2, BackStep, FrontStep, OverwriteStep DEF Promised!Next
<1>3. CASE Receive
  BY <1>3, ReceiveStep DEF Promised!Next
<1>4. CASE Peek
  BY <1>4, PeekStep DEF Promised!Next
<1>5. CASE Clear
  BY <1>5, ClearStep DEF Promised!Next
<1> QED
  BY <1>1, <1>2, <1>3, <1>4, <1>5 DEF Next

-----------------------------------------------------------------------------
(***************************************************************************)
(* For every length, however its two ends wrap: the cells from the one     *)
(* after pcReadFrom to the one before pcWriteTo hold the items.            *)
(***************************************************************************)
THEOREM StoragePointers == Spec => []RingSound
<1>1. IInv /\ [Next]_vars => IInv'
  BY Steps
<1> QED
  BY InitInv, <1>1, PTL DEF Spec, IInv, RingSound

(***************************************************************************)
(* For every length, the storage is the queue of items that the kernel's   *)
(* tasks and handlers see.                                                 *)
(***************************************************************************)
THEOREM StorageImplementsQueue ==
  Spec => ImplementsItemQueue
<1>1. Init => Promised!Init
  BY NoItems, StorageAssumption DEF Init, Promised!Init, Contents
<1>2. Spec => []IInv
  BY StoragePointers, PTL DEF IInv, RingSound
<1>3. IInv /\ [Next]_vars => [Promised!Next]_(Promised!vars)
  BY Steps
<1> QED
  BY <1>1, <1>2, <1>3, PTL DEF Spec, Promised!Spec, ImplementsItemQueue
=============================================================================
