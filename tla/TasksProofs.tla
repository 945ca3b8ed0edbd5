----------------------------- MODULE TasksProofs ----------------------------
(***************************************************************************)
(* What the functions of tasks.c and queue.c do to the lists of the        *)
(* kernel, for every number of tasks, priorities and queues: a state in    *)
(* which each task is in at most one list for its state and at most one    *)
(* for an event, and a ready one in that of its priority and no other, is  *)
(* taken to another, and no task is lost on the way.  The bits of the      *)
(* priorities stay those of the ready lists, and a task more urgent than   *)
(* the one that runs becomes ready only with a yield, made or pending.     *)
(* And what they do to the time of those that sleep, to the tasks that     *)
(* wait, and to the number of mutexes each task holds.                     *)
(***************************************************************************)
EXTENDS Queues, Lemmas

-----------------------------------------------------------------------------
(***************************************************************************)
(* Lists.                                                                  *)
(***************************************************************************)
SoundList(list) ==
  /\ list \in [items : Seq(Task), index : Nat]
  /\ IsInjective(list.items)
  /\ list.index <= Len(list.items)

\* What is left of a list without x.
LEMMA RemoveOne ==
  ASSUME NEW S, NEW s \in Seq(S), IsInjective(s), NEW x
  PROVE  /\ Unlink(s, x) \in Seq(S) /\ IsInjective(Unlink(s, x))
         /\ ToSet(Unlink(s, x)) = ToSet(s) \ {x}
         /\ Contains(s, x) => /\ PositionOf(s, x) \in 1..Len(s)
                              /\ Len(Unlink(s, x)) = Len(s) - 1
<1>1. /\ Len(s) \in Nat /\ DOMAIN s = 1..Len(s)
      /\ \A i \in 1..Len(s) : s[i] \in S
  OBVIOUS
<1>2. CASE ~Contains(s, x)
  BY <1>1, <1>2, ContainsIff DEF Unlink
<1>3. CASE Contains(s, x)
  <2> DEFINE n == PositionOf(s, x)
             r == RemoveAt(s, n)
  <2>1. n \in 1..Len(s) /\ s[n] = x
    BY <1>1, <1>3 DEF PositionOf, Contains
  <2> HIDE DEF n
  <2>2. /\ r \in Seq(S) /\ Len(r) = Len(s) - 1 /\ DOMAIN r = 1..(Len(s) - 1)
        /\ \A i \in 1..(Len(s) - 1) : r[i] = IF i < n THEN s[i] ELSE s[i + 1]
    BY <1>1, <2>1, RemoveElements
  <2>3. Unlink(s, x) = r
    BY <1>3 DEF Unlink, n
  <2> HIDE DEF r
  <2>4. IsInjective(r)
    <3> SUFFICES ASSUME NEW i \in 1..(Len(s) - 1), NEW j \in 1..(Len(s) - 1), r[i] = r[j]
                 PROVE  i = j
      BY <2>2 DEF IsInjective
    <3>1. \A l, m \in 1..Len(s) : s[l] = s[m] => l = m
      BY <1>1 DEF IsInjective
    <3>2. \A l \in 1..(Len(s) - 1) : l \in 1..Len(s) /\ l + 1 \in 1..Len(s)
      BY <1>1
    <3>3. \E l \in {i, i + 1}, m \in {j, j + 1} :
            /\ r[i] = s[l] /\ r[j] = s[m]
            /\ l = IF i < n THEN i ELSE i + 1
            /\ m = IF j < n THEN j ELSE j + 1
      BY <2>2
    <3>4. (IF i < n THEN i ELSE i + 1) = (IF j < n THEN j ELSE j + 1)
      BY <3>1, <3>2, <3>3
    <3> QED
      BY <2>1, <3>4
  <2>5. ToSet(r) \subseteq ToSet(s) \ {x}
    BY SMTT(60), <1>1, <2>1, <2>2 DEF IsInjective, ToSet
  <2>6. ASSUME NEW i \in 1..Len(s), i # n PROVE s[i] \in ToSet(r)
    <3>1. CASE i < n
      BY <3>1, <1>1, <2>1, <2>2 DEF ToSet
    <3>2. CASE i > n
      <4>1. i - 1 \in 1..(Len(s) - 1) /\ r[i - 1] = s[i]
        BY <3>2, <1>1, <2>1, <2>2
      <4> QED
        BY <4>1, <2>2 DEF ToSet
    <3> QED
      BY <3>1, <3>2, <2>1, <2>6
  <2>7. ToSet(s) \ {x} \subseteq ToSet(r)
    BY <1>1, <2>1, <2>6 DEF ToSet
  <2> QED
    BY <2>1, <2>2, <2>3, <2>4, <2>5, <2>7 DEF n
<1> QED
  BY <1>2, <1>3

\* uxListRemove takes one task out of a ready list, whose index stays in it.
LEMMA RemoveFromReady ==
  ASSUME NEW list, SoundList(list), NEW x
  PROVE  /\ SoundList(uxListRemove(list, x))
         /\ ToSet(uxListRemove(list, x).items) = ToSet(list.items) \ {x}
<1>1. CASE ~Contains(list.items, x)
  <2>1. x \notin ToSet(list.items)
    BY <1>1, ContainsIff DEF SoundList
  <2> QED
    BY <1>1, <2>1 DEF SoundList, uxListRemove
<1>2. CASE Contains(list.items, x)
  <2> DEFINE s == list.items
             n == PositionOf(s, x)
             r == Unlink(s, x)
             i == IF list.index >= n THEN list.index - 1 ELSE list.index
  <2>1. /\ r \in Seq(Task) /\ IsInjective(r) /\ ToSet(r) = ToSet(s) \ {x}
        /\ n \in 1..Len(s) /\ Len(r) = Len(s) - 1 /\ Len(s) \in Nat
    BY <1>2, RemoveOne DEF SoundList
  <2>2. uxListRemove(list, x) = [items |-> r, index |-> i]
    BY <1>2 DEF uxListRemove
  <2> HIDE DEF r, n
  <2>3. i \in Nat /\ i <= Len(r)
    BY <2>1 DEF SoundList
  <2> HIDE DEF i
  <2> QED
    BY <2>1, <2>2, <2>3 DEF SoundList
<1> QED
  BY <1>1, <1>2

\* vListInsertEnd puts a task in that was not there.
LEMMA InsertIntoReady ==
  ASSUME NEW list, SoundList(list), NEW t \in Task, t \notin ToSet(list.items)
  PROVE  /\ SoundList(vListInsertEnd(list, t))
         /\ ToSet(vListInsertEnd(list, t).items) = ToSet(list.items) \cup {t}
<1> DEFINE s == list.items
<1>1. s \in Seq(Task) /\ IsInjective(s) /\ Len(s) \in Nat /\ list.index \in 0..Len(s)
  BY DEF SoundList
<1>2. CASE list.index = 0
  <2> DEFINE r == Append(s, t)
  <2>1. /\ r \in Seq(Task) /\ IsInjective(r) /\ ToSet(r) = ToSet(s) \cup {t}
        /\ Len(r) = Len(s) + 1
    BY <1>1, AppendOne
  <2>2. vListInsertEnd(list, t) = [items |-> r, index |-> 0]
    BY <1>2 DEF vListInsertEnd, SoundList
  <2> HIDE DEF r
  <2> QED
    BY <1>1, <2>1, <2>2 DEF SoundList
<1>3. CASE list.index # 0
  <2> DEFINE n == list.index
             r == InsertAt(s, n, t)
  <2>0. n \in 1..(Len(s) + 1)
    BY <1>1, <1>3
  <2> HIDE DEF n
  <2>1. /\ r \in Seq(Task) /\ IsInjective(r) /\ ToSet(r) = ToSet(s) \cup {t}
        /\ Len(r) = Len(s) + 1
    BY <1>1, <2>0, InsertOne
  <2>2. vListInsertEnd(list, t) = [items |-> r, index |-> list.index + 1]
    BY <1>3 DEF vListInsertEnd, n
  <2> HIDE DEF r
  <2> QED
    BY <1>1, <2>1, <2>2 DEF SoundList
<1> QED
  BY <1>2, <1>3

\* The place of a new item in an ordered list is one of the places it has.
LEMMA InsertInOrder ==
  ASSUME NEW s \in Seq(Task), IsInjective(s), NEW t \in Task, t \notin ToSet(s), NEW value
  PROVE  /\ vListInsert(s, t, value) \in Seq(Task) /\ IsInjective(vListInsert(s, t, value))
         /\ ToSet(vListInsert(s, t, value)) = ToSet(s) \cup {t}
<1> DEFINE Passed == {i \in DOMAIN s : \A j \in 1..i : value[s[j]] <= value[t]}
           n == Cardinality(Passed)
<1>1. n \in 0..Len(s)
  <2>1. DOMAIN s = 1..Len(s) /\ Len(s) \in Nat
    OBVIOUS
  <2>2. IsFiniteSet(1..Len(s)) /\ Cardinality(1..Len(s)) = Len(s)
    BY <2>1, FS_Interval
  <2>3. Passed \subseteq 1..Len(s)
    BY <2>1
  <2> HIDE DEF Passed
  <2>4. n \in Nat /\ n <= Cardinality(1..Len(s))
    BY <2>2, <2>3, FS_Subset, FS_CardinalityType
  <2> QED
    BY <2>1, <2>2, <2>4
<1>2. vListInsert(s, t, value) = InsertAt(s, n + 1, t)
  BY DEF vListInsert
<1> HIDE DEF n
<1>3. n + 1 \in 1..(Len(s) + 1)
  BY <1>1
<1> DEFINE m == n + 1
<1>4. m \in 1..(Len(s) + 1) /\ vListInsert(s, t, value) = InsertAt(s, m, t)
  BY <1>2, <1>3
<1> HIDE DEF m
<1> QED
  BY <1>4, InsertOne

\* The walk ends at an item of a list that has one.
LEMMA WalkInReady ==
  ASSUME NEW list, SoundList(list), list.items # <<>>
  PROVE  /\ SoundList(WalkToNext(list)) /\ WalkToNext(list).items = list.items
         /\ listGET_OWNER_OF_NEXT_ENTRY(list) \in ToSet(list.items)
<1>1. list.items \in Seq(Task) /\ Len(list.items) \in Nat \ {0} /\ list.index \in 0..Len(list.items)
  BY DEF SoundList
<1> DEFINE i == IF list.index = Len(list.items) THEN 1 ELSE list.index + 1
<1>2. i \in 1..Len(list.items)
  BY <1>1
<1>3. WalkToNext(list) = [items |-> list.items, index |-> i]
  BY DEF SoundList, WalkToNext
<1> HIDE DEF i
<1> QED
  BY <1>1, <1>2, <1>3 DEF SoundList, listGET_OWNER_OF_NEXT_ENTRY, ToSet

-----------------------------------------------------------------------------
(***************************************************************************)
(* Where tasks are.  Away: in no list for its state.  Free: in none for an *)
(* event.                                                                  *)
(***************************************************************************)
IsReady(s, t) == t \in ToSet(s.ready[s.prio[t]].items)

Away(s, t) ==
  /\ \A p \in Priority : t \notin ToSet(s.ready[p].items)
  /\ t \notin ToSet(s.delayed) /\ t \notin ToSet(s.overflow)
  /\ t \notin s.suspended /\ t \notin ToSet(s.terminating)

Free(s, t) ==
  /\ t \notin ToSet(s.pending)
  /\ \A e \in EventList : t \notin ToSet(s.events[e])

\* No list holds a task twice.
Shape(s) ==
  /\ \A p \in Priority : SoundList(s.ready[p])
  /\ IsInjective(s.delayed) /\ IsInjective(s.overflow) /\ IsInjective(s.terminating)
  /\ IsInjective(s.pending) /\ \A e \in EventList : IsInjective(s.events[e])

\* t is in at most one list of states and one of events, and its priority says in
\* which ready list.
Placed(s, t) ==
  /\ \A p \in Priority : t \in ToSet(s.ready[p].items) => p = s.prio[t]
  /\ IsReady(s, t) =>
       /\ t \notin ToSet(s.delayed) /\ t \notin ToSet(s.overflow)
       /\ t \notin s.suspended /\ t \notin ToSet(s.terminating)
       /\ Free(s, t)
  /\ t \in ToSet(s.delayed) =>
       t \notin ToSet(s.overflow) /\ t \notin s.suspended /\ t \notin ToSet(s.terminating)
  /\ t \in ToSet(s.overflow) => t \notin s.suspended /\ t \notin ToSet(s.terminating)
  /\ t \in s.suspended => t \notin ToSet(s.terminating)
  /\ t \in ToSet(s.pending) => \A e \in EventList : t \notin ToSet(s.events[e])
  /\ \A e, f \in EventList : t \in ToSet(s.events[e]) /\ t \in ToSet(s.events[f]) => e = f

\* What every function of tasks.c keeps.
Good == {s \in KernelState : Shape(s) /\ \A t \in Task : Placed(s, t)}

\* r comes from s, and the other tasks than t are where they were.
Others(s, r, t) ==
  /\ r.current = s.current /\ r.schedSusp = s.schedSusp
  /\ \A u \in Task \ {t} : /\ Away(r, u) <=> Away(s, u)
                           /\ Free(r, u) <=> Free(s, u)
                           /\ IsReady(r, u) <=> IsReady(s, u)

\* The lists of r, and the priorities, are those of s.
SameLists(s, r) ==
  /\ r.ready = s.ready /\ r.prio = s.prio
  /\ r.delayed = s.delayed /\ r.overflow = s.overflow
  /\ r.suspended = s.suspended /\ r.terminating = s.terminating
  /\ r.pending = s.pending /\ r.events = s.events

\* What leaves the lists alone leaves every task where it is.
LEMMA SameListsGood ==
  ASSUME NEW s \in Good, NEW r \in KernelState, SameLists(s, r)
  PROVE  /\ r \in Good
         /\ \A u \in Task : /\ Away(r, u) <=> Away(s, u)
                            /\ Free(r, u) <=> Free(s, u)
                            /\ IsReady(r, u) <=> IsReady(s, u)
BY DEF Good, Shape, Placed, SameLists, Away, Free, IsReady

\* uxListRemove of the state item: the task is away from all the lists of states.
LEMMA RemoveStateGood ==
  ASSUME NEW s \in Good, NEW t \in Task
  PROVE  /\ RemoveStateItem(s, t) \in Good /\ Others(s, RemoveStateItem(s, t), t)
         /\ Away(RemoveStateItem(s, t), t)
         /\ Free(RemoveStateItem(s, t), t) <=> Free(s, t)
         /\ RemoveStateItem(s, t).prio = s.prio
         /\ RemoveStateItem(s, t).events = s.events
<1> DEFINE r == RemoveStateItem(s, t)
<1>1. s \in KernelState /\ Shape(s)
  BY DEF Good
<1>2. /\ s.delayed \in Seq(Task) /\ s.overflow \in Seq(Task) /\ s.terminating \in Seq(Task)
      /\ IsInjective(s.delayed) /\ IsInjective(s.overflow) /\ IsInjective(s.terminating)
      /\ \A p \in Priority : SoundList(s.ready[p])
      /\ 0 \in Ticks
  BY <1>1, TaskAssumption DEF KernelState, Shape, Ticks
<1>3. /\ Unlink(s.delayed, t) \in Seq(Task) /\ IsInjective(Unlink(s.delayed, t))
      /\ ToSet(Unlink(s.delayed, t)) = ToSet(s.delayed) \ {t}
  BY <1>2, RemoveOne
<1>4. /\ Unlink(s.overflow, t) \in Seq(Task) /\ IsInjective(Unlink(s.overflow, t))
      /\ ToSet(Unlink(s.overflow, t)) = ToSet(s.overflow) \ {t}
  BY <1>2, RemoveOne
<1>5. /\ Unlink(s.terminating, t) \in Seq(Task) /\ IsInjective(Unlink(s.terminating, t))
      /\ ToSet(Unlink(s.terminating, t)) = ToSet(s.terminating) \ {t}
  BY <1>2, RemoveOne
<1>6. \A p \in Priority :
        /\ SoundList(uxListRemove(s.ready[p], t))
        /\ ToSet(uxListRemove(s.ready[p], t).items) = ToSet(s.ready[p].items) \ {t}
  BY <1>2, RemoveFromReady
<1>7. r \in KernelState
  <2>1. \A p \in Priority : uxListRemove(s.ready[p], t) \in [items : Seq(Task), index : Nat]
    BY <1>6 DEF SoundList
  <2> QED
    BY <1>1, <1>2, <1>3, <1>4, <1>5, <2>1 DEF KernelState, RemoveStateItem
<1>8. /\ r.delayed = Unlink(s.delayed, t) /\ r.overflow = Unlink(s.overflow, t)
      /\ r.terminating = Unlink(s.terminating, t) /\ r.suspended = s.suspended \ {t}
      /\ \A p \in Priority : r.ready[p] = uxListRemove(s.ready[p], t)
      /\ r.pending = s.pending /\ r.events = s.events /\ r.prio = s.prio
      /\ r.current = s.current /\ r.schedSusp = s.schedSusp
  BY <1>1 DEF KernelState, RemoveStateItem
<1> HIDE DEF r
<1>9. Shape(r)
  BY <1>1, <1>3, <1>4, <1>5, <1>6, <1>8 DEF Shape
<1>10. /\ \A p \in Priority : ToSet(r.ready[p].items) = ToSet(s.ready[p].items) \ {t}
       /\ ToSet(r.delayed) = ToSet(s.delayed) \ {t}
       /\ ToSet(r.overflow) = ToSet(s.overflow) \ {t}
       /\ ToSet(r.terminating) = ToSet(s.terminating) \ {t}
       /\ \A u \in Task : s.prio[u] \in Priority
  BY <1>1, <1>3, <1>4, <1>5, <1>6, <1>8 DEF KernelState
<1>11. Away(r, t)
  BY <1>8, <1>10 DEF Away
<1>12. \A u \in Task : Free(r, u) <=> Free(s, u)
  BY <1>8 DEF Free
<1>13. \A u \in Task \ {t} : (Away(r, u) <=> Away(s, u)) /\ (IsReady(r, u) <=> IsReady(s, u))
  BY <1>8, <1>10 DEF Away, IsReady
<1>14. ASSUME NEW u \in Task PROVE Placed(r, u)
  <2>1. Placed(s, u)
    BY DEF Good
  <2>2. IsReady(r, u) => IsReady(s, u)
    BY <1>8, <1>10 DEF IsReady
  <2> QED
    BY <2>1, <2>2, <1>8, <1>10, <1>12 DEF Placed
<1> QED
  BY <1>7, <1>8, <1>9, <1>11, <1>12, <1>13, <1>14 DEF Good, Others, r

\* uxListRemove of the event item: the task waits for nothing.
LEMMA RemoveEventGood ==
  ASSUME NEW s \in Good, NEW t \in Task
  PROVE  /\ RemoveEventItem(s, t) \in Good /\ Others(s, RemoveEventItem(s, t), t)
         /\ Free(RemoveEventItem(s, t), t)
         /\ Away(RemoveEventItem(s, t), t) <=> Away(s, t)
         /\ IsReady(RemoveEventItem(s, t), t) <=> IsReady(s, t)
         /\ RemoveEventItem(s, t).prio = s.prio
<1> DEFINE r == RemoveEventItem(s, t)
<1>1. s \in KernelState /\ Shape(s)
  BY DEF Good
<1>2. /\ s.pending \in Seq(Task) /\ IsInjective(s.pending)
      /\ \A e \in EventList : s.events[e] \in Seq(Task) /\ IsInjective(s.events[e])
  BY <1>1 DEF KernelState, Shape
<1>3. /\ Unlink(s.pending, t) \in Seq(Task) /\ IsInjective(Unlink(s.pending, t))
      /\ ToSet(Unlink(s.pending, t)) = ToSet(s.pending) \ {t}
  BY <1>2, RemoveOne
<1>4. \A e \in EventList :
        /\ Unlink(s.events[e], t) \in Seq(Task) /\ IsInjective(Unlink(s.events[e], t))
        /\ ToSet(Unlink(s.events[e], t)) = ToSet(s.events[e]) \ {t}
  BY <1>2, RemoveOne
<1>5. r \in KernelState
  BY <1>1, <1>3, <1>4 DEF KernelState, RemoveEventItem
<1>6. /\ r.delayed = s.delayed /\ r.overflow = s.overflow
      /\ r.terminating = s.terminating /\ r.suspended = s.suspended
      /\ r.ready = s.ready /\ r.prio = s.prio
      /\ r.pending = Unlink(s.pending, t)
      /\ \A e \in EventList : r.events[e] = Unlink(s.events[e], t)
      /\ r.current = s.current /\ r.schedSusp = s.schedSusp
  BY <1>1 DEF KernelState, RemoveEventItem
<1> HIDE DEF r
<1>7. Shape(r)
  BY <1>1, <1>3, <1>4, <1>6 DEF Shape
<1>8. /\ ToSet(r.pending) = ToSet(s.pending) \ {t}
      /\ \A e \in EventList : ToSet(r.events[e]) = ToSet(s.events[e]) \ {t}
  BY <1>3, <1>4, <1>6
<1>9. Free(r, t) /\ \A u \in Task \ {t} : Free(r, u) <=> Free(s, u)
  BY <1>8 DEF Free
<1>10. \A u \in Task : (Away(r, u) <=> Away(s, u)) /\ (IsReady(r, u) <=> IsReady(s, u))
  BY <1>6 DEF Away, IsReady
<1>11. ASSUME NEW u \in Task PROVE Placed(r, u)
  <2>1. Placed(s, u)
    BY DEF Good
  <2> QED
    BY <2>1, <1>6, <1>8, <1>9, <1>10 DEF Placed
<1> QED
  BY <1>5, <1>6, <1>7, <1>9, <1>10, <1>11 DEF Good, Others, r

\* prvAddTaskToReadyList, of a task that is in no list.
LEMMA AddReadyGood ==
  ASSUME NEW s \in Good, NEW t \in Task, Away(s, t), Free(s, t)
  PROVE  /\ prvAddTaskToReadyList(s, t) \in Good /\ Others(s, prvAddTaskToReadyList(s, t), t)
         /\ IsReady(prvAddTaskToReadyList(s, t), t)
         /\ prvAddTaskToReadyList(s, t).prio = s.prio
         /\ prvAddTaskToReadyList(s, t).events = s.events
<1> DEFINE r == prvAddTaskToReadyList(s, t)
           p == s.prio[t]
<1>1. s \in KernelState /\ Shape(s) /\ p \in Priority /\ \A u \in Task : s.prio[u] \in Priority
  BY DEF Good, KernelState
<1>2. SoundList(s.ready[p]) /\ t \notin ToSet(s.ready[p].items)
  BY <1>1 DEF Shape, Away
<1>3. /\ SoundList(vListInsertEnd(s.ready[p], t))
      /\ ToSet(vListInsertEnd(s.ready[p], t).items) = ToSet(s.ready[p].items) \cup {t}
  BY <1>2, InsertIntoReady
<1>4. r \in KernelState
  BY <1>1, <1>3 DEF KernelState, prvAddTaskToReadyList, SoundList
<1>5. /\ r.delayed = s.delayed /\ r.overflow = s.overflow
      /\ r.terminating = s.terminating /\ r.suspended = s.suspended
      /\ r.pending = s.pending /\ r.events = s.events /\ r.prio = s.prio
      /\ \A q \in Priority :
           r.ready[q] = IF q = p THEN vListInsertEnd(s.ready[p], t) ELSE s.ready[q]
      /\ r.current = s.current /\ r.schedSusp = s.schedSusp
  BY <1>1 DEF KernelState, prvAddTaskToReadyList
<1> HIDE DEF r
<1>6. Shape(r)
  BY <1>1, <1>3, <1>5 DEF Shape
<1>7. \A q \in Priority :
        ToSet(r.ready[q].items) = IF q = p THEN ToSet(s.ready[q].items) \cup {t}
                                  ELSE ToSet(s.ready[q].items)
  BY <1>3, <1>5
<1>8. \A u \in Task : Free(r, u) <=> Free(s, u)
  BY <1>5 DEF Free
<1>9. IsReady(r, t)
  BY <1>1, <1>5, <1>7 DEF IsReady
<1>10. \A u \in Task \ {t} : (Away(r, u) <=> Away(s, u)) /\ (IsReady(r, u) <=> IsReady(s, u))
  BY <1>1, <1>5, <1>7 DEF Away, IsReady
<1>11. ASSUME NEW u \in Task PROVE Placed(r, u)
  <2>1. Placed(s, u)
    BY DEF Good
  <2>2. CASE u = t
    <3>1. /\ u \notin ToSet(r.delayed) /\ u \notin ToSet(r.overflow)
          /\ u \notin r.suspended /\ u \notin ToSet(r.terminating) /\ Free(r, u)
          /\ \A q \in Priority : u \in ToSet(r.ready[q].items) => q = r.prio[u]
      BY <1>1, <1>5, <1>7, <1>8, <2>2 DEF Away
    <3> QED
      BY <3>1 DEF Placed, Free
  <2>3. CASE u # t
    <3>1. \A q \in Priority : u \in ToSet(r.ready[q].items) <=> u \in ToSet(s.ready[q].items)
      BY <1>7, <2>3
    <3>2. (Free(r, u) <=> Free(s, u)) /\ (IsReady(r, u) <=> IsReady(s, u))
      BY <1>8, <1>10, <2>3
    <3> QED
      BY <2>1, <1>5, <3>1, <3>2 DEF Placed
  <2> QED
    BY <2>2, <2>3
<1> QED
  BY <1>4, <1>5, <1>6, <1>8, <1>9, <1>10, <1>11 DEF Good, Others, r

-----------------------------------------------------------------------------
(***************************************************************************)
(* What every function of the kernel does but those that put the running   *)
(* task to sleep: no task is lost, a ready one stays ready, and if another *)
(* task is switched to, the scheduler is not suspended and that one is     *)
(* ready.                                                                  *)
(***************************************************************************)
Settled(s) == s.current = NoTask \/ IsReady(s, s.current)

\* r comes from s: no task is lost, none leaves its ready list, and another task runs
\* only if the scheduler is not suspended.
Moves(s, r) ==
  /\ r \in Good
  /\ r.schedSusp = s.schedSusp
  /\ r.current = s.current \/ (s.schedSusp = 0 /\ Settled(r))
  /\ \A u \in Task : (~Away(s, u) => ~Away(r, u)) /\ (IsReady(s, u) => IsReady(r, u))

\* Moves compose.
LEMMA MovesTransitive ==
  ASSUME NEW s \in Good, NEW r \in Good, NEW v \in Good, Moves(s, r), Moves(r, v)
  PROVE  Moves(s, v)
<1>1. r.current \in Task \cup {NoTask}
  BY DEF Good, KernelState
<1> QED
  BY <1>1 DEF Moves, Settled

\* A ready task waits for nothing.
LEMMA ReadyIsNotAway ==
  ASSUME NEW s \in Good, NEW t \in Task, IsReady(s, t)
  PROVE  ~Away(s, t) /\ Free(s, t) /\ t \notin s.suspended
BY DEF Good, KernelState, IsReady, Away, Placed

\* A step that readies one task, and leaves the others, moves.
LEMMA OthersAndReady ==
  ASSUME NEW s \in Good, NEW r \in Good, NEW t \in Task, Others(s, r, t), IsReady(r, t)
  PROVE  Moves(s, r)
BY ReadyIsNotAway DEF Others, Moves

\* A step that leaves the lists, the running task and the scheduler alone moves.
LEMMA SameListsMoves ==
  ASSUME NEW s \in Good, NEW r \in KernelState, SameLists(s, r),
         r.current = s.current, r.schedSusp = s.schedSusp
  PROVE  Moves(s, r)
BY SameListsGood DEF Moves

\* Out of its lists, and into its ready list.
LEMMA UnblockGood ==
  ASSUME NEW s \in Good, NEW t \in Task
  PROVE  /\ Moves(s, Unblock(s, t)) /\ IsReady(Unblock(s, t), t)
         /\ Unblock(s, t).events = [e \in EventList |-> Unlink(s.events[e], t)]
<1> DEFINE a == RemoveStateItem(s, t)
           b == RemoveEventItem(a, t)
           c == prvAddTaskToReadyList(b, t)
<1>1. a \in Good /\ Others(s, a, t) /\ Away(a, t) /\ a.events = s.events
  BY RemoveStateGood
<1>2. b \in Good /\ Others(a, b, t) /\ Away(b, t) /\ Free(b, t)
  <2> HIDE DEF a
  <2> QED
    BY <1>1, RemoveEventGood
<1>3. b.events = [e \in EventList |-> Unlink(a.events[e], t)]
  <2> HIDE DEF a
  <2> QED
    BY <1>1 DEF RemoveEventItem, Good, KernelState
<1>4. c \in Good /\ Others(b, c, t) /\ IsReady(c, t) /\ c.events = b.events
  <2> HIDE DEF b
  <2> QED
    BY <1>2, AddReadyGood
<1>5. Unblock(s, t) = c
  BY DEF Unblock
<1> HIDE DEF a, b, c
<1>6. Others(s, c, t)
  BY <1>1, <1>2, <1>4 DEF Others
<1> QED
  BY <1>1, <1>3, <1>4, <1>5, <1>6, OthersAndReady

\* The bits of the priorities are no lists.
LEMMA ClearBitGood ==
  ASSUME NEW s \in Good, NEW p
  PROVE  /\ Moves(s, portRESET_READY_PRIORITY(s, p))
         /\ SameLists(s, portRESET_READY_PRIORITY(s, p))
         /\ Moves(s, taskRESET_READY_PRIORITY(s, p))
         /\ SameLists(s, taskRESET_READY_PRIORITY(s, p))
<1> DEFINE r == portRESET_READY_PRIORITY(s, p)
<1>1. s \in KernelState
  BY DEF Good
<1>2. r \in KernelState /\ SameLists(s, r) /\ r.current = s.current /\ r.schedSusp = s.schedSusp
  BY <1>1 DEF KernelState, portRESET_READY_PRIORITY, SameLists
<1>3. Moves(s, r)
  BY <1>2, SameListsMoves
<1>4. Moves(s, s) /\ SameLists(s, s)
  BY DEF Moves, SameLists
<1> QED
  BY <1>2, <1>3, <1>4 DEF taskRESET_READY_PRIORITY

\* Out of the ready list, with the bit of its priority.
LEMMA LeaveReadyGood ==
  ASSUME NEW s \in Good, NEW t \in Task, NEW p
  PROVE  LET r == LeaveReadyList(s, t, p)
         IN /\ r \in Good /\ Others(s, r, t) /\ Away(r, t) /\ (Free(r, t) <=> Free(s, t))
            /\ r.prio = s.prio /\ r.events = s.events
<1> DEFINE a == RemoveStateItem(s, t)
           b == portRESET_READY_PRIORITY(a, p)
<1>1. /\ a \in Good /\ Others(s, a, t) /\ Away(a, t) /\ (Free(a, t) <=> Free(s, t))
      /\ a.prio = s.prio /\ a.events = s.events
  BY RemoveStateGood
<1>2. SameLists(a, b) /\ Moves(a, b)
  <2> HIDE DEF a
  <2> QED
    BY <1>1, ClearBitGood
<1>3. LeaveReadyList(s, t, p) = a \/ LeaveReadyList(s, t, p) = b
  BY DEF LeaveReadyList
<1>4. b.current = a.current /\ b.schedSusp = a.schedSusp
  <2> HIDE DEF a
  <2> QED
    BY <1>1 DEF portRESET_READY_PRIORITY, Good, KernelState
<1> HIDE DEF a, b
<1>5. /\ b \in Good
      /\ \A u \in Task : (Away(b, u) <=> Away(a, u)) /\ (Free(b, u) <=> Free(a, u))
                         /\ (IsReady(b, u) <=> IsReady(a, u))
  BY <1>1, <1>2 DEF Moves, SameLists, Away, Free, IsReady
<1>6. Others(s, b, t)
  BY <1>1, <1>4, <1>5 DEF Others
<1> QED
  BY <1>1, <1>2, <1>3, <1>5, <1>6 DEF SameLists

\* A task that is not ready may get another priority.
LEMMA SetPrioGood ==
  ASSUME NEW s \in Good, NEW t \in Task, ~IsReady(s, t), NEW p \in Priority
  PROVE  LET r == [s EXCEPT !.prio[t] = p]
         IN /\ r \in Good /\ Others(s, r, t) /\ ~IsReady(r, t)
            /\ (Away(r, t) <=> Away(s, t)) /\ (Free(r, t) <=> Free(s, t))
<1> DEFINE r == [s EXCEPT !.prio[t] = p]
<1>1. s \in KernelState /\ Shape(s) /\ \A u \in Task : Placed(s, u)
  BY DEF Good
<1>2. r \in KernelState
  BY <1>1 DEF KernelState
<1>3. /\ r.ready = s.ready /\ r.delayed = s.delayed /\ r.overflow = s.overflow
      /\ r.terminating = s.terminating /\ r.suspended = s.suspended
      /\ r.pending = s.pending /\ r.events = s.events
      /\ \A u \in Task : r.prio[u] = IF u = t THEN p ELSE s.prio[u]
      /\ r.current = s.current /\ r.schedSusp = s.schedSusp
  BY <1>1 DEF KernelState
<1> HIDE DEF r
<1>4. \A q \in Priority : t \notin ToSet(s.ready[q].items)
  BY <1>1 DEF Placed, IsReady
<1>5. Shape(r)
  BY <1>1, <1>3 DEF Shape
<1>6. \A u \in Task : (Away(r, u) <=> Away(s, u)) /\ (Free(r, u) <=> Free(s, u))
  BY <1>3 DEF Away, Free
<1>7. ~IsReady(r, t) /\ \A u \in Task \ {t} : IsReady(r, u) <=> IsReady(s, u)
  BY <1>3, <1>4 DEF IsReady
<1>8. ASSUME NEW u \in Task PROVE Placed(r, u)
  <2>1. CASE u = t
    BY <1>1, <1>3, <1>4, <1>7, <2>1 DEF Placed
  <2>2. CASE u # t
    BY <1>1, <1>3, <1>6, <1>7, <2>2 DEF Placed
  <2> QED
    BY <2>1, <2>2
<1> QED
  BY <1>2, <1>3, <1>5, <1>6, <1>7, <1>8 DEF Good, Others, r

\* A ready task changes to another ready list, and any other changes its priority.
LEMMA RequeueGood ==
  ASSUME NEW s \in Good, NEW t \in Task, NEW p \in Priority, NEW bit
  PROVE  Moves(s, Requeue(s, t, p, bit))
<1>1. InReadyList(s, t) <=> IsReady(s, t)
  BY ContainsIff DEF InReadyList, IsReady, Good, KernelState
<1>2. CASE IsReady(s, t)
  <2> DEFINE a == LeaveReadyList(s, t, bit)
             b == [a EXCEPT !.prio[t] = p]
             c == prvAddTaskToReadyList(b, t)
  <2>1. a \in Good /\ Others(s, a, t) /\ Away(a, t) /\ Free(a, t)
    BY <1>2, LeaveReadyGood, ReadyIsNotAway
  <2>2. ~IsReady(a, t)
    <3> HIDE DEF a
    <3> QED
      BY <2>1, ReadyIsNotAway
  <2>3. b \in Good /\ Others(a, b, t) /\ Away(b, t) /\ Free(b, t)
    <3> HIDE DEF a
    <3> QED
      BY <2>1, <2>2, SetPrioGood
  <2>4. c \in Good /\ Others(b, c, t) /\ IsReady(c, t)
    <3> HIDE DEF b
    <3> QED
      BY <2>3, AddReadyGood
  <2>5. Requeue(s, t, p, bit) = c
    BY <1>1, <1>2 DEF Requeue
  <2> HIDE DEF a, b, c
  <2>6. Others(s, c, t)
    BY <2>1, <2>3, <2>4 DEF Others
  <2> QED
    BY <2>4, <2>5, <2>6, OthersAndReady
<1>3. CASE ~IsReady(s, t)
  <2> DEFINE r == [s EXCEPT !.prio[t] = p]
  <2>1. r \in Good /\ Others(s, r, t) /\ (Away(r, t) <=> Away(s, t))
    BY <1>3, SetPrioGood
  <2>2. Requeue(s, t, p, bit) = r
    BY <1>1, <1>3 DEF Requeue
  <2> HIDE DEF r
  <2> QED
    BY <1>3, <2>1, <2>2 DEF Others, Moves
<1> QED
  BY <1>2, <1>3

\* A new priority for the event item, where the item may be.
LEMMA ReprioritiseGood ==
  ASSUME NEW s \in Good, NEW t \in Task, NEW p \in Priority
  PROVE  Moves(s, Reprioritise(s, t, p)) /\ SameLists(s, Reprioritise(s, t, p))
<1> DEFINE r == [s EXCEPT !.eventValue[t] = EventValue(p)]
<1>1. EventValue(p) \in 1..MaxPriorities
  BY TaskAssumption DEF EventValue, Priority
<1>2. s \in KernelState
  BY DEF Good
<1>3. r \in KernelState /\ SameLists(s, r) /\ r.current = s.current /\ r.schedSusp = s.schedSusp
  BY <1>1, <1>2 DEF KernelState, SameLists
<1>4. Moves(s, r)
  BY <1>3, SameListsMoves
<1>5. Moves(s, s) /\ SameLists(s, s)
  BY DEF Moves, SameLists
<1> QED
  BY <1>3, <1>4, <1>5 DEF Reprioritise

-----------------------------------------------------------------------------
(***************************************************************************)
(* The scheduler.                                                          *)
(***************************************************************************)
LEMMA CurrentTyped ==
  ASSUME NEW s \in KernelState, NEW t \in Task \cup {NoTask}
  PROVE  LET r == [s EXCEPT !.current = t]
         IN /\ r \in KernelState /\ SameLists(s, r)
            /\ r.current = t /\ r.schedSusp = s.schedSusp
<1> DEFINE r == [s EXCEPT !.current = t]
<1>1. r \in KernelState
  BY DEF KernelState
<1>2. SameLists(s, r)
  BY DEF KernelState, SameLists
<1>3. r.current = t /\ r.schedSusp = s.schedSusp
  BY DEF KernelState
<1> QED
  BY <1>1, <1>2, <1>3

\* The count of the mutexes a task holds.
LEMMA HeldTyped ==
  ASSUME NEW s \in KernelState, NEW t \in Task, NEW n \in Nat
  PROVE  LET r == [s EXCEPT !.held[t] = n]
         IN /\ r \in KernelState /\ SameLists(s, r)
            /\ r.current = s.current /\ r.schedSusp = s.schedSusp
<1> DEFINE held == [s.held EXCEPT ![t] = n]
           v == [s EXCEPT !.held = held]
           r == [s EXCEPT !.held[t] = n]
<1>1. r = v
  OBVIOUS
<1>2. held \in [Task -> Nat]
  <2>1. s.held \in [Task -> Nat]
    <3> HIDE DEF held, v, r
    <3> QED
      BY DEF KernelState
  <2> QED
    BY <2>1
<1> HIDE DEF held, r
<1>3. v \in KernelState
  BY <1>2 DEF KernelState
<1>4. SameLists(s, v)
  BY DEF KernelState, SameLists
<1>5. v.current = s.current /\ v.schedSusp = s.schedSusp
  BY DEF KernelState
<1> HIDE DEF v
<1>6. r \in KernelState /\ SameLists(s, r) /\ r.current = s.current /\ r.schedSusp = s.schedSusp
  BY <1>1, <1>3, <1>4, <1>5
<1> QED
  BY <1>6 DEF r

\* The two counts of the scheduler.
LEMMA CountsTyped ==
  ASSUME NEW s \in KernelState, NEW n \in Nat
  PROVE  [s EXCEPT !.pended = n] \in KernelState /\ [s EXCEPT !.schedSusp = n] \in KernelState
BY DEF KernelState

\* The tasks that sleep, with the time of the first.
LEMMA DelayedTyped ==
  ASSUME NEW s \in KernelState, NEW d \in Seq(Task), NEW n \in Ticks
  PROVE  [s EXCEPT !.delayed = d, !.unblock = n] \in KernelState
BY DEF KernelState

\* The tasks that sleep past the wrap of the tick count.
LEMMA OverflowTyped ==
  ASSUME NEW s \in KernelState, NEW o \in Seq(Task)
  PROVE  [s EXCEPT !.overflow = o] \in KernelState
BY DEF KernelState

\* The ready lists, with the running task.
LEMMA ReadyTyped ==
  ASSUME NEW s \in KernelState, NEW ready \in [Priority -> [items : Seq(Task), index : Nat]],
         NEW t \in Task
  PROVE  [s EXCEPT !.current = t, !.ready = ready] \in KernelState
BY DEF KernelState

\* A time is cut to the width of a tick count.
LEMMA TicksWrap ==
  ASSUME NEW x \in Int
  PROVE  x % TickMod \in Ticks
<1> DEFINE m == TickMod
<1>1. m \in Nat /\ m > 0
  BY TaskAssumption
<1> HIDE DEF m
<1>2. x % m \in 0..(m - 1)
  BY <1>1
<1> QED
  BY <1>2 DEF m, Ticks

\* taskSELECT_HIGHEST_PRIORITY_TASK runs a ready task, or none if there is none.
LEMMA SelectGood ==
  ASSUME NEW s \in Good, s.schedSusp = 0
  PROVE  /\ Moves(s, taskSELECT_HIGHEST_PRIORITY_TASK(s))
         /\ Settled(taskSELECT_HIGHEST_PRIORITY_TASK(s))
<1> DEFINE p == CHOOSE q \in s.top : \A r \in s.top : r <= q
           list == s.ready[p]
           owner == listGET_OWNER_OF_NEXT_ENTRY(list)
           none == [s EXCEPT !.current = NoTask]
           next == [s EXCEPT !.current = owner, !.ready[p] = WalkToNext(@)]
<1>1. s \in KernelState /\ Shape(s) /\ \A u \in Task : Placed(s, u)
  BY DEF Good
<1>2. CASE s.top = {} \/ list.items = <<>>
  <2>1. taskSELECT_HIGHEST_PRIORITY_TASK(s) = none
    BY <1>2 DEF taskSELECT_HIGHEST_PRIORITY_TASK
  <2> HIDE DEF p, list, owner, next
  <2>2. none \in KernelState /\ SameLists(s, none) /\ none.current = NoTask
        /\ none.schedSusp = s.schedSusp
    BY <1>1, CurrentTyped
  <2>3. Settled(none)
    BY <2>2 DEF Settled
  <2> HIDE DEF none
  <2>4. Moves(s, none)
    BY <2>2, <2>3, SameListsGood DEF Moves
  <2> QED
    BY <2>1, <2>3, <2>4
<1>3. CASE s.top # {} /\ list.items # <<>>
  <2>1. taskSELECT_HIGHEST_PRIORITY_TASK(s) = next
    BY <1>3 DEF taskSELECT_HIGHEST_PRIORITY_TASK
  <2>2. p \in Priority
    <3>1. MaxPriorities - 1 \in Nat /\ s.top \in SUBSET (0..(MaxPriorities - 1))
      BY <1>1, TaskAssumption DEF KernelState, Priority
    <3>2. \E q \in s.top : \A r \in s.top : r <= q
      BY <1>3, <3>1, Greatest
    <3>3. p \in s.top
      BY <3>2
    <3> QED
      BY <3>1, <3>3 DEF Priority
  <2> HIDE DEF p
  <2>3. SoundList(list)
    BY <1>1, <2>2 DEF Shape
  <2> DEFINE walked == WalkToNext(list)
  <2>4. SoundList(walked) /\ walked.items = list.items /\ owner \in ToSet(list.items)
    <3> HIDE DEF list
    <3> QED
      BY <1>3, <2>3, WalkInReady
  <2> HIDE DEF owner
  <2>5. owner \in Task
    BY <2>3, <2>4 DEF SoundList, ToSet
  <2>6. next \in KernelState
    <3> DEFINE ready == [s.ready EXCEPT ![p] = walked]
               v == [s EXCEPT !.current = owner, !.ready = ready]
    <3>1. next = v
      OBVIOUS
    <3> HIDE DEF next
    <3>2. walked \in [items : Seq(Task), index : Nat]
      BY <2>4 DEF SoundList
    <3>3. s.ready \in [Priority -> [items : Seq(Task), index : Nat]]
      <4> HIDE DEF ready, v, walked, list
      <4> QED
        BY <1>1 DEF KernelState
    <3> HIDE DEF walked
    <3>4. ready \in [Priority -> [items : Seq(Task), index : Nat]]
      BY <2>2, <3>2, <3>3
    <3> HIDE DEF ready
    <3>5. v \in KernelState
      BY <1>1, <2>5, <3>4, ReadyTyped
    <3> QED
      BY <3>1, <3>5
  <2>7. /\ next.delayed = s.delayed /\ next.overflow = s.overflow
        /\ next.terminating = s.terminating /\ next.suspended = s.suspended
        /\ next.pending = s.pending /\ next.events = s.events /\ next.prio = s.prio
        /\ \A q \in Priority : next.ready[q] = IF q = p THEN walked ELSE s.ready[q]
        /\ next.current = owner /\ next.schedSusp = s.schedSusp
    BY <1>1, <2>2 DEF KernelState
  <2> HIDE DEF next, walked
  <2>8. \A q \in Priority : next.ready[q].items = s.ready[q].items /\ SoundList(next.ready[q])
    BY <1>1, <2>4, <2>7 DEF Shape
  <2> HIDE DEF list
  <2>9. Shape(next)
    BY <1>1, <2>7, <2>8 DEF Shape
  <2>10. \A u \in Task : s.prio[u] \in Priority
    BY <1>1 DEF KernelState
  <2>11. \A u \in Task : /\ Away(next, u) <=> Away(s, u)
                         /\ Free(next, u) <=> Free(s, u)
                         /\ IsReady(next, u) <=> IsReady(s, u)
    BY <2>7, <2>8, <2>10 DEF Away, Free, IsReady
  <2>12. ASSUME NEW u \in Task PROVE Placed(next, u)
    BY <1>1, <2>7, <2>8, <2>11 DEF Placed
  <2>13. next \in Good
    BY <2>6, <2>9, <2>12 DEF Good
  <2>14. IsReady(s, owner)
    BY <1>1, <2>2, <2>4, <2>5 DEF Placed, IsReady, list
  <2>15. Settled(next)
    BY <2>5, <2>7, <2>11, <2>14 DEF Settled
  <2> QED
    BY <2>1, <2>7, <2>11, <2>13, <2>15 DEF Moves
<1> QED
  BY <1>2, <1>3

\* A context switch, unless the scheduler is suspended.
LEMMA SwitchGood ==
  ASSUME NEW s \in Good
  PROVE  /\ Moves(s, vTaskSwitchContext(s))
         /\ s.schedSusp = 0 => Settled(vTaskSwitchContext(s))
<1>1. s \in KernelState
  BY DEF Good
<1>2. CASE s.schedSusp # 0
  <2> DEFINE r == [s EXCEPT !.yieldPending = TRUE]
  <2>1. r \in KernelState /\ SameLists(s, r) /\ r.current = s.current /\ r.schedSusp = s.schedSusp
    BY <1>1 DEF KernelState, SameLists
  <2>2. Moves(s, r)
    BY <2>1, SameListsMoves
  <2> QED
    BY <1>2, <2>2 DEF vTaskSwitchContext
<1>3. CASE s.schedSusp = 0
  <2> DEFINE r == [s EXCEPT !.yieldPending = FALSE]
             v == taskSELECT_HIGHEST_PRIORITY_TASK(r)
  <2>1. r \in KernelState /\ SameLists(s, r) /\ r.current = s.current /\ r.schedSusp = s.schedSusp
    BY <1>1 DEF KernelState, SameLists
  <2>2. Moves(s, r) /\ r \in Good
    BY <2>1, SameListsMoves DEF Moves
  <2>3. Moves(r, v) /\ Settled(v) /\ v \in Good
    <3> HIDE DEF r
    <3> QED
      BY <1>3, <2>1, <2>2, SelectGood DEF Moves
  <2>4. vTaskSwitchContext(s) = v
    BY <1>3 DEF vTaskSwitchContext
  <2> HIDE DEF r, v
  <2> QED
    BY <2>2, <2>3, <2>4, MovesTransitive
<1> QED
  BY <1>2, <1>3

\* A switch that is made only if it is due.
LEMMA YieldIfGood ==
  ASSUME NEW s \in Good, NEW b
  PROVE  Moves(s, YieldIf(s, b))
BY SwitchGood DEF YieldIf, Moves

\* prvResetNextTaskUnblockTime moves nothing.
LEMMA ResetUnblockGood ==
  ASSUME NEW s \in Good
  PROVE  /\ Moves(s, prvResetNextTaskUnblockTime(s))
         /\ SameLists(s, prvResetNextTaskUnblockTime(s))
         /\ prvResetNextTaskUnblockTime(s).current = s.current
<1> DEFINE r == prvResetNextTaskUnblockTime(s)
<1>1. s \in KernelState /\ portMAX_DELAY \in Ticks
  BY TaskAssumption DEF Good, portMAX_DELAY, Ticks
<1>2. s.delayed # <<>> => Head(s.delayed) \in Task
  BY <1>1 DEF KernelState
<1>3. r \in KernelState /\ SameLists(s, r) /\ r.current = s.current /\ r.schedSusp = s.schedSusp
  BY <1>1, <1>2 DEF KernelState, SameLists, prvResetNextTaskUnblockTime
<1> HIDE DEF r
<1> QED
  BY <1>3, SameListsMoves DEF r

\* taskSWITCH_DELAYED_LISTS: each sleeping task stays in one of the two lists.
LEMMA SwitchListsGood ==
  ASSUME NEW s \in Good
  PROVE  Moves(s, taskSWITCH_DELAYED_LISTS(s))
<1> DEFINE r == [s EXCEPT !.delayed = s.overflow, !.overflow = s.delayed, !.overflows = @ + 1]
           v == prvResetNextTaskUnblockTime(r)
<1>1. s \in KernelState /\ Shape(s) /\ \A u \in Task : Placed(s, u)
  BY DEF Good
<1>2. r \in KernelState
  <2> DEFINE n == s.overflows + 1
             d == s.overflow
             o == s.delayed
  <2>1. n \in Nat /\ d \in Seq(Task) /\ o \in Seq(Task)
    BY SMTT(60), <1>1 DEF KernelState
  <2>2. r = [s EXCEPT !.delayed = d, !.overflow = o, !.overflows = n]
    OBVIOUS
  <2> HIDE DEF n, d, o, r, v
  <2> QED
    BY <1>1, <2>1, <2>2 DEF KernelState
<1>3. /\ r.delayed = s.overflow /\ r.overflow = s.delayed /\ r.ready = s.ready
      /\ r.terminating = s.terminating /\ r.suspended = s.suspended
      /\ r.pending = s.pending /\ r.events = s.events /\ r.prio = s.prio
      /\ r.current = s.current /\ r.schedSusp = s.schedSusp
  BY <1>1 DEF KernelState
<1> HIDE DEF r
<1>4. Shape(r)
  BY <1>1, <1>3 DEF Shape
<1>5. \A u \in Task : /\ Away(r, u) <=> Away(s, u)
                      /\ Free(r, u) <=> Free(s, u)
                      /\ IsReady(r, u) <=> IsReady(s, u)
  BY <1>3 DEF Away, Free, IsReady
<1>6. ASSUME NEW u \in Task PROVE Placed(r, u)
  BY <1>1, <1>3, <1>5 DEF Placed
<1>7. r \in Good
  BY <1>2, <1>4, <1>6 DEF Good
<1>8. Moves(s, r)
  BY <1>3, <1>5, <1>7 DEF Moves
<1>9. Moves(r, v) /\ v \in Good
  BY <1>7, ResetUnblockGood DEF Moves
<1>10. taskSWITCH_DELAYED_LISTS(s) = v
  BY DEF taskSWITCH_DELAYED_LISTS, r
<1> HIDE DEF v
<1> QED
  BY <1>7, <1>8, <1>9, <1>10, MovesTransitive

-----------------------------------------------------------------------------
(***************************************************************************)
(* The tick, and what is done when the scheduler is resumed.               *)
(***************************************************************************)
MovedFrom(s) == {r \in Good : Moves(s, r)}

\* Moves compose, in the form the loops use.
LEMMA MovesOn ==
  ASSUME NEW s \in Good, NEW r \in MovedFrom(s), NEW v, Moves(r, v)
  PROVE  v \in MovedFrom(s)
BY MovesTransitive DEF MovedFrom, Moves

\* Steps that all move make a chain of states, each of which the first has
\* moved to.
LEMMA StepsMove ==
  ASSUME NEW s \in Good, NEW n \in Nat, NEW step,
         \A r \in Good : \A i \in 1..n : Moves(r, step[<<r, i>>])
  PROVE  \E a : IsChain(a, step, s, n) /\ \A i \in 0..n : a[i] \in MovedFrom(s)
<1> DEFINE P == [i \in 0..n |-> MovedFrom(s)]
<1>1. \A i \in 0..n : P[i] = MovedFrom(s)
  OBVIOUS
<1> HIDE DEF P
<1>2. 0 \in 0..n /\ \A i \in 1..n : i \in 0..n /\ i - 1 \in 0..n
  OBVIOUS
<1>3. s \in P[0]
  BY <1>1, <1>2 DEF MovedFrom, Moves
<1>4. StepsWithin(step, n, P)
  <2> SUFFICES ASSUME NEW i \in 1..n, NEW r \in MovedFrom(s) PROVE step[<<r, i>>] \in MovedFrom(s)
    BY <1>1, <1>2 DEF StepsWithin
  <2>1. r \in Good
    BY DEF MovedFrom
  <2>2. Moves(r, step[<<r, i>>])
    BY <2>1
  <2> QED
    BY <2>2, MovesOn
<1>5. PICK a : IsChain(a, step, s, n) /\ IsWithin(a, n, P)
  BY <1>3, <1>4, ChainExists
<1> QED
  BY <1>1, <1>5 DEF IsWithin

\* So each of any such states is one of them.
LEMMA MovedInTurn ==
  ASSUME NEW s \in Good, NEW n \in Nat, NEW a, a[0] = s,
         \A i \in 1..n : \A r \in Good : r = a[i - 1] => Moves(r, a[i])
  PROVE  \A m \in 0..n : a[m] \in MovedFrom(s)
<1> SUFFICES ASSUME NEW m \in 0..n PROVE a[m] \in MovedFrom(s)
  OBVIOUS
<1> DEFINE P == [i \in 0..m |-> MovedFrom(s)]
<1>1. \A i \in 0..m : P[i] = MovedFrom(s)
  OBVIOUS
<1> HIDE DEF P
<1>2. /\ m \in Nat /\ 0 \in 0..m /\ m \in 0..m
      /\ \A i \in 1..m : i \in 1..n /\ i \in 0..m /\ i - 1 \in 0..m
  OBVIOUS
<1>3. a[0] \in P[0]
  BY <1>1, <1>2 DEF MovedFrom, Moves
<1>4. ASSUME NEW i \in 1..m, a[i - 1] \in P[i - 1] PROVE a[i] \in P[i]
  <2> DEFINE r == a[i - 1]
  <2>1. r \in MovedFrom(s) /\ r \in Good
    BY <1>1, <1>2, <1>4 DEF MovedFrom
  <2>2. Moves(r, a[i])
    BY <1>2, <2>1
  <2> HIDE DEF r
  <2> QED
    BY <1>1, <1>2, <2>1, <2>2, MovesOn
<1> QED
  BY <1>1, <1>2, <1>3, <1>4, ChainIn

\* The states UnblockAll goes through.
LEMMA UnblockAllSteps ==
  ASSUME NEW s \in Good, NEW tasks \in Seq(Task)
  PROVE  \E a : /\ a[0] = s /\ UnblockAll(s, tasks) = a[Len(tasks)]
                /\ \A i \in 1..Len(tasks) : /\ tasks[i] \in Task /\ a[i - 1] \in Good
                                            /\ a[i] = Unblock(a[i - 1], tasks[i])
<1> DEFINE n == Len(tasks)
           step == [x \in Good \X (1..n) |-> Unblock(x[1], tasks[x[2]])]
           Is(a) == a = [i \in 0..n |-> IF i = 0 THEN s ELSE Unblock(a[i - 1], tasks[i])]
           after == CHOOSE a : Is(a)
<1>1. n \in Nat /\ \A i \in 1..n : tasks[i] \in Task /\ i \in 0..n /\ i - 1 \in 0..n
  OBVIOUS
<1>2. UnblockAll(s, tasks) = after[n]
  BY DEF UnblockAll, InTurn
<1> HIDE DEF n, after
<1>3. \A i \in 1..n : \A r \in Good : step[<<r, i>>] = Unblock(r, tasks[i])
  OBVIOUS
<1> HIDE DEF step, Is
<1>4. \A r \in Good : \A i \in 1..n : Moves(r, Unblock(r, tasks[i]))
  BY <1>1, UnblockGood
<1>5. PICK a : IsChain(a, step, s, n) /\ \A i \in 0..n : a[i] \in MovedFrom(s)
  BY <1>1, <1>3, <1>4, StepsMove
<1>6. Is(a)
  <2>1. \A i \in 1..n : step[<<a[i - 1], i>>] = Unblock(a[i - 1], tasks[i])
    BY <1>1, <1>3, <1>5 DEF MovedFrom
  <2>2. \A i \in 0..n : (IF i = 0 THEN s ELSE step[<<a[i - 1], i>>])
                        = IF i = 0 THEN s ELSE Unblock(a[i - 1], tasks[i])
    BY <1>1, <2>1
  <2> QED
    BY <1>5, <2>2 DEF IsChain, Is
<1>7. Is(after)
  BY <1>6 DEF after
<1>8. after[0] = s /\ \A i \in 1..n : after[i] = Unblock(after[i - 1], tasks[i])
  BY <1>1, <1>7 DEF Is
<1>9. \A i \in 0..n : after[i] \in MovedFrom(s)
  BY <1>1, <1>4, <1>8, MovedInTurn
<1> QED
  BY <1>1, <1>2, <1>8, <1>9 DEF MovedFrom, n

\* Any sequence of tasks can be readied, one after the other.
LEMMA UnblockAllGood ==
  ASSUME NEW s \in Good, NEW tasks \in Seq(Task)
  PROVE  Moves(s, UnblockAll(s, tasks))
<1> DEFINE m == Len(tasks)
<1>1. m \in Nat /\ m \in 0..m
  OBVIOUS
<1>2. PICK a : /\ a[0] = s /\ UnblockAll(s, tasks) = a[m]
               /\ \A i \in 1..m : /\ tasks[i] \in Task /\ a[i - 1] \in Good
                                  /\ a[i] = Unblock(a[i - 1], tasks[i])
  BY UnblockAllSteps
<1> HIDE DEF m
<1>3. \A i \in 1..m : Moves(a[i - 1], a[i])
  BY <1>2, UnblockGood
<1>4. a[m] \in MovedFrom(s)
  BY <1>1, <1>2, <1>3, MovedInTurn
<1> QED
  BY <1>2, <1>4 DEF MovedFrom

\* The tasks whose time has come are a part of the delayed list.
LEMMA DueTasksTyped ==
  ASSUME NEW s \in Good
  PROVE  DueTasks(s) \in Seq(Task)
<1> DEFINE d == s.delayed
           Due == {i \in DOMAIN d : \A j \in 1..i : s.wake[d[j]] <= s.tick}
           n == Cardinality(Due)
<1>1. d \in Seq(Task) /\ DOMAIN d = 1..Len(d) /\ Len(d) \in Nat
  BY DEF Good, KernelState
<1>2. DueTasks(s) = SubSeq(d, 1, n)
  BY DEF DueTasks
<1>3. n \in 0..Len(d)
  <2>1. IsFiniteSet(1..Len(d)) /\ Cardinality(1..Len(d)) = Len(d)
    BY <1>1, FS_Interval
  <2>2. Due \subseteq 1..Len(d)
    BY <1>1
  <2> HIDE DEF d, Due
  <2>3. n \in Nat /\ n <= Cardinality(1..Len(d))
    BY <2>1, <2>2, FS_Subset, FS_CardinalityType
  <2> QED
    BY <1>1, <2>1, <2>3
<1> HIDE DEF d, n
<1> QED
  BY <1>1, <1>2, <1>3, PrefixOf

\* The loop of xTaskIncrementTick over the delayed list.
LEMMA UnblockDueGood ==
  ASSUME NEW s \in Good
  PROVE  Moves(s, UnblockDueTasks(s))
<1> DEFINE r == UnblockAll(s, DueTasks(s))
           v == prvResetNextTaskUnblockTime(r)
<1>1. Moves(s, r) /\ r \in Good
  BY DueTasksTyped, UnblockAllGood DEF Moves
<1>2. Moves(r, v) /\ v \in Good
  <2> HIDE DEF r
  <2> QED
    BY <1>1, ResetUnblockGood DEF Moves
<1>3. Moves(s, s)
  BY DEF Moves
<1>4. UnblockDueTasks(s) = v \/ UnblockDueTasks(s) = s
  BY DEF UnblockDueTasks
<1> HIDE DEF r, v
<1> QED
  BY <1>1, <1>2, <1>3, <1>4, MovesTransitive

\* The tick.
LEMMA IncrementTickGood ==
  ASSUME NEW s \in Good
  PROVE  Moves(s, xTaskIncrementTick(s).k)
<1>1. s \in KernelState
  BY DEF Good
<1>2. CASE s.schedSusp # 0
  <2> DEFINE r == [s EXCEPT !.pended = @ + 1]
  <2>1. r \in KernelState /\ SameLists(s, r) /\ r.current = s.current /\ r.schedSusp = s.schedSusp
    <3>1. s.pended + 1 \in Nat
      BY SMTT(60), <1>1 DEF KernelState
    <3>2. r \in KernelState
      BY <1>1, <3>1, CountsTyped
    <3> QED
      BY <1>1, <3>2 DEF KernelState, SameLists
  <2>2. Moves(s, r)
    BY <2>1, SameListsMoves
  <2>3. xTaskIncrementTick(s).k = r
    BY <1>2 DEF xTaskIncrementTick, Answer
  <2> QED
    BY <2>1, <2>2, <2>3
<1>3. CASE s.schedSusp = 0
  <2> DEFINE ticked == [s EXCEPT !.tick = (@ + 1) % TickMod]
             turned == IF ticked.tick = 0 THEN taskSWITCH_DELAYED_LISTS(ticked) ELSE ticked
             after == UnblockDueTasks(turned)
  <2>1. (s.tick + 1) % TickMod \in Ticks
    <3>1. s.tick + 1 \in Int
      BY <1>1 DEF KernelState, Ticks
    <3> QED
      BY <3>1, TicksWrap
  <2>2. /\ ticked \in KernelState /\ SameLists(s, ticked) /\ ticked.current = s.current
        /\ ticked.schedSusp = s.schedSusp
    BY <1>1, <2>1 DEF KernelState, SameLists
  <2>3. Moves(s, ticked) /\ ticked \in Good
    BY <2>2, SameListsMoves DEF Moves
  <2> HIDE DEF ticked
  <2>4. Moves(ticked, turned) /\ turned \in Good
    BY <2>3, SwitchListsGood DEF Moves
  <2> HIDE DEF turned
  <2>5. Moves(turned, after) /\ after \in Good
    BY <2>4, UnblockDueGood DEF Moves
  <2>6. xTaskIncrementTick(s).k = after
    BY <1>3 DEF xTaskIncrementTick, Answer, after, turned, ticked
  <2> HIDE DEF after
  <2> QED
    BY <2>3, <2>4, <2>5, <2>6, MovesTransitive
<1> QED
  BY <1>2, <1>3

\* A task that was readied while the scheduler was suspended.
LEMMA FromPendingGood ==
  ASSUME NEW s \in Good, NEW t \in Task
  PROVE  Moves(s, FromPending(s, t))
<1> DEFINE r == Unblock(s, t)
           v == [r EXCEPT !.yieldPending = TRUE]
<1>1. Moves(s, r) /\ r \in Good
  BY UnblockGood DEF Moves
<1> HIDE DEF r
<1>2. r \in KernelState
  BY <1>1 DEF Good
<1>3. v \in KernelState /\ SameLists(r, v) /\ v.current = r.current /\ v.schedSusp = r.schedSusp
  BY <1>2 DEF KernelState, SameLists
<1>4. Moves(r, v) /\ v \in Good
  BY <1>1, <1>3, SameListsMoves DEF Moves
<1>5. FromPending(s, t) = r \/ FromPending(s, t) = v
  BY DEF FromPending, r
<1> HIDE DEF v
<1> QED
  BY <1>1, <1>4, <1>5, MovesTransitive

\* The states UnblockPending goes through.
LEMMA UnblockPendingSteps ==
  ASSUME NEW s \in Good, NEW tasks \in Seq(Task)
  PROVE  \E a : /\ a[0] = s /\ UnblockPending(s, tasks) = a[Len(tasks)]
                /\ \A i \in 1..Len(tasks) : /\ tasks[i] \in Task /\ a[i - 1] \in Good
                                            /\ a[i] = FromPending(a[i - 1], tasks[i])
<1> DEFINE n == Len(tasks)
           step == [x \in Good \X (1..n) |-> FromPending(x[1], tasks[x[2]])]
           Is(a) == a = [i \in 0..n |-> IF i = 0 THEN s ELSE FromPending(a[i - 1], tasks[i])]
           after == CHOOSE a : Is(a)
<1>1. n \in Nat /\ \A i \in 1..n : tasks[i] \in Task /\ i \in 0..n /\ i - 1 \in 0..n
  OBVIOUS
<1>2. UnblockPending(s, tasks) = after[n]
  BY DEF UnblockPending, InTurn
<1> HIDE DEF n, after
<1>3. \A i \in 1..n : \A r \in Good : step[<<r, i>>] = FromPending(r, tasks[i])
  OBVIOUS
<1> HIDE DEF step, Is
<1>4. \A r \in Good : \A i \in 1..n : Moves(r, FromPending(r, tasks[i]))
  BY <1>1, FromPendingGood
<1>5. PICK a : IsChain(a, step, s, n) /\ \A i \in 0..n : a[i] \in MovedFrom(s)
  BY <1>1, <1>3, <1>4, StepsMove
<1>6. Is(a)
  <2>1. \A i \in 1..n : step[<<a[i - 1], i>>] = FromPending(a[i - 1], tasks[i])
    BY <1>1, <1>3, <1>5 DEF MovedFrom
  <2>2. \A i \in 0..n : (IF i = 0 THEN s ELSE step[<<a[i - 1], i>>])
                        = IF i = 0 THEN s ELSE FromPending(a[i - 1], tasks[i])
    BY <1>1, <2>1
  <2> QED
    BY <1>5, <2>2 DEF IsChain, Is
<1>7. Is(after)
  BY <1>6 DEF after
<1>8. after[0] = s /\ \A i \in 1..n : after[i] = FromPending(after[i - 1], tasks[i])
  BY <1>1, <1>7 DEF Is
<1>9. \A i \in 0..n : after[i] \in MovedFrom(s)
  BY <1>1, <1>4, <1>8, MovedInTurn
<1> QED
  BY <1>1, <1>2, <1>8, <1>9 DEF MovedFrom, n

\* The loop of xTaskResumeAll over the pending list.
LEMMA UnblockPendingGood ==
  ASSUME NEW s \in Good, NEW tasks \in Seq(Task)
  PROVE  Moves(s, UnblockPending(s, tasks))
<1> DEFINE m == Len(tasks)
<1>1. m \in Nat /\ m \in 0..m
  OBVIOUS
<1>2. PICK a : /\ a[0] = s /\ UnblockPending(s, tasks) = a[m]
               /\ \A i \in 1..m : /\ tasks[i] \in Task /\ a[i - 1] \in Good
                                  /\ a[i] = FromPending(a[i - 1], tasks[i])
  BY UnblockPendingSteps
<1> HIDE DEF m
<1>3. \A i \in 1..m : Moves(a[i - 1], a[i])
  BY <1>2, FromPendingGood
<1>4. a[m] \in MovedFrom(s)
  BY <1>1, <1>2, <1>3, MovedInTurn
<1> QED
  BY <1>2, <1>4 DEF MovedFrom

\* One of the ticks that came while the scheduler was suspended.
LEMMA PendedTickGood ==
  ASSUME NEW s \in Good, NEW i
  PROVE  Moves(s, PendedTick(s, i))
<1> DEFINE ticked == xTaskIncrementTick(s)
           r == ticked.k
           v == [r EXCEPT !.yieldPending = TRUE]
<1>1. Moves(s, r) /\ r \in Good
  BY IncrementTickGood DEF Moves
<1>2. PendedTick(s, i) = r \/ PendedTick(s, i) = v
  BY DEF PendedTick
<1> HIDE DEF ticked, r
<1>3. r \in KernelState
  BY <1>1 DEF Good
<1>4. v \in KernelState /\ SameLists(r, v) /\ v.current = r.current /\ v.schedSusp = r.schedSusp
  BY <1>3 DEF KernelState, SameLists
<1>5. Moves(r, v) /\ v \in Good
  BY <1>1, <1>4, SameListsMoves DEF Moves
<1> HIDE DEF v
<1> QED
  BY <1>1, <1>2, <1>5, MovesTransitive

\* The states the pended ticks go through.
LEMMA PendedTicksSteps ==
  ASSUME NEW s \in Good, NEW n \in Nat
  PROVE  \E a : /\ a[0] = s /\ InTurn(PendedTick, s, n) = a[n]
                /\ \A i \in 1..n : /\ a[i - 1] \in Good
                                   /\ a[i] = PendedTick(a[i - 1], i)
<1> DEFINE step == [x \in Good \X (1..n) |-> PendedTick(x[1], x[2])]
           Is(a) == a = [i \in 0..n |-> IF i = 0 THEN s ELSE PendedTick(a[i - 1], i)]
           after == CHOOSE a : Is(a)
<1>1. n \in Nat /\ \A i \in 1..n : i \in 0..n /\ i - 1 \in 0..n
  OBVIOUS
<1>2. InTurn(PendedTick, s, n) = after[n]
  BY DEF InTurn
<1> HIDE DEF after
<1>3. \A i \in 1..n : \A r \in Good : step[<<r, i>>] = PendedTick(r, i)
  OBVIOUS
<1> HIDE DEF step, Is
<1>4. \A r \in Good : \A i \in 1..n : Moves(r, PendedTick(r, i))
  BY <1>1, PendedTickGood
<1>5. PICK a : IsChain(a, step, s, n) /\ \A i \in 0..n : a[i] \in MovedFrom(s)
  BY <1>1, <1>3, <1>4, StepsMove
<1>6. Is(a)
  <2>1. \A i \in 1..n : step[<<a[i - 1], i>>] = PendedTick(a[i - 1], i)
    BY <1>1, <1>3, <1>5 DEF MovedFrom
  <2>2. \A i \in 0..n : (IF i = 0 THEN s ELSE step[<<a[i - 1], i>>])
                        = IF i = 0 THEN s ELSE PendedTick(a[i - 1], i)
    BY <1>1, <2>1
  <2> QED
    BY <1>5, <2>2 DEF IsChain, Is
<1>7. Is(after)
  BY <1>6 DEF after
<1>8. after[0] = s /\ \A i \in 1..n : after[i] = PendedTick(after[i - 1], i)
  BY <1>1, <1>7 DEF Is
<1>9. \A i \in 0..n : after[i] \in MovedFrom(s)
  BY <1>1, <1>4, <1>8, MovedInTurn
<1> QED
  BY <1>1, <1>2, <1>8, <1>9 DEF MovedFrom

\* The loop of xTaskResumeAll over those ticks.
LEMMA PendedTicksGood ==
  ASSUME NEW s \in Good, NEW n \in Nat
  PROVE  Moves(s, InTurn(PendedTick, s, n))
<1> DEFINE m == n
<1>1. m \in Nat /\ m \in 0..m
  OBVIOUS
<1>2. PICK a : /\ a[0] = s /\ InTurn(PendedTick, s, n) = a[m]
               /\ \A i \in 1..m : /\ a[i - 1] \in Good
                                  /\ a[i] = PendedTick(a[i - 1], i)
  BY PendedTicksSteps
<1> HIDE DEF m
<1>3. \A i \in 1..m : Moves(a[i - 1], a[i])
  BY <1>2, PendedTickGood
<1>4. a[m] \in MovedFrom(s)
  BY <1>1, <1>2, <1>3, MovedInTurn
<1> QED
  BY <1>2, <1>4 DEF MovedFrom

\* The scheduler is resumed for the last time.
LEMMA ResumeAllGood ==
  ASSUME NEW s \in Good, s.schedSusp = 1
  PROVE  LET r == xTaskResumeAll(s)
         IN /\ Moves([s EXCEPT !.schedSusp = @ - 1], r.k) /\ r.k.schedSusp = 0
            /\ r.yes => Settled(r.k)
<1> DEFINE resumed == [s EXCEPT !.schedSusp = @ - 1]
           woken == UnblockPending(resumed, s.pending)
           moved == IF s.pending = <<>> THEN resumed ELSE prvResetNextTaskUnblockTime(woken)
           run == InTurn(PendedTick, moved, s.pended)
           ticked == [run EXCEPT !.pended = 0]
           switched == vTaskSwitchContext(ticked)
<1>1. s \in KernelState /\ s.pending \in Seq(Task) /\ s.pended \in Nat
  BY DEF Good, KernelState
<1>2. resumed \in KernelState /\ SameLists(s, resumed) /\ resumed.schedSusp = 0
  <2>1. s.schedSusp - 1 = 0 /\ 0 \in Nat
    OBVIOUS
  <2>2. resumed = [s EXCEPT !.schedSusp = 0]
    BY <2>1
  <2> HIDE DEF resumed, woken, moved, run, ticked, switched
  <2>3. resumed \in KernelState
    BY <1>1, <2>1, <2>2, CountsTyped
  <2> QED
    BY <1>1, <2>2, <2>3 DEF KernelState, SameLists
<1>3. resumed \in Good
  BY <1>2, SameListsGood
<1>4. xTaskResumeAll(s) = IF ticked.yieldPending THEN [k |-> switched, yes |-> TRUE]
                          ELSE [k |-> ticked, yes |-> FALSE]
  BY <1>2 DEF xTaskResumeAll, Answer
<1> HIDE DEF resumed
<1>5. Moves(resumed, woken) /\ woken \in Good
  BY <1>1, <1>3, UnblockPendingGood DEF Moves
<1> HIDE DEF woken
<1>6. Moves(resumed, moved) /\ moved \in Good
  <2>1. Moves(woken, prvResetNextTaskUnblockTime(woken)) /\ prvResetNextTaskUnblockTime(woken) \in Good
    BY <1>5, ResetUnblockGood DEF Moves
  <2>2. Moves(resumed, prvResetNextTaskUnblockTime(woken))
    BY <1>3, <1>5, <2>1, MovesTransitive
  <2>3. Moves(resumed, resumed)
    BY <1>3 DEF Moves
  <2> QED
    BY <1>3, <2>1, <2>2, <2>3
<1> HIDE DEF moved
<1>7. Moves(moved, run) /\ run \in Good
  BY <1>1, <1>6, PendedTicksGood DEF Moves
<1> HIDE DEF run
<1>8. Moves(run, ticked) /\ ticked \in Good
  <2>1. run \in KernelState
    BY <1>7 DEF Good
  <2>2. /\ ticked \in KernelState /\ SameLists(run, ticked) /\ ticked.current = run.current
        /\ ticked.schedSusp = run.schedSusp
    BY <2>1 DEF KernelState, SameLists
  <2> QED
    BY <1>7, <2>2, SameListsMoves DEF Moves
<1> HIDE DEF ticked
<1>9. Moves(resumed, run)
  BY <1>3, <1>6, <1>7, MovesTransitive
<1>10. Moves(resumed, ticked)
  BY <1>3, <1>7, <1>8, <1>9, MovesTransitive
<1>11. Moves(ticked, switched) /\ switched \in Good /\ (ticked.schedSusp = 0 => Settled(switched))
  BY <1>8, SwitchGood DEF Moves
<1> HIDE DEF switched
<1>12. Moves(resumed, switched)
  BY <1>3, <1>8, <1>10, <1>11, MovesTransitive
<1>13. ticked.schedSusp = 0 /\ switched.schedSusp = 0
  BY <1>2, <1>10, <1>12 DEF Moves
<1> QED
  BY <1>4, <1>10, <1>11, <1>12, <1>13 DEF resumed

-----------------------------------------------------------------------------
(***************************************************************************)
(* Sleeping: the only functions after which the running task is not ready. *)
(***************************************************************************)
\* r is s with the task t, which was in no list, in one of those of the tasks
\* that sleep.
Asleep(s, r, t) ==
  /\ r.ready = s.ready /\ r.prio = s.prio /\ r.terminating = s.terminating
  /\ r.pending = s.pending /\ r.events = s.events
  /\ r.current = s.current /\ r.schedSusp = s.schedSusp
  /\ IsInjective(r.delayed) /\ IsInjective(r.overflow)
  /\ \/ /\ ToSet(r.delayed) = ToSet(s.delayed) \cup {t}
        /\ r.overflow = s.overflow /\ r.suspended = s.suspended
     \/ /\ ToSet(r.overflow) = ToSet(s.overflow) \cup {t}
        /\ r.delayed = s.delayed /\ r.suspended = s.suspended
     \/ /\ r.suspended = s.suspended \cup {t}
        /\ r.delayed = s.delayed /\ r.overflow = s.overflow

\* A task that was away and is put into the delayed, overflow or suspended list.
LEMMA AsleepGood ==
  ASSUME NEW s \in Good, NEW t \in Task, Away(s, t), NEW r \in KernelState, Asleep(s, r, t)
  PROVE  /\ r \in Good /\ Others(s, r, t) /\ ~Away(r, t) /\ ~IsReady(r, t)
         /\ Free(r, t) <=> Free(s, t)
<1>1. s \in KernelState /\ Shape(s) /\ \A u \in Task : s.prio[u] \in Priority
  BY DEF Good, KernelState
<1>2. Shape(r)
  BY <1>1 DEF Shape, Asleep
<1>3. ~Away(r, t) /\ \A u \in Task \ {t} : Away(r, u) <=> Away(s, u)
  BY DEF Asleep, Away
<1>4. \A u \in Task : (Free(r, u) <=> Free(s, u)) /\ (IsReady(r, u) <=> IsReady(s, u))
  BY DEF Asleep, Free, IsReady
<1>5. ~IsReady(s, t)
  BY <1>1 DEF Away, IsReady
<1>6. ASSUME NEW u \in Task PROVE Placed(r, u)
  <2>1. Placed(s, u)
    BY DEF Good
  <2>2. CASE u = t
    <3>1. /\ \A p \in Priority : t \notin ToSet(r.ready[p].items)
          /\ t \notin ToSet(r.terminating)
          /\ t \in ToSet(r.delayed) => t \notin ToSet(r.overflow) /\ t \notin r.suspended
          /\ t \in ToSet(r.overflow) => t \notin r.suspended
      BY DEF Asleep, Away
    <3>2. r.pending = s.pending /\ r.events = s.events
      BY DEF Asleep
    <3> QED
      BY <1>4, <1>5, <2>1, <2>2, <3>1, <3>2 DEF Placed
  <2>3. CASE u # t
    <3>1. /\ u \in ToSet(r.delayed) <=> u \in ToSet(s.delayed)
          /\ u \in ToSet(r.overflow) <=> u \in ToSet(s.overflow)
          /\ u \in r.suspended <=> u \in s.suspended
      BY <2>3 DEF Asleep
    <3>2. /\ r.ready = s.ready /\ r.prio = s.prio /\ r.terminating = s.terminating
          /\ r.pending = s.pending /\ r.events = s.events
      BY DEF Asleep
    <3> QED
      BY <1>4, <2>1, <3>1, <3>2 DEF Placed
  <2> QED
    BY <2>2, <2>3
<1> QED
  BY <1>2, <1>3, <1>4, <1>5, <1>6 DEF Good, Others, Asleep

\* What prvAddCurrentTaskToDelayedList and vTaskPlaceOnEventList make of s.
SleepsIn(s, r, t) ==
  /\ r \in Good /\ Others(s, r, t) /\ ~Away(r, t) /\ ~IsReady(r, t)

\* prvAddCurrentTaskToDelayedList puts the running task to sleep, and only it.
LEMMA AddToDelayedGood ==
  ASSUME NEW s \in Good, s.current \in Task, NEW ticks \in Ticks, NEW forever
  PROVE  LET r == prvAddCurrentTaskToDelayedList(s, ticks, forever)
         IN /\ SleepsIn(s, r, s.current) /\ (Free(r, s.current) <=> Free(s, s.current))
            /\ r.events = s.events
<1> DEFINE t == s.current
           unset == [s EXCEPT !.aborted[t] = FALSE]
           left == LeaveReadyList(unset, t, s.prio[t])
           wake == (s.tick + ticks) % TickMod
           set == [left EXCEPT !.wake[t] = wake]
           never == [left EXCEPT !.suspended = @ \cup {t}]
           later == [set EXCEPT !.overflow = vListInsert(@, t, set.wake)]
           soon == [set EXCEPT !.delayed = vListInsert(@, t, set.wake),
                               !.unblock = IF wake < @ THEN wake ELSE @]
           r == prvAddCurrentTaskToDelayedList(s, ticks, forever)
<1>1. t \in Task /\ s \in KernelState
  BY DEF Good
<1>2. r = never \/ r = later \/ r = soon
  BY DEF prvAddCurrentTaskToDelayedList
<1> HIDE DEF r
<1>3. wake \in Ticks
  <2>1. s.tick + ticks \in Int
    BY <1>1 DEF KernelState, Ticks
  <2> QED
    BY <2>1, TicksWrap
<1> HIDE DEF wake
<1>4. /\ unset \in KernelState /\ SameLists(s, unset) /\ unset.current = s.current
      /\ unset.schedSusp = s.schedSusp /\ unset.prio = s.prio
  <2> HIDE DEF t, left, never, later, soon, set
  <2>1. unset \in KernelState
    BY <1>1 DEF KernelState
  <2> QED
    BY <1>1, <2>1 DEF KernelState, SameLists
<1>5. /\ unset \in Good
      /\ \A u \in Task : /\ Away(unset, u) <=> Away(s, u)
                         /\ Free(unset, u) <=> Free(s, u)
                         /\ IsReady(unset, u) <=> IsReady(s, u)
  BY <1>4, SameListsGood
<1> HIDE DEF unset
<1>6. /\ left \in Good /\ Others(unset, left, t) /\ Away(left, t)
      /\ (Free(left, t) <=> Free(unset, t)) /\ left.events = unset.events
  BY <1>1, <1>5, LeaveReadyGood
<1>7. Others(s, left, t) /\ left.events = s.events
  BY <1>4, <1>5, <1>6 DEF Others, SameLists
<1> HIDE DEF left, t
<1>8. left \in KernelState /\ Shape(left)
  BY <1>6 DEF Good
<1>9. /\ set \in KernelState /\ SameLists(left, set) /\ set.current = left.current
      /\ set.schedSusp = left.schedSusp
  <2> HIDE DEF never, later, soon
  <2>1. set \in KernelState
    BY <1>1, <1>3, <1>8 DEF KernelState
  <2> QED
    BY <1>8, <2>1 DEF KernelState, SameLists
<1>10. /\ set \in Good
       /\ \A u \in Task : /\ Away(set, u) <=> Away(left, u)
                          /\ Free(set, u) <=> Free(left, u)
                          /\ IsReady(set, u) <=> IsReady(left, u)
  BY <1>6, <1>9, SameListsGood
<1> HIDE DEF set
<1>11. /\ set.delayed \in Seq(Task) /\ IsInjective(set.delayed) /\ t \notin ToSet(set.delayed)
       /\ set.overflow \in Seq(Task) /\ IsInjective(set.overflow) /\ t \notin ToSet(set.overflow)
  BY <1>1, <1>6, <1>10 DEF Good, Shape, Away, KernelState
<1> DEFINE d == vListInsert(set.delayed, t, set.wake)
           o == vListInsert(set.overflow, t, set.wake)
<1>12. d \in Seq(Task) /\ IsInjective(d) /\ ToSet(d) = ToSet(set.delayed) \cup {t}
  BY <1>1, <1>11, InsertInOrder
<1>13. o \in Seq(Task) /\ IsInjective(o) /\ ToSet(o) = ToSet(set.overflow) \cup {t}
  BY <1>1, <1>11, InsertInOrder
<1>14. never \in KernelState /\ Asleep(left, never, t)
  <2> HIDE DEF later, soon, d, o
  <2>1. never \in KernelState
    BY <1>1, <1>8 DEF KernelState
  <2> QED
    BY <1>8, <2>1 DEF KernelState, Asleep, Shape
<1>15. later \in KernelState /\ Asleep(set, later, t)
  <2>1. later = [set EXCEPT !.overflow = o]
    OBVIOUS
  <2> HIDE DEF never, later, soon, d, o
  <2>2. later \in KernelState
    BY <1>9, <1>13, <2>1, OverflowTyped
  <2> QED
    BY <1>9, <1>11, <1>13, <2>1, <2>2 DEF KernelState, Asleep
<1>16. soon \in KernelState /\ Asleep(set, soon, t)
  <2> DEFINE n == IF wake < set.unblock THEN wake ELSE set.unblock
  <2>1. soon = [set EXCEPT !.delayed = d, !.unblock = n]
    OBVIOUS
  <2>2. n \in Ticks
    BY <1>3, <1>9 DEF KernelState
  <2> HIDE DEF never, later, soon, d, o, n
  <2>3. soon \in KernelState
    BY <1>9, <1>12, <2>1, <2>2, DelayedTyped
  <2> QED
    BY <1>9, <1>11, <1>12, <2>1, <2>3 DEF KernelState, Asleep
<1> HIDE DEF never, later, soon, d, o
<1>17. /\ SleepsIn(left, never, t) /\ (Free(never, t) <=> Free(left, t))
       /\ never.events = left.events
  BY <1>1, <1>6, <1>14, AsleepGood DEF SleepsIn, Asleep
<1>18. /\ SleepsIn(set, later, t) /\ (Free(later, t) <=> Free(set, t))
       /\ later.events = set.events
  BY <1>1, <1>6, <1>10, <1>15, AsleepGood DEF SleepsIn, Asleep
<1>19. /\ SleepsIn(set, soon, t) /\ (Free(soon, t) <=> Free(set, t))
       /\ soon.events = set.events
  BY <1>1, <1>6, <1>10, <1>16, AsleepGood DEF SleepsIn, Asleep
<1>20. SleepsIn(s, r, t) /\ (Free(r, t) <=> Free(s, t)) /\ r.events = s.events
  BY <1>1, <1>2, <1>5, <1>6, <1>7, <1>9, <1>10, <1>17, <1>18, <1>19
     DEF SleepsIn, Others, SameLists
<1> QED
  BY <1>20 DEF r, t

\* The event lists are not looked at when a task is put to sleep.
With(s, events) == [s EXCEPT !.events = events]

\* The state item does not depend on the event lists,
LEMMA RemoveIgnoresEvents ==
  ASSUME NEW s \in KernelState, NEW events, NEW t
  PROVE  RemoveStateItem(With(s, events), t) = With(RemoveStateItem(s, t), events)
<1> DEFINE b == With(s, events)
           w == [s.wake EXCEPT ![t] = 0]
           rd == [p \in Priority |-> uxListRemove(s.ready[p], t)]
           d == Unlink(s.delayed, t)
           o == Unlink(s.overflow, t)
           su == s.suspended \ {t}
           te == Unlink(s.terminating, t)
<1>1. /\ b.wake = s.wake /\ b.ready = s.ready /\ b.delayed = s.delayed
      /\ b.overflow = s.overflow /\ b.suspended = s.suspended
      /\ b.terminating = s.terminating
  BY DEF KernelState, With
<1>2. RemoveStateItem(s, t) = [s EXCEPT !.wake = w, !.ready = rd, !.delayed = d,
                                        !.overflow = o, !.suspended = su, !.terminating = te]
  BY DEF RemoveStateItem
<1>3. RemoveStateItem(b, t) = [b EXCEPT !.wake = w, !.ready = rd, !.delayed = d,
                                        !.overflow = o, !.suspended = su, !.terminating = te]
  <2>1. RemoveStateItem(b, t) =
          [b EXCEPT !.wake = [b.wake EXCEPT ![t] = 0],
                    !.ready = [p \in Priority |-> uxListRemove(b.ready[p], t)],
                    !.delayed = Unlink(b.delayed, t), !.overflow = Unlink(b.overflow, t),
                    !.suspended = b.suspended \ {t}, !.terminating = Unlink(b.terminating, t)]
    BY DEF RemoveStateItem
  <2> HIDE DEF b
  <2> QED
    BY <1>1, <2>1
<1> HIDE DEF w, rd, d, o, su, te
<1> QED
  BY <1>2, <1>3 DEF With

\* nor does going to sleep.
LEMMA SleepIgnoresEvents ==
  ASSUME NEW s \in KernelState, NEW events, NEW ticks
  PROVE  prvAddCurrentTaskToDelayedList(With(s, events), ticks, TRUE)
         = With(prvAddCurrentTaskToDelayedList(s, ticks, TRUE), events)
<1> DEFINE b == With(s, events)
           t == s.current
           p == s.prio[t]
           unset == [s EXCEPT !.aborted[t] = FALSE]
           left == LeaveReadyList(unset, t, p)
           wake == (s.tick + ticks) % TickMod
           set == [left EXCEPT !.wake[t] = wake]
           r == IF ticks = portMAX_DELAY
                THEN [left EXCEPT !.suspended = @ \cup {t}]
                ELSE IF wake < s.tick
                THEN [set EXCEPT !.overflow = vListInsert(@, t, set.wake)]
                ELSE [set EXCEPT !.delayed = vListInsert(@, t, set.wake),
                                 !.unblock = IF wake < @ THEN wake ELSE @]
<1>1. b.current = t /\ b.prio = s.prio /\ b.tick = s.tick
  BY DEF KernelState, With
<1>2. [b EXCEPT !.aborted[t] = FALSE] = With(unset, events) /\ unset \in KernelState
  BY DEF KernelState, With
<1>3. prvAddCurrentTaskToDelayedList(s, ticks, TRUE) = r
  BY DEF prvAddCurrentTaskToDelayedList
<1> DEFINE bleft == LeaveReadyList([b EXCEPT !.aborted[t] = FALSE], t, p)
           bset == [bleft EXCEPT !.wake[t] = wake]
           br == IF ticks = portMAX_DELAY
                 THEN [bleft EXCEPT !.suspended = @ \cup {t}]
                 ELSE IF wake < s.tick
                 THEN [bset EXCEPT !.overflow = vListInsert(@, t, bset.wake)]
                 ELSE [bset EXCEPT !.delayed = vListInsert(@, t, bset.wake),
                                   !.unblock = IF wake < @ THEN wake ELSE @]
<1>4. prvAddCurrentTaskToDelayedList(b, ticks, TRUE) = br
  <2> HIDE DEF b
  <2> QED
    BY <1>1 DEF prvAddCurrentTaskToDelayedList
<1>5. bleft = With(left, events)
  <2> HIDE DEF unset, b
  <2>1. AloneInList(With(unset, events), t) <=> AloneInList(unset, t)
    BY <1>2 DEF AloneInList, KernelState, With
  <2>2. RemoveStateItem(With(unset, events), t) = With(RemoveStateItem(unset, t), events)
    BY <1>2, RemoveIgnoresEvents
  <2>3. \A a : portRESET_READY_PRIORITY(With(a, events), p)
               = With(portRESET_READY_PRIORITY(a, p), events)
    BY DEF portRESET_READY_PRIORITY, With
  <2> QED
    BY <1>2, <2>1, <2>2, <2>3 DEF LeaveReadyList
<1>6. /\ {"suspended", "wake", "overflow", "delayed", "unblock"} \subseteq DOMAIN left
      /\ DOMAIN set = DOMAIN left
  BY <1>2 DEF LeaveReadyList, RemoveStateItem, portRESET_READY_PRIORITY, KernelState
<1> HIDE DEF left, bleft, wake, b, t
<1>7. bset = With(set, events)
  BY <1>5 DEF With
<1>8. br = With(r, events)
  <2>1. /\ bleft.suspended = left.suspended /\ bset.wake = set.wake
        /\ bset.overflow = set.overflow /\ bset.delayed = set.delayed
        /\ bset.unblock = set.unblock
    BY <1>5, <1>6, <1>7 DEF With
  <2> HIDE DEF bset, set
  <2>2. [bleft EXCEPT !.suspended = @ \cup {t}] = With([left EXCEPT !.suspended = @ \cup {t}], events)
    BY <1>5, <2>1 DEF With
  <2> DEFINE o == vListInsert(set.overflow, t, set.wake)
             d == vListInsert(set.delayed, t, set.wake)
             n == IF wake < set.unblock THEN wake ELSE set.unblock
  <2>3. br = IF ticks = portMAX_DELAY THEN [bleft EXCEPT !.suspended = @ \cup {t}]
             ELSE IF wake < s.tick THEN [bset EXCEPT !.overflow = o]
             ELSE [bset EXCEPT !.delayed = d, !.unblock = n]
    BY <2>1
  <2>4. r = IF ticks = portMAX_DELAY THEN [left EXCEPT !.suspended = @ \cup {t}]
            ELSE IF wake < s.tick THEN [set EXCEPT !.overflow = o]
            ELSE [set EXCEPT !.delayed = d, !.unblock = n]
    OBVIOUS
  <2> HIDE DEF br, r, o, d, n
  <2>5. [bset EXCEPT !.overflow = o] = With([set EXCEPT !.overflow = o], events)
    BY <1>7 DEF With
  <2>6. [bset EXCEPT !.delayed = d, !.unblock = n]
        = With([set EXCEPT !.delayed = d, !.unblock = n], events)
    BY <1>7 DEF With
  <2> QED
    BY <2>2, <2>3, <2>4, <2>5, <2>6
<1> HIDE DEF r, br
<1> QED
  BY <1>3, <1>4, <1>8 DEF b

\* vTaskPlaceOnEventList puts the running task, which waits for nothing yet, to sleep.
LEMMA PlaceOnEventListGood ==
  ASSUME NEW s \in Good, s.current \in Task, Free(s, s.current),
         NEW e \in EventList, NEW ticks \in Ticks
  PROVE  SleepsIn(s, vTaskPlaceOnEventList(s, e, ticks), s.current)
<1> DEFINE t == s.current
           a == prvAddCurrentTaskToDelayedList(s, ticks, TRUE)
           waiting == vListInsert(s.events[e], t, s.eventValue)
           events == [s.events EXCEPT ![e] = waiting]
           r == With(a, events)
<1>1. s \in KernelState /\ t \in Task
  BY DEF Good
<1>2. vTaskPlaceOnEventList(s, e, ticks) = r
  <2>1. vTaskPlaceOnEventList(s, e, ticks)
        = prvAddCurrentTaskToDelayedList(With(s, events), ticks, TRUE)
    BY DEF vTaskPlaceOnEventList, With
  <2> HIDE DEF events
  <2> QED
    BY <1>1, <2>1, SleepIgnoresEvents
<1>3. a \in Good /\ Others(s, a, t) /\ ~Away(a, t) /\ ~IsReady(a, t) /\ Free(a, t) /\ a.events = s.events
  BY AddToDelayedGood DEF SleepsIn
<1> HIDE DEF a, t
<1>4. /\ waiting \in Seq(Task) /\ IsInjective(waiting)
      /\ ToSet(waiting) = ToSet(s.events[e]) \cup {t}
  <2>1. s.events[e] \in Seq(Task) /\ IsInjective(s.events[e]) /\ t \notin ToSet(s.events[e])
    BY <1>1 DEF Good, Shape, KernelState, Free, t
  <2> QED
    BY <1>1, <2>1, InsertInOrder
<1> HIDE DEF waiting
<1>5. a \in KernelState /\ Shape(a) /\ \A u \in Task : Placed(a, u)
  BY <1>3 DEF Good
<1>6. /\ r.ready = a.ready /\ r.delayed = a.delayed /\ r.overflow = a.overflow
      /\ r.terminating = a.terminating /\ r.suspended = a.suspended
      /\ r.pending = a.pending /\ r.prio = a.prio
      /\ r.current = a.current /\ r.schedSusp = a.schedSusp
      /\ r.events = events /\ r \in KernelState
  <2>1. events \in [EventList -> Seq(Task)]
    BY <1>1, <1>4 DEF KernelState
  <2> HIDE DEF events
  <2> QED
    BY <1>5, <2>1 DEF KernelState, With
<1>7. \A f \in EventList : r.events[f] = IF f = e THEN waiting ELSE a.events[f]
  <2>1. s.events \in [EventList -> Seq(Task)]
    BY <1>1 DEF KernelState
  <2> QED
    BY <1>3, <1>6, <2>1
<1> HIDE DEF r, events
<1>8. Shape(r)
  BY <1>4, <1>5, <1>6, <1>7 DEF Shape
<1>9. \A u \in Task : (Away(r, u) <=> Away(a, u)) /\ (IsReady(r, u) <=> IsReady(a, u))
  BY <1>6 DEF Away, IsReady
<1>10. \A u \in Task \ {t} : \A f \in EventList : u \in ToSet(r.events[f]) <=> u \in ToSet(a.events[f])
  BY <1>3, <1>4, <1>7
<1>11. \A u \in Task \ {t} : Free(r, u) <=> Free(a, u)
  BY <1>6, <1>10 DEF Free
<1>12. ASSUME NEW u \in Task PROVE Placed(r, u)
  <2>1. CASE u = t
    <3>1. t \notin ToSet(r.pending) /\ \A f \in EventList : t \in ToSet(r.events[f]) => f = e
      BY <1>3, <1>6, <1>7 DEF Free
    <3> QED
      BY <1>3, <1>5, <1>6, <1>9, <2>1, <3>1 DEF Placed
  <2>2. CASE u # t
    BY <1>5, <1>6, <1>9, <1>10, <1>11, <2>2 DEF Placed
  <2> QED
    BY <2>1, <2>2
<1>13. r \in Good
  BY <1>6, <1>8, <1>12 DEF Good
<1>14. SleepsIn(s, r, t)
  BY <1>1, <1>3, <1>6, <1>9, <1>11, <1>13 DEF SleepsIn, Others
<1> QED
  BY <1>2, <1>14 DEF t

-----------------------------------------------------------------------------
(***************************************************************************)
(* Waking.                                                                 *)
(***************************************************************************)
LEMMA AppendPendingGood ==
  ASSUME NEW s \in Good, NEW t \in Task, Free(s, t), ~IsReady(s, t)
  PROVE  LET r == [s EXCEPT !.pending = Append(@, t)]
         IN Moves(s, r) /\ r.events = s.events
<1> DEFINE pending == Append(s.pending, t)
           r == [s EXCEPT !.pending = pending]
<1>1. s \in KernelState /\ Shape(s) /\ \A u \in Task : Placed(s, u)
  BY DEF Good
<1>2. /\ pending \in Seq(Task) /\ IsInjective(pending)
      /\ ToSet(pending) = ToSet(s.pending) \cup {t}
  <2>1. s.pending \in Seq(Task) /\ IsInjective(s.pending) /\ t \notin ToSet(s.pending)
    BY <1>1 DEF KernelState, Shape, Free
  <2> QED
    BY <2>1, AppendOne
<1> HIDE DEF pending
<1>3. /\ r.ready = s.ready /\ r.delayed = s.delayed /\ r.overflow = s.overflow
      /\ r.terminating = s.terminating /\ r.suspended = s.suspended
      /\ r.events = s.events /\ r.prio = s.prio /\ r.pending = pending
      /\ r.current = s.current /\ r.schedSusp = s.schedSusp /\ r \in KernelState
  BY <1>1, <1>2 DEF KernelState
<1> HIDE DEF r
<1>4. Shape(r)
  BY <1>1, <1>2, <1>3 DEF Shape
<1>5. \A u \in Task : (Away(r, u) <=> Away(s, u)) /\ (IsReady(r, u) <=> IsReady(s, u))
  BY <1>3 DEF Away, IsReady
<1>6. ASSUME NEW u \in Task PROVE Placed(r, u)
  <2>1. CASE u = t
    <3>1. \A e \in EventList : t \notin ToSet(r.events[e])
      BY <1>3 DEF Free
    <3> QED
      BY <1>1, <1>3, <1>5, <2>1, <3>1 DEF Placed
  <2>2. CASE u # t
    <3>1. (u \in ToSet(r.pending) <=> u \in ToSet(s.pending)) /\ (Free(r, u) <=> Free(s, u))
      BY <1>2, <1>3, <2>2 DEF Free
    <3> QED
      BY <1>1, <1>3, <1>5, <3>1 DEF Placed
  <2> QED
    BY <2>1, <2>2
<1>7. r \in Good
  BY <1>3, <1>4, <1>6 DEF Good
<1>8. Moves(s, r)
  BY <1>3, <1>5, <1>7 DEF Moves
<1> QED
  BY <1>3, <1>8 DEF r, pending

\* The task at the head of an event list leaves it.
LEMMA RemoveFromEventListGood ==
  ASSUME NEW s \in Good, NEW e \in EventList, s.events[e] # <<>>
  PROVE  LET r == xTaskRemoveFromEventList(s, e).k
         IN Moves(s, r) /\ Len(r.events[e]) = Len(s.events[e]) - 1
<1> DEFINE t == Head(s.events[e])
           urgent == s.prio[t] > s.prio[s.current]
           a == RemoveEventItem(s, t)
           woken == IF s.schedSusp = 0 THEN Unblock(s, t) ELSE [a EXCEPT !.pending = Append(@, t)]
           r == [woken EXCEPT !.yieldPending = @ \/ urgent]
           fewer == [f \in EventList |-> Unlink(s.events[f], t)]
<1>1. s \in KernelState /\ Shape(s) /\ \A u \in Task : Placed(s, u)
  BY DEF Good
<1>2. s.events[e] \in Seq(Task) /\ IsInjective(s.events[e])
  BY <1>1 DEF KernelState, Shape
<1>3. t \in Task /\ t \in ToSet(s.events[e]) /\ Contains(s.events[e], t)
  <2>1. t \in Task /\ 1 \in DOMAIN s.events[e] /\ t = s.events[e][1]
    BY <1>2
  <2> QED
    BY <2>1 DEF ToSet, Contains
<1>4. xTaskRemoveFromEventList(s, e).k = r
  BY DEF xTaskRemoveFromEventList, Answer
<1> HIDE DEF t
<1>5. Len(fewer[e]) = Len(s.events[e]) - 1
  BY <1>2, <1>3, RemoveOne
<1> HIDE DEF fewer
<1>6. Moves(s, woken) /\ woken \in Good /\ woken.events = fewer
  <2>1. CASE s.schedSusp = 0
    <3>1. Moves(s, Unblock(s, t)) /\ Unblock(s, t).events = fewer
      BY <1>3, UnblockGood DEF fewer
    <3> QED
      BY <2>1, <3>1 DEF Moves
  <2>2. CASE s.schedSusp # 0
    <3> DEFINE v == [a EXCEPT !.pending = Append(@, t)]
    <3>1. ~IsReady(s, t)
      BY <1>1, <1>3 DEF Placed, Free
    <3>2. /\ a \in Good /\ Others(s, a, t) /\ Free(a, t) /\ (Away(a, t) <=> Away(s, t))
          /\ (IsReady(a, t) <=> IsReady(s, t))
      BY <1>3, RemoveEventGood
    <3>3. a.events = fewer
      BY <1>1 DEF RemoveEventItem, KernelState, fewer
    <3>4. Moves(s, a)
      BY <3>1, <3>2 DEF Moves, Others
    <3> HIDE DEF a
    <3>5. Moves(a, v) /\ v.events = a.events /\ v \in Good
      BY <1>3, <3>1, <3>2, AppendPendingGood DEF Moves
    <3> HIDE DEF v
    <3>6. Moves(s, v)
      BY <3>2, <3>4, <3>5, MovesTransitive
    <3>7. woken = v
      BY <2>2 DEF v
    <3> QED
      BY <3>3, <3>5, <3>6, <3>7
  <2> QED
    BY <2>1, <2>2
<1> HIDE DEF woken
<1>7. /\ r \in KernelState /\ SameLists(woken, r) /\ r.current = woken.current
      /\ r.schedSusp = woken.schedSusp
  <2>1. woken \in KernelState
    BY <1>6 DEF Good
  <2> DEFINE b == woken.yieldPending \/ urgent
  <2>2. b \in BOOLEAN /\ r = [woken EXCEPT !.yieldPending = b]
    OBVIOUS
  <2> HIDE DEF b, r
  <2> QED
    BY <2>1, <2>2 DEF KernelState, SameLists
<1> HIDE DEF r
<1>8. Moves(woken, r) /\ r \in Good
  BY <1>6, <1>7, SameListsMoves DEF Moves
<1>9. Moves(s, r)
  BY <1>6, <1>8, MovesTransitive
<1> QED
  BY <1>4, <1>5, <1>6, <1>7, <1>9 DEF SameLists

\* xTaskRemoveFromEventList, if the list is not empty.
LEMMA WakeOneGood ==
  ASSUME NEW s \in Good, NEW e \in EventList
  PROVE  Moves(s, WakeOne(s, e))
<1> DEFINE woken == xTaskRemoveFromEventList(s, e)
           r == woken.k
           v == YieldIf(r, woken.yes)
<1>1. CASE s.events[e] = <<>>
  BY <1>1 DEF WakeOne, Moves
<1>2. CASE s.events[e] # <<>>
  <2>1. Moves(s, r) /\ r \in Good
    BY <1>2, RemoveFromEventListGood DEF Moves
  <2>2. WakeOne(s, e) = v
    BY <1>2 DEF WakeOne
  <2> HIDE DEF woken, r
  <2>3. Moves(r, v) /\ v \in Good
    BY <2>1, YieldIfGood DEF Moves
  <2> HIDE DEF v
  <2> QED
    BY <2>1, <2>2, <2>3, MovesTransitive
<1> QED
  BY <1>1, <1>2

\* The states WakeCounted goes through: each wakes a task that waits.
LEMMA WakeCountedSteps ==
  ASSUME NEW s \in Good, NEW e \in EventList, NEW count \in Int
  PROVE  \E n \in Nat : \E a :
           /\ a[0] = s /\ WakeCounted(s, e, count) = a[n]
           /\ \A i \in 1..n : /\ a[i - 1] \in Good /\ a[i - 1].events[e] # <<>>
                              /\ a[i] = xTaskRemoveFromEventList(a[i - 1], e).k
<1> DEFINE all == Len(s.events[e])
           least == IF count < all THEN count ELSE all
           n == IF least < 0 THEN 0 ELSE least
           Wake(r) == xTaskRemoveFromEventList(r, e).k
           Left(r, i) == Len(r.events[e]) = all - i
           P == [i \in 0..n |-> {r \in MovedFrom(s) : Left(r, i)}]
           step == [x \in Good \X (1..n) |-> Wake(x[1])]
           Is(a) == a = [i \in 0..n |-> IF i = 0 THEN s ELSE Wake(a[i - 1])]
           after == CHOOSE a : Is(a)
<1>1. all \in Nat
  BY DEF Good, KernelState
<1>2. WakeCounted(s, e, count) = after[n]
  BY DEF WakeCounted, InTurn
<1>3. Left(s, 0)
  BY <1>1
<1> HIDE DEF all
<1>4. n \in Nat /\ n <= all
  BY <1>1
<1> HIDE DEF n, after
<1>5. \A i \in 1..n : i \in 0..n /\ i - 1 \in 0..n /\ all - (i - 1) > 0 /\ all - (i - 1) - 1 = all - i
  BY <1>1, <1>4
<1>6. \A i \in 1..n : \A r \in Good : step[<<r, i>>] = Wake(r)
  OBVIOUS
<1>7. \A i \in 0..n : P[i] = {r \in MovedFrom(s) : Left(r, i)}
  OBVIOUS
<1> HIDE DEF step, P, Is
<1>8. ASSUME NEW i \in 1..n, NEW r \in MovedFrom(s), Left(r, i - 1)
      PROVE  Wake(r) \in MovedFrom(s) /\ Left(Wake(r), i)
  <2>1. r \in Good /\ Len(r.events[e]) > 0
    BY <1>5, <1>8 DEF MovedFrom
  <2>2. r.events[e] # <<>>
    BY <2>1
  <2>3. Moves(r, Wake(r)) /\ Len(Wake(r).events[e]) = Len(r.events[e]) - 1
    BY <2>1, <2>2, RemoveFromEventListGood
  <2> HIDE DEF Wake
  <2>4. Wake(r) \in MovedFrom(s)
    BY <2>3, MovesOn
  <2> QED
    BY <1>5, <1>8, <2>3, <2>4
<1> HIDE DEF Wake, Left
<1>9. s \in P[0] /\ 0 \in 0..n /\ n \in 0..n
  BY <1>3, <1>4, <1>7 DEF MovedFrom, Moves
<1>10. StepsWithin(step, n, P)
  <2> SUFFICES ASSUME NEW i \in 1..n, NEW r \in P[i - 1] PROVE step[<<r, i>>] \in P[i]
    BY DEF StepsWithin
  <2>1. r \in MovedFrom(s) /\ Left(r, i - 1)
    BY <1>5, <1>7
  <2>2. r \in Good
    BY <2>1 DEF MovedFrom
  <2> QED
    BY <1>5, <1>6, <1>7, <1>8, <2>1, <2>2
<1>11. PICK a : IsChain(a, step, s, n) /\ IsWithin(a, n, P)
  BY <1>4, <1>9, <1>10, ChainExists
<1>12. Is(a)
  <2>1. \A i \in 1..n : step[<<a[i - 1], i>>] = Wake(a[i - 1])
    BY <1>5, <1>6, <1>7, <1>11 DEF MovedFrom, IsWithin
  <2>2. \A i \in 0..n : (IF i = 0 THEN s ELSE step[<<a[i - 1], i>>])
                        = IF i = 0 THEN s ELSE Wake(a[i - 1])
    BY <1>4, <2>1
  <2> QED
    BY <1>11, <2>2 DEF IsChain, Is
<1>13. Is(after)
  BY <1>12 DEF after
<1>14. after[0] = s /\ \A i \in 1..n : after[i] = Wake(after[i - 1])
  BY <1>4, <1>13 DEF Is
<1>15. ASSUME NEW m \in 0..n PROVE after[m] \in P[m]
  <2>1. ASSUME NEW i \in 1..m, after[i - 1] \in P[i - 1] PROVE after[i] \in P[i]
    <3> DEFINE r == after[i - 1]
    <3>1. i \in 1..n
      BY <1>4
    <3>2. r \in MovedFrom(s) /\ Left(r, i - 1)
      BY <1>5, <1>7, <2>1, <3>1
    <3>3. after[i] = Wake(r)
      BY <1>14, <3>1
    <3> HIDE DEF r
    <3> QED
      BY <1>5, <1>7, <1>8, <3>1, <3>2, <3>3
  <2> QED
    BY <1>4, <1>9, <1>14, <2>1, ChainIn
<1>16. \A i \in 1..n : after[i - 1] \in Good /\ Left(after[i - 1], i - 1)
  BY <1>5, <1>7, <1>15 DEF MovedFrom
<1>17. \A i \in 1..n : after[i - 1].events[e] # <<>>
  <2> SUFFICES ASSUME NEW i \in 1..n, after[i - 1].events[e] = <<>> PROVE FALSE
    OBVIOUS
  <2>1. Len(after[i - 1].events[e]) = 0
    OBVIOUS
  <2> QED
    BY <1>5, <1>16, <2>1 DEF Left
<1> QED
  BY <1>2, <1>4, <1>14, <1>16, <1>17 DEF Wake

\* As many are woken as were counted, of those that wait.
LEMMA WakeCountedGood ==
  ASSUME NEW s \in Good, NEW e \in EventList, NEW count \in Int
  PROVE  Moves(s, WakeCounted(s, e, count))
<1>1. PICK n \in Nat :
        \E a : /\ a[0] = s /\ WakeCounted(s, e, count) = a[n]
               /\ \A i \in 1..n : /\ a[i - 1] \in Good /\ a[i - 1].events[e] # <<>>
                                  /\ a[i] = xTaskRemoveFromEventList(a[i - 1], e).k
  BY WakeCountedSteps
<1>2. PICK a : /\ a[0] = s /\ WakeCounted(s, e, count) = a[n]
               /\ \A i \in 1..n : /\ a[i - 1] \in Good /\ a[i - 1].events[e] # <<>>
                                  /\ a[i] = xTaskRemoveFromEventList(a[i - 1], e).k
  BY <1>1
<1>3. \A i \in 1..n : Moves(a[i - 1], a[i])
  BY <1>2, RemoveFromEventListGood
<1>4. n \in 0..n
  OBVIOUS
<1>5. a[n] \in MovedFrom(s)
  BY <1>2, <1>3, <1>4, MovedInTurn
<1> QED
  BY <1>2, <1>5 DEF MovedFrom

-----------------------------------------------------------------------------
(***************************************************************************)
(* Priorities.                                                             *)
(***************************************************************************)
LEMMA InheritGood ==
  ASSUME NEW s \in Good, NEW holder \in Task \cup {NoTask}, s.current \in Task
  PROVE  Moves(s, xTaskPriorityInherit(s, holder).k)
<1> DEFINE p == s.prio[s.current]
           a == Reprioritise(s, holder, p)
           r == Requeue(a, holder, p, s.prio[holder])
<1>1. xTaskPriorityInherit(s, holder).k = s \/ xTaskPriorityInherit(s, holder).k = r
  BY DEF xTaskPriorityInherit, Answer
<1>2. holder = NoTask => xTaskPriorityInherit(s, holder).k = s
  BY DEF xTaskPriorityInherit, Answer
<1>3. Moves(s, s)
  BY DEF Moves
<1>4. CASE holder \in Task
  <2>1. p \in Priority
    BY DEF Good, KernelState
  <2> HIDE DEF p
  <2>2. Moves(s, a) /\ a \in Good
    BY <1>4, <2>1, ReprioritiseGood DEF Moves
  <2> HIDE DEF a
  <2>3. Moves(a, r) /\ r \in Good
    BY <1>4, <2>1, <2>2, RequeueGood DEF Moves
  <2> HIDE DEF r
  <2>4. Moves(s, r)
    BY <2>2, <2>3, MovesTransitive
  <2> QED
    BY <1>1, <1>3, <2>4
<1> QED
  BY <1>2, <1>3, <1>4

\* vTaskPriorityDisinheritAfterTimeout, whether there is a holder or not.
LEMMA DisinheritAfterTimeoutGood ==
  ASSUME NEW s \in Good, NEW holder \in Task \cup {NoTask}, NEW waiting \in Priority
  PROVE  Moves(s, vTaskPriorityDisinheritAfterTimeout(s, holder, waiting))
<1> DEFINE p == IF s.base[holder] < waiting THEN waiting ELSE s.base[holder]
           a == Reprioritise(s, holder, p)
           r == Requeue(a, holder, p, p)
           v == vTaskPriorityDisinheritAfterTimeout(s, holder, waiting)
<1>1. v = s \/ v = r
  BY DEF vTaskPriorityDisinheritAfterTimeout
<1>2. holder = NoTask => v = s
  BY DEF vTaskPriorityDisinheritAfterTimeout
<1> HIDE DEF v
<1>3. Moves(s, s)
  BY DEF Moves
<1>4. CASE holder \in Task
  <2>1. p \in Priority
    BY <1>4 DEF Good, KernelState
  <2> HIDE DEF p
  <2>2. Moves(s, a) /\ a \in Good
    BY <1>4, <2>1, ReprioritiseGood DEF Moves
  <2> HIDE DEF a
  <2>3. Moves(a, r) /\ r \in Good
    BY <1>4, <2>1, <2>2, RequeueGood DEF Moves
  <2> HIDE DEF r
  <2>4. Moves(s, r)
    BY <2>2, <2>3, MovesTransitive
  <2> QED
    BY <1>1, <1>3, <2>4 DEF v
<1> QED
  BY <1>2, <1>3, <1>4 DEF v

\* Only a task that is ready and holds a mutex may give it back.
LEMMA DisinheritGood ==
  ASSUME NEW s \in Good, NEW holder \in Task \cup {NoTask},
         holder # NoTask => IsReady(s, holder) /\ s.held[holder] > 0
  PROVE  Moves(s, xTaskPriorityDisinherit(s, holder).k)
<1> DEFINE given == [s EXCEPT !.held[holder] = @ - 1]
           base == s.base[holder]
           left == LeaveReadyList(given, holder, s.prio[holder])
           set == [left EXCEPT !.prio[holder] = base, !.eventValue[holder] = EventValue(base)]
           r == prvAddTaskToReadyList(set, holder)
           v == xTaskPriorityDisinherit(s, holder).k
<1>1. v = s \/ v = given \/ v = r
  BY DEF xTaskPriorityDisinherit, Answer
<1>2. holder = NoTask => v = s
  BY DEF xTaskPriorityDisinherit, Answer
<1>3. Moves(s, s)
  BY DEF Moves
<1>4. (holder = NoTask => v = s) /\ (holder # NoTask => v = given \/ v = r)
  BY DEF xTaskPriorityDisinherit, Answer
<1> HIDE DEF v
<1>5. CASE holder \in Task
  <2>1. s \in KernelState /\ NoTask # holder /\ base \in Priority /\ EventValue(base) \in 1..MaxPriorities
    <3>1. s \in KernelState /\ NoTask # holder
      BY <1>5, TaskAssumption DEF Good
    <3>2. base \in Priority
      BY <1>5, <3>1 DEF KernelState
    <3>3. \A p \in Priority : EventValue(p) \in 1..MaxPriorities
      BY TaskAssumption DEF EventValue, Priority
    <3> QED
      BY <3>1, <3>2, <3>3
  <2> HIDE DEF base
  <2>2. /\ given \in KernelState /\ SameLists(s, given) /\ given.current = s.current
        /\ given.schedSusp = s.schedSusp
    <3> DEFINE n == s.held[holder] - 1
    <3>1. n \in Nat /\ given = [s EXCEPT !.held[holder] = n]
      <4>1. s.held[holder] \in Nat /\ s.held[holder] > 0
        BY <1>5, <2>1 DEF KernelState
      <4> QED
        BY <4>1
    <3> HIDE DEF n, left, set, r, given
    <3> QED
      BY <1>5, <2>1, <3>1, HeldTyped
  <2>3. Moves(s, given) /\ given \in Good
    BY <2>2, SameListsMoves DEF Moves
  <2>4. IsReady(given, holder) /\ Free(given, holder)
    BY <1>5, <2>1, <2>2, <2>3, ReadyIsNotAway DEF Moves
  <2> HIDE DEF given
  <2>5. left \in Good /\ Others(given, left, holder) /\ Away(left, holder) /\ Free(left, holder)
    BY <1>5, <2>3, <2>4, LeaveReadyGood
  <2> HIDE DEF left
  <2> DEFINE prioset == [left EXCEPT !.prio[holder] = base]
  <2>6. ~IsReady(left, holder)
    BY <1>5, <2>5, ReadyIsNotAway
  <2>7. /\ prioset \in Good /\ Others(left, prioset, holder) /\ Away(prioset, holder)
        /\ Free(prioset, holder)
    BY <1>5, <2>1, <2>5, <2>6, SetPrioGood
  <2>8. set = [prioset EXCEPT !.eventValue[holder] = EventValue(base)]
    OBVIOUS
  <2> HIDE DEF prioset
  <2>9. /\ set \in KernelState /\ SameLists(prioset, set) /\ set.current = prioset.current
        /\ set.schedSusp = prioset.schedSusp
    <3> DEFINE n == EventValue(base)
    <3> HIDE DEF n, r, set
    <3>1. n \in 1..MaxPriorities /\ set = [prioset EXCEPT !.eventValue[holder] = n]
      BY <2>1, <2>8 DEF n
    <3>2. prioset \in KernelState
      BY <2>7 DEF Good
    <3>3. set \in KernelState
      BY <1>5, <3>1, <3>2 DEF KernelState
    <3> QED
      BY <3>1, <3>2, <3>3 DEF KernelState, SameLists
  <2> HIDE DEF set
  <2>10. /\ set \in Good
         /\ \A u \in Task : /\ Away(set, u) <=> Away(prioset, u)
                            /\ Free(set, u) <=> Free(prioset, u)
                            /\ IsReady(set, u) <=> IsReady(prioset, u)
    BY <2>7, <2>9, SameListsGood
  <2>11. r \in Good /\ Others(set, r, holder) /\ IsReady(r, holder)
    BY <1>5, <2>7, <2>10, AddReadyGood
  <2> HIDE DEF r
  <2>12. Others(given, r, holder)
    BY <2>5, <2>7, <2>9, <2>10, <2>11 DEF Others
  <2>13. Moves(given, r)
    BY <1>5, <2>3, <2>11, <2>12, OthersAndReady
  <2>14. Moves(s, r)
    BY <2>3, <2>11, <2>13, MovesTransitive
  <2> QED
    BY <1>4, <2>1, <2>3, <2>14 DEF v
<1> QED
  BY <1>2, <1>3, <1>5 DEF v

\* vTaskPrioritySet keeps every task in the list where it belongs.
LEMMA PrioritySetGood ==
  ASSUME NEW s \in Good, NEW t \in Task, NEW p \in Priority
  PROVE  Moves(s, vTaskPrioritySet(s, t, p))
<1> DEFINE based == [s EXCEPT !.base[t] = p]
           new == IF s.base[t] = s.prio[t] THEN p ELSE s.prio[t]
           a == Reprioritise(based, t, p)
           set == Requeue(a, t, new, s.prio[t])
           yield == IF p > s.base[t] THEN t # s.current /\ p >= s.prio[s.current]
                    ELSE t = s.current
           r == YieldIf(set, yield)
<1>1. vTaskPrioritySet(s, t, p) = s \/ vTaskPrioritySet(s, t, p) = r
  BY DEF vTaskPrioritySet
<1> HIDE DEF yield
<1>2. s \in KernelState /\ new \in Priority
  BY DEF Good, KernelState
<1> HIDE DEF new
<1>3. based \in KernelState /\ SameLists(s, based) /\ based.current = s.current /\ based.schedSusp = s.schedSusp
  <2> HIDE DEF a, set, r
  <2>1. based \in KernelState
    BY <1>2 DEF KernelState
  <2> QED
    BY <1>2, <2>1 DEF KernelState, SameLists
<1>4. Moves(s, based) /\ based \in Good
  BY <1>3, SameListsMoves DEF Moves
<1> HIDE DEF based
<1>5. Moves(based, a) /\ a \in Good
  BY <1>4, ReprioritiseGood DEF Moves
<1> HIDE DEF a
<1>6. Moves(a, set) /\ set \in Good
  BY <1>2, <1>5, RequeueGood DEF Moves
<1> HIDE DEF set
<1>7. Moves(set, r) /\ r \in Good
  BY <1>6, YieldIfGood DEF Moves
<1> HIDE DEF r
<1>8. Moves(s, a)
  BY <1>4, <1>5, MovesTransitive
<1>9. Moves(s, set)
  BY <1>5, <1>6, <1>8, MovesTransitive
<1>10. Moves(s, r)
  BY <1>6, <1>7, <1>9, MovesTransitive
<1> QED
  BY <1>1, <1>10 DEF Moves

-----------------------------------------------------------------------------
(***************************************************************************)
(* Calls of one task about another, and time-outs.                         *)
(***************************************************************************)
LEMMA InEventListIff ==
  ASSUME NEW s \in Good, NEW t \in Task
  PROVE  InEventList(s, t) <=> ~Free(s, t)
<1>1. s.pending \in Seq(Task) /\ \A e \in EventList : s.events[e] \in Seq(Task)
  BY DEF Good, KernelState
<1> QED
  BY <1>1, ContainsIff DEF InEventList, Free

\* vTaskSuspend: the task is suspended and waits for nothing.
LEMMA SuspendGood ==
  ASSUME NEW s \in Good, NEW t \in Task
  PROVE  SleepsIn(s, vTaskSuspend(s, t), t)
<1> DEFINE a == RemoveStateItem(s, t)
           left == RemoveEventItem(a, t)
           reset == IF AloneInList(s, t) THEN taskRESET_READY_PRIORITY(left, s.prio[t]) ELSE left
           state == IF reset.note[t].state = "waiting" THEN "none" ELSE reset.note[t].state
           r == [reset EXCEPT !.suspended = @ \cup {t}, !.note[t].state = state]
<1>1. a \in Good /\ Others(s, a, t) /\ Away(a, t)
  BY RemoveStateGood
<1>2. left \in Good /\ Others(a, left, t) /\ Away(left, t)
  <2> HIDE DEF a
  <2> QED
    BY <1>1, RemoveEventGood
<1>3. vTaskSuspend(s, t) = r
  BY DEF vTaskSuspend
<1> HIDE DEF a, left
<1>4. reset \in KernelState /\ SameLists(left, reset) /\ reset.current = left.current
      /\ reset.schedSusp = left.schedSusp
  <2>1. left \in KernelState
    BY <1>2 DEF Good
  <2> HIDE DEF r, state
  <2> QED
    BY <2>1 DEF taskRESET_READY_PRIORITY, portRESET_READY_PRIORITY, KernelState, SameLists
<1> HIDE DEF reset
<1>5. /\ reset \in Good
      /\ \A u \in Task : /\ Away(reset, u) <=> Away(left, u)
                         /\ Free(reset, u) <=> Free(left, u)
                         /\ IsReady(reset, u) <=> IsReady(left, u)
  BY <1>2, <1>4, SameListsGood
<1>6. state \in {"none", "waiting", "received"}
  BY <1>4 DEF KernelState
<1> HIDE DEF state
<1>7. r \in KernelState
  <2> DEFINE sus == reset.suspended \cup {t}
             note == [reset.note EXCEPT ![t].state = state]
             v == [reset EXCEPT !.suspended = sus, !.note = note]
  <2>1. sus \in SUBSET Task /\ note \in [Task -> [state : {"none", "waiting", "received"}, value : 0..(ValueMod - 1)]]
    <3>1. /\ reset.suspended \in SUBSET Task
          /\ reset.note \in [Task -> [state : {"none", "waiting", "received"}, value : 0..(ValueMod - 1)]]
      <4> HIDE DEF sus, note, v, r
      <4> QED
        BY <1>4 DEF KernelState
    <3> QED
      BY <1>6, <3>1
  <2>2. r = v
    BY <1>4 DEF KernelState
  <2> HIDE DEF sus, note, r
  <2>3. v \in KernelState
    BY <1>4, <2>1 DEF KernelState
  <2> QED
    BY <2>2, <2>3
<1>8. Asleep(reset, r, t)
  <2>1. IsInjective(reset.delayed) /\ IsInjective(reset.overflow)
    BY <1>5 DEF Good, Shape
  <2> QED
    BY <1>4, <1>7, <2>1 DEF Asleep, KernelState
<1> HIDE DEF r
<1>9. r \in Good /\ Others(reset, r, t) /\ ~Away(r, t) /\ ~IsReady(r, t)
  BY <1>2, <1>5, <1>7, <1>8, AsleepGood
<1>10. SleepsIn(s, r, t)
  BY <1>1, <1>2, <1>4, <1>5, <1>9 DEF SleepsIn, Others
<1> QED
  BY <1>3, <1>10

\* A task that is suspended and waits for nothing becomes ready.
LEMMA WakeSuspendedGood ==
  ASSUME NEW s \in Good, NEW t \in Task, Free(s, t)
  PROVE  Moves(s, prvAddTaskToReadyList(RemoveStateItem(s, t), t))
<1> DEFINE a == RemoveStateItem(s, t)
           r == prvAddTaskToReadyList(a, t)
<1>1. a \in Good /\ Others(s, a, t) /\ Away(a, t) /\ Free(a, t)
  BY RemoveStateGood
<1> HIDE DEF a
<1>2. r \in Good /\ Others(a, r, t) /\ IsReady(r, t)
  BY <1>1, AddReadyGood
<1> HIDE DEF r
<1>3. Others(s, r, t)
  BY <1>1, <1>2 DEF Others
<1>4. Moves(s, r)
  BY <1>2, <1>3, OthersAndReady
<1> QED
  BY <1>4 DEF r, a

\* vTaskResume readies what vTaskSuspend put aside, and nothing else.
LEMMA ResumeGood ==
  ASSUME NEW s \in Good, NEW t \in Task
  PROVE  Moves(s, vTaskResume(s, t))
<1> DEFINE a == prvAddTaskToReadyList(RemoveStateItem(s, t), t)
           b == s.prio[t] >= s.prio[s.current]
           r == YieldIf(a, b)
<1>1. CASE t # s.current /\ prvTaskIsTaskSuspended(s, t)
  <2>1. vTaskResume(s, t) = r
    BY <1>1 DEF vTaskResume
  <2> HIDE DEF b
  <2>2. Moves(s, a) /\ a \in Good
    BY <1>1, InEventListIff, WakeSuspendedGood DEF prvTaskIsTaskSuspended, Moves
  <2> HIDE DEF a
  <2>3. Moves(a, r) /\ r \in Good
    BY <2>2, YieldIfGood DEF Moves
  <2> HIDE DEF r
  <2> QED
    BY <2>1, <2>2, <2>3, MovesTransitive
<1>2. CASE ~(t # s.current /\ prvTaskIsTaskSuspended(s, t))
  BY <1>2 DEF vTaskResume, Moves
<1> QED
  BY <1>1, <1>2

\* A switch that is put off is no move.
LEMMA YieldFlagGood ==
  ASSUME NEW s \in Good, NEW b
  PROVE  Moves(s, [s EXCEPT !.yieldPending = @ \/ b])
<1> DEFINE c == s.yieldPending \/ b
           r == [s EXCEPT !.yieldPending = c]
<1>1. s \in KernelState /\ c \in BOOLEAN
  BY DEF Good
<1> HIDE DEF c
<1>2. r \in KernelState /\ SameLists(s, r) /\ r.current = s.current /\ r.schedSusp = s.schedSusp
  BY <1>1 DEF KernelState, SameLists
<1> HIDE DEF r
<1>3. Moves(s, r)
  BY <1>2, SameListsMoves
<1> QED
  BY <1>3 DEF r, c

\* xTaskResumeFromISR, which leaves the task in the pending list if it has to.
LEMMA ResumeFromISRGood ==
  ASSUME NEW s \in Good, NEW t \in Task
  PROVE  Moves(s, xTaskResumeFromISR(s, t))
<1> DEFINE urgent == s.prio[t] >= s.prio[s.current]
           a == prvAddTaskToReadyList(RemoveStateItem(s, t), t)
           b == [a EXCEPT !.yieldPending = @ \/ urgent]
           r == YieldIf(b, urgent)
<1>1. CASE ~prvTaskIsTaskSuspended(s, t)
  BY <1>1 DEF xTaskResumeFromISR, Moves
<1>2. CASE prvTaskIsTaskSuspended(s, t) /\ s.schedSusp = 0
  <2>1. xTaskResumeFromISR(s, t) = r
    BY <1>2 DEF xTaskResumeFromISR
  <2> HIDE DEF urgent
  <2>2. Moves(s, a) /\ a \in Good
    BY <1>2, InEventListIff, WakeSuspendedGood DEF prvTaskIsTaskSuspended, Moves
  <2> HIDE DEF a
  <2>3. Moves(a, b) /\ b \in Good
    BY <2>2, YieldFlagGood DEF Moves
  <2> HIDE DEF b
  <2>4. Moves(b, r) /\ r \in Good
    BY <2>3, YieldIfGood DEF Moves
  <2> HIDE DEF r
  <2>5. Moves(s, b)
    BY <2>2, <2>3, MovesTransitive
  <2> QED
    BY <2>1, <2>3, <2>4, <2>5, MovesTransitive
<1>3. CASE prvTaskIsTaskSuspended(s, t) /\ s.schedSusp # 0
  <2>1. xTaskResumeFromISR(s, t) = [s EXCEPT !.pending = Append(@, t)]
    BY <1>3 DEF xTaskResumeFromISR
  <2>2. Free(s, t) /\ ~IsReady(s, t)
    BY <1>3, InEventListIff, ReadyIsNotAway DEF prvTaskIsTaskSuspended
  <2> QED
    BY <2>1, <2>2, AppendPendingGood
<1> QED
  BY <1>1, <1>2, <1>3

\* xTaskAbortDelay readies a sleeping task and takes it from its event list.
LEMMA AbortDelayGood ==
  ASSUME NEW s \in Good, NEW t \in Task
  PROVE  Moves(s, xTaskAbortDelay(s, t))
<1> DEFINE a == Unblock(s, t)
           waits == InEventList(s, t)
           urgent == s.prio[t] > s.prio[s.current]
           b == [a EXCEPT !.aborted[t] = @ \/ waits]
           r == [b EXCEPT !.yieldPending = @ \/ urgent]
<1>1. Moves(s, s)
  BY DEF Moves
<1>2. xTaskAbortDelay(s, t) = s \/ xTaskAbortDelay(s, t) = r
  BY DEF xTaskAbortDelay
<1> HIDE DEF waits, urgent
<1>3. Moves(s, a) /\ a \in Good
  BY UnblockGood DEF Moves
<1> HIDE DEF a
<1>4. Moves(a, b) /\ b \in Good
  <2> DEFINE c == a.aborted[t] \/ waits
             d == [a EXCEPT !.aborted[t] = c]
  <2>1. c \in BOOLEAN /\ b = d /\ a \in KernelState
    BY <1>3 DEF Good
  <2> HIDE DEF c, b, r
  <2>2. d \in KernelState /\ SameLists(a, d) /\ d.current = a.current /\ d.schedSusp = a.schedSusp
    BY <2>1 DEF KernelState, SameLists
  <2> HIDE DEF d
  <2> QED
    BY <1>3, <2>1, <2>2, SameListsMoves DEF Moves
<1> HIDE DEF b
<1>5. Moves(b, r) /\ r \in Good
  BY <1>4, YieldFlagGood DEF Moves
<1> HIDE DEF r
<1>6. Moves(s, b)
  BY <1>3, <1>4, MovesTransitive
<1>7. Moves(s, r)
  BY <1>4, <1>5, <1>6, MovesTransitive
<1> QED
  BY <1>1, <1>2, <1>7

\* What a call keeps of the time it may wait.
Wait == [left : Ticks, entered : Ticks, epoch : Nat]

\* vTaskInternalSetTimeOutState
LEMMA SetTimeOutTyped ==
  ASSUME NEW s \in Good, NEW ticks \in Ticks
  PROVE  vTaskInternalSetTimeOutState(s, ticks) \in Wait
BY DEF vTaskInternalSetTimeOutState, Wait, Good, KernelState

\* The running task looks whether its wait is over.
LEMMA CheckForTimeOutGood ==
  ASSUME NEW s \in Good, s.current \in Task, NEW wait \in Wait
  PROVE  LET checked == xTaskCheckForTimeOut(s, wait)
         IN Moves(s, checked.k) /\ checked.wait \in Wait
<1> DEFINE t == s.current
           elapsed == (s.tick - wait.entered) % TickMod
           none == [wait EXCEPT !.left = 0]
           rest == vTaskInternalSetTimeOutState(s, wait.left - elapsed)
           calm == [s EXCEPT !.aborted[t] = FALSE]
           checked == xTaskCheckForTimeOut(s, wait)
<1>1. s \in KernelState /\ Moves(s, s)
  BY DEF Good, Moves
<1>2. \/ checked.k = calm /\ checked.wait = wait
      \/ checked.k = s /\ checked.wait = wait
      \/ checked.k = s /\ checked.wait = none
      \/ elapsed < wait.left /\ checked.k = s /\ checked.wait = rest
  <2> HIDE DEF elapsed, none, rest, calm
  <2>1. CASE s.aborted[t]
    BY <2>1 DEF xTaskCheckForTimeOut, calm
  <2>2. CASE ~s.aborted[t] /\ wait.left = portMAX_DELAY
    BY <2>2 DEF xTaskCheckForTimeOut
  <2>3. CASE ~s.aborted[t] /\ wait.left # portMAX_DELAY
    BY <2>3 DEF xTaskCheckForTimeOut, elapsed, none, rest
  <2> QED
    BY <2>1, <2>2, <2>3
<1>3. 0 \in Ticks
  BY TaskAssumption DEF Ticks
<1>4. none \in Wait
  BY <1>3 DEF Wait
<1>5. elapsed \in Ticks
  <2>1. s.tick - wait.entered \in Int
    BY <1>1 DEF KernelState, Ticks, Wait
  <2> QED
    BY <2>1, TicksWrap
<1>6. elapsed < wait.left => rest \in Wait
  <2> SUFFICES ASSUME elapsed < wait.left PROVE rest \in Wait
    OBVIOUS
  <2> DEFINE n == wait.left - elapsed
  <2>1. n \in Ticks
    <3> HIDE DEF elapsed
    <3>1. TickMod \in Nat /\ wait.left \in 0..(TickMod - 1) /\ elapsed \in 0..(TickMod - 1)
      BY <1>5, TaskAssumption DEF Wait, Ticks
    <3> QED
      BY <3>1 DEF Ticks
  <2> HIDE DEF n, elapsed
  <2> QED
    BY <2>1, SetTimeOutTyped DEF n
<1>7. Moves(s, calm)
  <2>1. calm \in KernelState /\ SameLists(s, calm) /\ calm.current = s.current /\ calm.schedSusp = s.schedSusp
    <3> HIDE DEF elapsed, none, rest, checked
    <3>1. calm \in KernelState
      BY <1>1 DEF KernelState
    <3> QED
      BY <1>1, <3>1 DEF KernelState, SameLists
  <2> QED
    BY <2>1, SameListsMoves
<1> HIDE DEF checked, calm, none, rest, elapsed
<1>8. Moves(s, checked.k) /\ checked.wait \in Wait
  BY <1>1, <1>2, <1>4, <1>6, <1>7
<1> QED
  BY <1>8 DEF checked

-----------------------------------------------------------------------------
(***************************************************************************)
(* Queues.                                                                 *)
(***************************************************************************)
\* A queue, its counts unbounded below.
AnyQueue ==
  [kind : {"none", "queue", "mutex"}, length : Nat, items : Seq(Item),
   holder : Task \cup {NoTask}, recursion : Int, rxLock : Int, txLock : Int]

\* What a function of a queue does to the tasks and to that queue.
QueueMoves(s, q, r) == Moves(s, r.k) /\ r.q \in AnyQueue /\ r.q.kind = q.kind

\* tasks.c:4175-4176: a mutex is given back by a task that holds it.
HeldBy(s, q, t) ==
  q.kind = "mutex" /\ q.holder # NoTask => q.holder = t /\ s.held[t] > 0

\* The priority of the task at the head of an event list is one.
LEMMA HighestWaitingTyped ==
  ASSUME NEW s \in Good, NEW id \in Queue
  PROVE  HighestWaiting(s, id) \in Priority
<1> DEFINE w == s.events[<<id, "receive">>]
<1>1. w \in Seq(Task) /\ s.eventValue \in [Task -> 1..MaxPriorities]
  BY DEF Good, KernelState, EventList
<1>2. 0 \in Priority
  BY TaskAssumption DEF Priority
<1>3. HighestWaiting(s, id) = IF w = <<>> THEN 0 ELSE MaxPriorities - s.eventValue[Head(w)]
  BY DEF HighestWaiting
<1> HIDE DEF w
<1>4. CASE w # <<>>
  <2> DEFINE v == s.eventValue[Head(w)]
  <2>1. v \in 1..MaxPriorities
    BY <1>1, <1>4
  <2> HIDE DEF v
  <2>2. MaxPriorities - v \in Priority
    BY <2>1, TaskAssumption DEF Priority
  <2> QED
    BY <1>3, <1>4, <2>2 DEF v
<1> QED
  BY <1>2, <1>3, <1>4

\* What Put makes of the items of a queue.
LEMMA PutTyped ==
  ASSUME NEW items \in Seq(Item), NEW item \in Item, NEW position \in Position
  PROVE  Put(items, item, position) \in Seq(Item)
<1>1. Append(items, item) \in Seq(Item)
  OBVIOUS
<1>2. \A rest \in Seq(Item) : <<item>> \o rest \in Seq(Item)
  OBVIOUS
<1> DEFINE tail == IF items = <<>> THEN <<>> ELSE Tail(items)
<1>3. tail \in Seq(Item)
  OBVIOUS
<1>4. <<item>> \o tail \in Seq(Item)
  BY <1>2, <1>3
<1>5. position = "back" \/ position = "front" \/ position = "overwrite"
  BY DEF Position
<1> QED
  BY <1>1, <1>2, <1>4, <1>5 DEF Put

\* An item is put in a queue; a mutex is given back by its holder.
LEMMA CopyDataGood ==
  ASSUME NEW s \in Good, NEW q \in AnyQueue, NEW item \in Item, NEW position \in Position,
         q.kind = "mutex" /\ q.holder # NoTask => IsReady(s, q.holder) /\ s.held[q.holder] > 0
  PROVE  LET r == prvCopyDataToQueue(s, q, item, position)
         IN QueueMoves(s, q, r) /\ r.q.txLock = q.txLock
<1> DEFINE given == xTaskPriorityDisinherit(s, q.holder)
           items == Put(q.items, item, position)
           put == [q EXCEPT !.items = items]
           r == prvCopyDataToQueue(s, q, item, position)
<1>1. items \in Seq(Item)
  BY PutTyped DEF AnyQueue
<1>2. q.holder \in Task \cup {NoTask}
  BY DEF AnyQueue
<1>3. CASE q.kind = "mutex"
  <2>1. Moves(s, given.k)
    BY <1>2, <1>3, DisinheritGood
  <2>2. r.k = given.k /\ r.q = [put EXCEPT !.holder = NoTask]
    BY <1>3 DEF prvCopyDataToQueue
  <2> HIDE DEF given, items, r
  <2>3. r.q \in AnyQueue /\ r.q.kind = q.kind /\ r.q.txLock = q.txLock
    BY <1>1, <2>2 DEF AnyQueue
  <2> QED
    BY <2>1, <2>2, <2>3 DEF QueueMoves, r
<1>4. CASE q.kind # "mutex"
  <2>1. r.k = s /\ r.q = put
    BY <1>4 DEF prvCopyDataToQueue
  <2> HIDE DEF given, items, r
  <2>2. r.q \in AnyQueue /\ r.q.kind = q.kind /\ r.q.txLock = q.txLock
    BY <1>1, <2>1 DEF AnyQueue
  <2>3. Moves(s, s)
    BY DEF Moves
  <2> QED
    BY <2>1, <2>2, <2>3 DEF QueueMoves, r
<1> QED
  BY <1>3, <1>4

\* A running task sends: the lists stay sound if it gives what it holds.
LEMMA SendWithRoomGood ==
  ASSUME NEW s \in Good, NEW q \in AnyQueue, NEW id \in Queue, NEW item \in Item,
         NEW position \in Position, NEW t \in Task, IsReady(s, t), HeldBy(s, q, t)
  PROVE  QueueMoves(s, q, SendWithRoom(s, q, id, item, position))
<1> DEFINE copied == prvCopyDataToQueue(s, q, item, position)
           e == <<id, "receive">>
           a == WakeOne(copied.k, e)
           b == YieldIf(copied.k, copied.yes)
           r == SendWithRoom(s, q, id, item, position)
<1>1. QueueMoves(s, q, copied)
  BY CopyDataGood DEF HeldBy
<1>2. e \in EventList
  BY DEF EventList
<1>3. r.q = copied.q /\ (r.k = a \/ r.k = b)
  BY DEF SendWithRoom
<1> HIDE DEF copied, e, r
<1>4. copied.k \in Good
  BY <1>1 DEF QueueMoves, Moves
<1>5. Moves(copied.k, a) /\ Moves(copied.k, b)
  BY <1>2, <1>4, WakeOneGood, YieldIfGood
<1> HIDE DEF a, b
<1>6. a \in Good /\ b \in Good
  BY <1>5 DEF Moves
<1>7. Moves(s, a) /\ Moves(s, b)
  BY <1>1, <1>4, <1>5, <1>6, MovesTransitive DEF QueueMoves
<1>8. QueueMoves(s, q, r)
  BY <1>1, <1>3, <1>7 DEF QueueMoves
<1> QED
  BY <1>8 DEF r

\* A running task takes the first item.
LEMMA TakeItemGood ==
  ASSUME NEW s \in Good, s.current \in Task, NEW q \in AnyQueue, q.items # <<>>,
         NEW id \in Queue, NEW again \in Nat
  PROVE  QueueMoves(s, q, TakeItem(s, q, id, again))
<1> DEFINE t == s.current
           e == <<id, "send">>
           n == s.held[t] + 1
           more == [s EXCEPT !.held[t] = n]
           taken == IF q.kind = "mutex" THEN [s EXCEPT !.held[t] = @ + 1] ELSE s
           holder == IF q.kind = "mutex" THEN t ELSE q.holder
           items == Tail(q.items)
           m == q.recursion + again
           left == [q EXCEPT !.items = items, !.recursion = m, !.holder = holder]
           v == WakeOne(taken, e)
           r == TakeItem(s, q, id, again)
<1>1. s \in KernelState /\ e \in EventList
  BY DEF Good, EventList
<1>2. r.k = v /\ r.q = left
  BY DEF TakeItem
<1>3. taken = s \/ taken = more
  OBVIOUS
<1>4. n \in Nat
  <2>1. s.held[s.current] \in Nat
    <3> HIDE DEF t, e, n, more, taken, holder, items, m, left, v, r
    <3> QED
      BY <1>1 DEF KernelState
  <2> QED
    BY <2>1
<1>5. holder \in Task \cup {NoTask} /\ items \in Seq(Item) /\ m \in Int
  BY DEF AnyQueue
<1> HIDE DEF n, holder, items, m, r, v
<1>6. more \in KernelState /\ SameLists(s, more) /\ more.current = s.current /\ more.schedSusp = s.schedSusp
  BY <1>1, <1>4, HeldTyped
<1>7. Moves(s, taken) /\ taken \in Good
  BY <1>3, <1>6, SameListsMoves DEF Moves
<1> HIDE DEF taken, more, e
<1>8. Moves(taken, v) /\ v \in Good
  BY <1>1, <1>7, WakeOneGood DEF v, Moves
<1>9. Moves(s, v)
  BY <1>7, <1>8, MovesTransitive
<1>10. left \in AnyQueue /\ left.kind = q.kind
  BY <1>5 DEF AnyQueue
<1> HIDE DEF left
<1>11. QueueMoves(s, q, r)
  BY <1>2, <1>9, <1>10 DEF QueueMoves
<1> QED
  BY <1>11 DEF r

\* Of xQueuePeek: it wakes another reader.
LEMMA PeekItemGood ==
  ASSUME NEW s \in Good, NEW q \in AnyQueue, NEW id \in Queue
  PROVE  QueueMoves(s, q, PeekItem(s, q, id))
<1>1. <<id, "receive">> \in EventList
  BY DEF EventList
<1> QED
  BY <1>1, WakeOneGood DEF PeekItem, QueueMoves

\* xQueueGenericReset wakes one sender.
LEMMA QueueResetGood ==
  ASSUME NEW s \in Good, NEW q \in AnyQueue, NEW id \in Queue
  PROVE  QueueMoves(s, q, xQueueGenericReset(s, q, id))
<1> DEFINE e == <<id, "send">>
           v == WakeOne(s, e)
           left == [q EXCEPT !.items = <<>>, !.rxLock = queueUNLOCKED, !.txLock = queueUNLOCKED]
           r == xQueueGenericReset(s, q, id)
<1>1. e \in EventList
  BY DEF EventList
<1>2. r.k = v /\ r.q = left
  BY DEF xQueueGenericReset
<1> HIDE DEF e
<1>3. Moves(s, v)
  BY <1>1, WakeOneGood
<1> HIDE DEF v, r
<1>4. left \in AnyQueue /\ left.kind = q.kind
  <2>1. <<>> \in Seq(Item) /\ queueUNLOCKED \in Int
    BY DEF queueUNLOCKED
  <2> QED
    BY <2>1 DEF AnyQueue
<1> HIDE DEF left
<1>5. QueueMoves(s, q, r)
  BY <1>2, <1>3, <1>4 DEF QueueMoves
<1> QED
  BY <1>5 DEF r

\* prvLockQueue changes the two counts of the lock.
LEMMA LockTyped ==
  ASSUME NEW q \in AnyQueue
  PROVE  prvLockQueue(q) \in AnyQueue /\ prvLockQueue(q).kind = q.kind
<1> DEFINE rx == IF q.rxLock = queueUNLOCKED THEN queueLOCKED_UNMODIFIED ELSE q.rxLock
           tx == IF q.txLock = queueUNLOCKED THEN queueLOCKED_UNMODIFIED ELSE q.txLock
<1>1. rx \in Int /\ tx \in Int
  BY DEF AnyQueue, queueLOCKED_UNMODIFIED
<1>2. prvLockQueue(q) = [q EXCEPT !.rxLock = rx, !.txLock = tx]
  BY DEF prvLockQueue
<1> HIDE DEF rx, tx
<1> QED
  BY <1>1, <1>2 DEF AnyQueue

\* prvUnlockQueue wakes a task for each item that came or went, at most.
LEMMA UnlockGood ==
  ASSUME NEW s \in Good, NEW q \in AnyQueue, NEW id \in Queue
  PROVE  QueueMoves(s, q, UnlockTx(s, q, id)) /\ QueueMoves(s, q, UnlockRx(s, q, id))
<1>1. <<id, "send">> \in EventList /\ <<id, "receive">> \in EventList
  BY DEF EventList
<1>2. q.txLock \in Int /\ q.rxLock \in Int /\ queueUNLOCKED \in Int
  BY DEF AnyQueue, queueUNLOCKED
<1>3. /\ Moves(s, WakeCounted(s, <<id, "receive">>, q.txLock))
      /\ Moves(s, WakeCounted(s, <<id, "send">>, q.rxLock))
  BY <1>1, <1>2, WakeCountedGood
<1>4. /\ [q EXCEPT !.txLock = queueUNLOCKED] \in AnyQueue
      /\ [q EXCEPT !.txLock = queueUNLOCKED].kind = q.kind
      /\ [q EXCEPT !.rxLock = queueUNLOCKED] \in AnyQueue
      /\ [q EXCEPT !.rxLock = queueUNLOCKED].kind = q.kind
  BY <1>2 DEF AnyQueue
<1> QED
  BY <1>3, <1>4 DEF UnlockTx, UnlockRx, QueueMoves

-----------------------------------------------------------------------------
(***************************************************************************)
(* Handlers.                                                               *)
(***************************************************************************)
LEMMA LockCountTyped ==
  ASSUME NEW q \in AnyQueue
  PROVE  /\ [q EXCEPT !.txLock = @ + 1] \in AnyQueue /\ [q EXCEPT !.txLock = @ + 1].kind = q.kind
         /\ [q EXCEPT !.rxLock = @ + 1] \in AnyQueue /\ [q EXCEPT !.rxLock = @ + 1].kind = q.kind
<1> DEFINE tx == q.txLock + 1
           rx == q.rxLock + 1
<1>1. tx \in Int /\ rx \in Int
  BY DEF AnyQueue
<1>2. [q EXCEPT !.txLock = @ + 1] = [q EXCEPT !.txLock = tx]
  OBVIOUS
<1>3. [q EXCEPT !.rxLock = @ + 1] = [q EXCEPT !.rxLock = rx]
  OBVIOUS
<1> HIDE DEF tx, rx
<1> QED
  BY <1>1, <1>2, <1>3 DEF AnyQueue

\* xQueueGenericSendFromISR: no handler gives a mutex (queue.c:1206).
LEMMA SendFromISRGood ==
  ASSUME NEW s \in Good, NEW q \in AnyQueue, q.kind # "mutex", NEW id \in Queue,
         NEW item \in Item, NEW position \in Position
  PROVE  QueueMoves(s, q, xQueueGenericSendFromISR(s, q, id, item, position))
<1> DEFINE copied == prvCopyDataToQueue(s, q, item, position)
           e == <<id, "receive">>
           v == WakeOne(copied.k, e)
           counted == [copied.q EXCEPT !.txLock = @ + 1]
           room == HasRoom(q, position)
           r == xQueueGenericSendFromISR(s, q, id, item, position)
<1>1. QueueMoves(s, q, copied)
  BY CopyDataGood
<1>2. e \in EventList
  BY DEF EventList
<1> HIDE DEF copied, e, room
<1>3. \/ r.k = s /\ r.q = q
      \/ r.k = v /\ r.q = copied.q
      \/ r.k = copied.k /\ r.q = counted
  <2>1. CASE ~room
    BY <2>1 DEF xQueueGenericSendFromISR, room
  <2>2. CASE room /\ q.txLock = queueUNLOCKED
    BY <2>2 DEF xQueueGenericSendFromISR, room, copied, e
  <2>3. CASE room /\ q.txLock # queueUNLOCKED
    BY <2>3 DEF xQueueGenericSendFromISR, room, copied
  <2> QED
    BY <2>1, <2>2, <2>3
<1>4. copied.k \in Good /\ copied.q \in AnyQueue /\ copied.q.kind = q.kind
  BY <1>1 DEF QueueMoves, Moves
<1>5. Moves(copied.k, v) /\ v \in Good
  BY <1>2, <1>4, WakeOneGood DEF Moves
<1> HIDE DEF v
<1>6. Moves(s, v) /\ Moves(s, s) /\ Moves(s, copied.k)
  BY <1>1, <1>4, <1>5, MovesTransitive DEF QueueMoves, Moves
<1>7. counted \in AnyQueue /\ counted.kind = q.kind
  BY <1>4, LockCountTyped
<1> HIDE DEF counted, r
<1>8. QueueMoves(s, q, r)
  BY <1>3, <1>4, <1>6, <1>7 DEF QueueMoves
<1> QED
  BY <1>8 DEF r

\* xQueueGiveFromISR
LEMMA GiveFromISRGood ==
  ASSUME NEW s \in Good, NEW q \in AnyQueue, NEW id \in Queue, NEW item \in Item
  PROVE  QueueMoves(s, q, xQueueGiveFromISR(s, q, id, item))
<1> DEFINE items == Append(q.items, item)
           given == [q EXCEPT !.items = items]
           e == <<id, "receive">>
           v == WakeOne(s, e)
           counted == [given EXCEPT !.txLock = @ + 1]
           room == HasRoom(q, "back")
           r == xQueueGiveFromISR(s, q, id, item)
<1>1. items \in Seq(Item)
  BY DEF AnyQueue
<1>2. e \in EventList
  BY DEF EventList
<1> HIDE DEF e, room
<1>3. \/ r.k = s /\ r.q = q
      \/ r.k = v /\ r.q = given
      \/ r.k = s /\ r.q = counted
  <2>1. CASE ~room
    BY <2>1 DEF xQueueGiveFromISR, room
  <2>2. CASE room /\ q.txLock = queueUNLOCKED
    BY <2>2 DEF xQueueGiveFromISR, room, e
  <2>3. CASE room /\ q.txLock # queueUNLOCKED
    BY <2>3 DEF xQueueGiveFromISR, room
  <2> QED
    BY <2>1, <2>2, <2>3
<1> HIDE DEF items, r
<1>4. given \in AnyQueue /\ given.kind = q.kind
  BY <1>1 DEF AnyQueue
<1> HIDE DEF given
<1>5. counted \in AnyQueue /\ counted.kind = q.kind
  BY <1>4, LockCountTyped
<1>6. Moves(s, v) /\ Moves(s, s)
  BY <1>2, WakeOneGood DEF Moves
<1> HIDE DEF counted, v
<1>7. QueueMoves(s, q, r)
  BY <1>3, <1>4, <1>5, <1>6 DEF QueueMoves
<1> QED
  BY <1>7 DEF r

\* xQueueReceiveFromISR
LEMMA ReceiveFromISRGood ==
  ASSUME NEW s \in Good, NEW q \in AnyQueue, NEW id \in Queue
  PROVE  QueueMoves(s, q, xQueueReceiveFromISR(s, q, id))
<1> DEFINE items == Tail(q.items)
           received == [q EXCEPT !.items = items]
           e == <<id, "send">>
           v == WakeOne(s, e)
           counted == [received EXCEPT !.rxLock = @ + 1]
           r == xQueueReceiveFromISR(s, q, id)
<1>1. e \in EventList
  BY DEF EventList
<1>2. Moves(s, v) /\ Moves(s, s)
  BY <1>1, WakeOneGood DEF Moves
<1> HIDE DEF e
<1>3. CASE prvIsQueueEmpty(q)
  <2>1. r.k = s /\ r.q = q
    BY <1>3 DEF xQueueReceiveFromISR
  <2> QED
    BY <1>2, <2>1 DEF QueueMoves
<1>4. CASE ~prvIsQueueEmpty(q)
  <2>1. items \in Seq(Item)
    <3>1. q.items \in Seq(Item)
      BY DEF AnyQueue
    <3>2. q.items # <<>>
      BY <1>4 DEF prvIsQueueEmpty, uxQueueMessagesWaiting
    <3> QED
      BY <3>1, <3>2
  <2>2. (r.k = v /\ r.q = received) \/ (r.k = s /\ r.q = counted)
    <3>1. CASE q.rxLock = queueUNLOCKED
      BY <1>4, <3>1 DEF xQueueReceiveFromISR, e
    <3>2. CASE q.rxLock # queueUNLOCKED
      BY <1>4, <3>2 DEF xQueueReceiveFromISR
    <3> QED
      BY <3>1, <3>2
  <2> HIDE DEF items, r, v
  <2>3. received \in AnyQueue /\ received.kind = q.kind
    BY <2>1 DEF AnyQueue
  <2> HIDE DEF received
  <2>4. counted \in AnyQueue /\ counted.kind = q.kind
    BY <2>3, LockCountTyped
  <2> HIDE DEF counted
  <2>5. QueueMoves(s, q, r)
    BY <1>2, <2>2, <2>3, <2>4 DEF QueueMoves
  <2> QED
    BY <2>5 DEF r
<1> QED
  BY <1>3, <1>4

-----------------------------------------------------------------------------
\* vTaskSuspendAll, by a task that has not suspended the scheduler.
LEMMA SuspendAllGood ==
  ASSUME NEW s \in Good, s.schedSusp = 0
  PROVE  LET r == vTaskSuspendAll(s)
         IN /\ r \in Good /\ r.current = s.current /\ r.schedSusp = 1
            /\ \A u \in Task : (Away(r, u) <=> Away(s, u)) /\ (IsReady(r, u) <=> IsReady(s, u))
<1> DEFINE r == vTaskSuspendAll(s)
<1>1. s \in KernelState
  BY DEF Good
<1>2. r = [s EXCEPT !.schedSusp = 1]
  <2>1. s.schedSusp + 1 = 1
    OBVIOUS
  <2> QED
    BY <2>1 DEF vTaskSuspendAll
<1> HIDE DEF r
<1>3. r \in KernelState
  BY <1>1, <1>2, CountsTyped
<1>4. SameLists(s, r) /\ r.current = s.current /\ r.schedSusp = 1
  BY <1>1, <1>2 DEF KernelState, SameLists
<1>5. r \in Good /\ \A u \in Task : (Away(r, u) <=> Away(s, u)) /\ (IsReady(r, u) <=> IsReady(s, u))
  BY <1>3, <1>4, SameListsGood
<1> QED
  BY <1>4, <1>5 DEF r

\* The count of the takes of a recursive mutex.
LEMMA RecursionTyped ==
  ASSUME NEW q \in AnyQueue
  PROVE  /\ [q EXCEPT !.recursion = @ + 1] \in AnyQueue
         /\ [q EXCEPT !.recursion = @ + 1].kind = q.kind
         /\ [q EXCEPT !.recursion = @ - 1] \in AnyQueue
         /\ [q EXCEPT !.recursion = @ - 1].kind = q.kind
         /\ [q EXCEPT !.recursion = @ - 1].holder = q.holder
         /\ [q EXCEPT !.recursion = @ - 1].recursion = 0 => q.recursion = 1
<1> DEFINE more == q.recursion + 1
           less == q.recursion - 1
<1>1. more \in Int /\ less \in Int /\ (less = 0 => q.recursion = 1)
  BY DEF AnyQueue
<1>2. [q EXCEPT !.recursion = @ + 1] = [q EXCEPT !.recursion = more]
  OBVIOUS
<1>3. [q EXCEPT !.recursion = @ - 1] = [q EXCEPT !.recursion = less]
  OBVIOUS
<1> HIDE DEF more, less
<1> QED
  BY <1>1, <1>2, <1>3 DEF AnyQueue

-----------------------------------------------------------------------------
(***************************************************************************)
(* Which task runs.  The bits of the priorities say which ready lists have *)
(* tasks, and the running task is a most urgent one of those that are      *)
(* ready; while the scheduler is suspended it need not be, if a yield is   *)
(* pending.                                                                *)
(***************************************************************************)
Exact(s) == \A p \in Priority : p \in s.top <=> ToSet(s.ready[p].items) # {}

Urgent(s) ==
  \A t \in Task : IsReady(s, t) => s.current \in Task /\ s.prio[t] <= s.prio[s.current]

Sched(s) == Exact(s) /\ (Urgent(s) \/ (s.schedSusp # 0 /\ s.yieldPending))

\* The priorities, the running task and the scheduler are the same.
SameRanks(s, r) ==
  /\ r.prio = s.prio /\ r.current = s.current
  /\ r.schedSusp = s.schedSusp /\ r.yieldPending = s.yieldPending

\* r comes from s, and no task but those in W has become ready.
Readies(s, r, W) ==
  /\ SameRanks(s, r)
  /\ Exact(s) => Exact(r)
  /\ \A u \in Task : IsReady(r, u) => IsReady(s, u) \/ u \in W

\* Nothing the scheduler looks at is changed.
SameRun(s, r) == SameRanks(s, r) /\ r.ready = s.ready /\ r.top = s.top

\* Then it sees the same.
LEMMA SameRunSched ==
  ASSUME NEW s, NEW r, SameRun(s, r)
  PROVE  /\ Readies(s, r, {})
         /\ (Exact(r) <=> Exact(s)) /\ (Urgent(r) <=> Urgent(s)) /\ (Sched(r) <=> Sched(s))
BY DEF SameRun, SameRanks, Readies, Exact, Urgent, Sched, IsReady

\* Steps that ready tasks compose.
LEMMA ReadiesTransitive ==
  ASSUME NEW s, NEW r, NEW v, NEW W, NEW X, Readies(s, r, W), Readies(r, v, X)
  PROVE  Readies(s, v, W \cup X)
BY DEF Readies, SameRanks

\* What each of n steps leaves in T ends there.
LEMMA StaysIn ==
  ASSUME NEW n \in Nat, NEW T, NEW a, a[0] \in T,
         \A i \in 1..n : a[i - 1] \in T => a[i] \in T
  PROVE  a[n] \in T
<1> DEFINE P == [i \in 0..n |-> T]
<1>1. \A i \in 0..n : P[i] = T
  OBVIOUS
<1>2. 0 \in 0..n /\ n \in 0..n /\ \A i \in 1..n : i \in 0..n /\ i - 1 \in 0..n
  OBVIOUS
<1> HIDE DEF P
<1> QED
  BY <1>1, <1>2, ChainIn

\* A list of one task is that task.
LEMMA OnlyOne ==
  ASSUME NEW items \in Seq(Task), IsInjective(items), NEW t, ToSet(items) = {t}
  PROVE  items = <<t>>
<1>1. \A i \in 1..Len(items) : items[i] = t
  BY DEF ToSet
<1>2. Len(items) \in Nat /\ DOMAIN items = 1..Len(items)
  OBVIOUS
<1>3. Len(items) # 0
  <2>1. PICK i \in DOMAIN items : items[i] = t
    BY DEF ToSet
  <2> QED
    BY <1>2, <2>1
<1>4. Len(items) < 2
  <2> SUFFICES ASSUME Len(items) >= 2 PROVE FALSE
    BY <1>2
  <2>1. 1 \in 1..Len(items) /\ 2 \in 1..Len(items)
    BY <1>2
  <2> QED
    BY <1>1, <1>2, <2>1 DEF IsInjective
<1>5. Len(items) = 1 /\ items[1] = t
  BY <1>1, <1>2, <1>3, <1>4
<1> QED
  BY <1>5

\* What is left in the ready lists without the state item of t.
LEMMA RemoveStateRun ==
  ASSUME NEW s \in Good, NEW t \in Task
  PROVE  LET r == RemoveStateItem(s, t)
         IN /\ SameRanks(s, r) /\ r.top = s.top
            /\ \A p \in Priority : ToSet(r.ready[p].items) = ToSet(s.ready[p].items) \ {t}
<1> DEFINE r == RemoveStateItem(s, t)
<1>1. s \in KernelState /\ \A p \in Priority : SoundList(s.ready[p])
  BY DEF Good, Shape
<1>2. \A p \in Priority : ToSet(uxListRemove(s.ready[p], t).items) = ToSet(s.ready[p].items) \ {t}
  BY <1>1, RemoveFromReady
<1>3. SameRanks(s, r) /\ r.top = s.top /\ \A p \in Priority : r.ready[p] = uxListRemove(s.ready[p], t)
  BY <1>1 DEF KernelState, RemoveStateItem, SameRanks
<1> QED
  BY <1>2, <1>3

\* An event item is not in the ready lists.
LEMMA RemoveEventRun ==
  ASSUME NEW s \in Good, NEW t \in Task
  PROVE  SameRun(s, RemoveEventItem(s, t))
BY DEF Good, KernelState, RemoveEventItem, SameRun, SameRanks

\* A task is added to the list of its priority, and the bit of that is set.
LEMMA AddReadyRun ==
  ASSUME NEW s \in Good, NEW t \in Task, Away(s, t)
  PROVE  LET r == prvAddTaskToReadyList(s, t)
         IN /\ SameRanks(s, r) /\ r.top = s.top \cup {s.prio[t]}
            /\ \A p \in Priority :
                 ToSet(r.ready[p].items) = IF p = s.prio[t] THEN ToSet(s.ready[p].items) \cup {t}
                                           ELSE ToSet(s.ready[p].items)
<1> DEFINE r == prvAddTaskToReadyList(s, t)
           q == s.prio[t]
<1>1. s \in KernelState /\ q \in Priority /\ SoundList(s.ready[q]) /\ t \notin ToSet(s.ready[q].items)
  BY DEF Good, KernelState, Shape, Away
<1>2. ToSet(vListInsertEnd(s.ready[q], t).items) = ToSet(s.ready[q].items) \cup {t}
  BY <1>1, InsertIntoReady
<1>3. /\ SameRanks(s, r) /\ r.top = s.top \cup {q}
      /\ \A p \in Priority : r.ready[p] = IF p = q THEN vListInsertEnd(s.ready[q], t) ELSE s.ready[p]
  BY <1>1 DEF KernelState, prvAddTaskToReadyList, SameRanks
<1> QED
  BY <1>2, <1>3

\* Unblocking readies one task.
LEMMA UnblockRun ==
  ASSUME NEW s \in Good, NEW t \in Task
  PROVE  Readies(s, Unblock(s, t), {t})
<1> DEFINE a == RemoveStateItem(s, t)
           b == RemoveEventItem(a, t)
           c == prvAddTaskToReadyList(b, t)
<1>1. a \in Good /\ Away(a, t)
  BY RemoveStateGood
<1>2. /\ SameRanks(s, a) /\ a.top = s.top
      /\ \A p \in Priority : ToSet(a.ready[p].items) = ToSet(s.ready[p].items) \ {t}
  BY RemoveStateRun
<1>3. Unblock(s, t) = c
  BY DEF Unblock
<1> HIDE DEF a
<1>4. b \in Good /\ Away(b, t)
  BY <1>1, RemoveEventGood
<1>5. SameRun(a, b)
  BY <1>1, RemoveEventRun
<1> HIDE DEF b
<1>6. /\ SameRanks(b, c) /\ c.top = b.top \cup {b.prio[t]}
      /\ \A p \in Priority :
           ToSet(c.ready[p].items) = IF p = b.prio[t] THEN ToSet(b.ready[p].items) \cup {t}
                                     ELSE ToSet(b.ready[p].items)
  BY <1>4, AddReadyRun
<1> HIDE DEF c
<1>7. s.prio \in [Task -> Priority] /\ \A p \in Priority : t \in ToSet(s.ready[p].items) => p = s.prio[t]
  BY DEF Good, KernelState, Placed
<1>8. SameRanks(s, c) /\ c.top = s.top \cup {s.prio[t]}
  BY <1>2, <1>5, <1>6 DEF SameRun, SameRanks
<1>9. \A p \in Priority :
        ToSet(c.ready[p].items) = IF p = s.prio[t] THEN ToSet(s.ready[p].items) \cup {t}
                                  ELSE ToSet(s.ready[p].items)
  <2> SUFFICES ASSUME NEW p \in Priority
               PROVE  ToSet(c.ready[p].items) = IF p = s.prio[t] THEN ToSet(s.ready[p].items) \cup {t}
                                                ELSE ToSet(s.ready[p].items)
    OBVIOUS
  <2>1. ToSet(b.ready[p].items) = ToSet(s.ready[p].items) \ {t} /\ b.prio[t] = s.prio[t]
    BY <1>2, <1>5 DEF SameRun, SameRanks
  <2>2. p # s.prio[t] => t \notin ToSet(s.ready[p].items)
    BY <1>7
  <2> QED
    BY <1>6, <2>1, <2>2
<1>10. Exact(s) => Exact(c)
  BY <1>8, <1>9 DEF Exact
<1>11. \A u \in Task : IsReady(c, u) => IsReady(s, u) \/ u \in {t}
  BY <1>7, <1>8, <1>9 DEF IsReady, SameRanks
<1> QED
  BY <1>3, <1>8, <1>10, <1>11 DEF Readies

\* A ready task is alone in no other list.
LEMMA ReadyIsNotAlone ==
  ASSUME NEW s \in Good, NEW t \in Task, IsReady(s, t), AloneInList(s, t)
  PROVE  \E p \in Priority : s.ready[p].items = <<t>>
<1>1. /\ t \notin ToSet(s.delayed) /\ t \notin ToSet(s.overflow)
      /\ t \notin s.suspended /\ t \notin ToSet(s.terminating)
  BY DEF Good, Placed
<1>2. t \in ToSet(<<t>>)
  BY DEF ToSet
<1> QED
  BY <1>1, <1>2 DEF AloneInList

\* A ready task leaves its list, and takes the bit with it if it was the last.
LEMMA LeaveReadyRun ==
  ASSUME NEW s \in Good, NEW t \in Task, IsReady(s, t)
  PROVE  LET r == LeaveReadyList(s, t, s.prio[t])
         IN /\ SameRanks(s, r) /\ (Exact(s) => Exact(r))
            /\ \A p \in Priority : ToSet(r.ready[p].items) = ToSet(s.ready[p].items) \ {t}
<1> DEFINE q == s.prio[t]
           a == RemoveStateItem(s, t)
           b == portRESET_READY_PRIORITY(a, q)
           r == LeaveReadyList(s, t, q)
<1>1. /\ SameRanks(s, a) /\ a.top = s.top
      /\ \A p \in Priority : ToSet(a.ready[p].items) = ToSet(s.ready[p].items) \ {t}
  BY RemoveStateRun
<1>2. a \in KernelState
  BY RemoveStateGood DEF Good
<1>3. r = IF AloneInList(s, t) THEN b ELSE a
  BY DEF LeaveReadyList
<1> HIDE DEF a
<1>4. SameRanks(a, b) /\ b.ready = a.ready /\ b.top = a.top \ {q}
  BY <1>2 DEF KernelState, portRESET_READY_PRIORITY, SameRanks
<1> HIDE DEF b, r
<1>5. /\ q \in Priority /\ s.ready[q].items \in Seq(Task) /\ IsInjective(s.ready[q].items)
      /\ t \in ToSet(s.ready[q].items)
      /\ \A p \in Priority : t \in ToSet(s.ready[p].items) => p = q
  BY DEF Good, KernelState, Shape, SoundList, Placed, IsReady
<1>6. AloneInList(s, t) <=> ToSet(s.ready[q].items) = {t}
  <2>1. AloneInList(s, t) => \E p \in Priority : s.ready[p].items = <<t>>
    BY ReadyIsNotAlone
  <2>2. \A p \in Priority : s.ready[p].items = <<t>> => p = q
    BY <1>5 DEF ToSet
  <2>3. s.ready[q].items = <<t>> => ToSet(s.ready[q].items) = {t}
    BY DEF ToSet
  <2>4. ToSet(s.ready[q].items) = {t} => s.ready[q].items = <<t>>
    BY <1>5, OnlyOne
  <2> QED
    BY <1>5, <2>1, <2>2, <2>3, <2>4 DEF AloneInList
<1>7. SameRanks(s, r) /\ \A p \in Priority : ToSet(r.ready[p].items) = ToSet(s.ready[p].items) \ {t}
  BY <1>1, <1>3, <1>4 DEF SameRanks
<1>8. Exact(s) => Exact(r)
  <2> SUFFICES ASSUME Exact(s), NEW p \in Priority
               PROVE  p \in r.top <=> ToSet(r.ready[p].items) # {}
    BY DEF Exact
  <2>1. CASE p = q
    <3>1. q \in s.top
      BY <1>5 DEF Exact
    <3>2. CASE AloneInList(s, t)
      BY <1>1, <1>3, <1>4, <1>6, <1>7, <2>1, <3>2
    <3>3. CASE ~AloneInList(s, t)
      <4>1. ToSet(s.ready[q].items) \ {t} # {}
        BY <1>5, <1>6, <3>3
      <4>2. q \in r.top
        BY <1>1, <1>3, <3>1, <3>3
      <4> QED
        BY <1>5, <1>7, <2>1, <4>1, <4>2
    <3> QED
      BY <3>2, <3>3
  <2>2. CASE p # q
    <3>1. t \notin ToSet(s.ready[p].items) /\ (p \in s.top <=> ToSet(s.ready[p].items) # {})
      BY <1>5, <2>2 DEF Exact
    <3>2. p \in r.top <=> p \in s.top
      BY <1>1, <1>3, <1>4, <2>2
    <3> QED
      BY <1>7, <3>1, <3>2
  <2> QED
    BY <2>1, <2>2
<1> QED
  BY <1>7, <1>8 DEF r

\* Unblocking several readies them.
LEMMA UnblockAllRun ==
  ASSUME NEW s \in Good, NEW tasks \in Seq(Task)
  PROVE  Readies(s, UnblockAll(s, tasks), ToSet(tasks))
<1> DEFINE n == Len(tasks)
           T == {r \in Good : Readies(s, r, ToSet(tasks))}
<1>1. n \in Nat /\ n \in 0..n /\ 0 \in 0..n /\ \A i \in 1..n : i \in 0..n /\ i - 1 \in 0..n
  OBVIOUS
<1>2. \A i \in 1..n : tasks[i] \in ToSet(tasks)
  BY DEF ToSet
<1>3. PICK a : /\ a[0] = s /\ UnblockAll(s, tasks) = a[n]
               /\ \A i \in 1..n : /\ tasks[i] \in Task /\ a[i - 1] \in Good
                                  /\ a[i] = Unblock(a[i - 1], tasks[i])
  BY UnblockAllSteps
<1> HIDE DEF n
<1>4. s \in T
  BY DEF Readies, SameRanks
<1>5. ASSUME NEW i \in 1..n, a[i - 1] \in T PROVE a[i] \in T
  <2> DEFINE r == a[i - 1]
             v == Unblock(r, tasks[i])
  <2>1. r \in Good /\ Readies(s, r, ToSet(tasks)) /\ a[i] = v /\ tasks[i] \in Task
    BY <1>3, <1>5
  <2> HIDE DEF r
  <2>2. v \in Good /\ Readies(r, v, {tasks[i]})
    BY <2>1, UnblockGood, UnblockRun DEF Moves
  <2> HIDE DEF v
  <2>3. Readies(s, v, ToSet(tasks) \cup {tasks[i]})
    BY <2>1, <2>2, ReadiesTransitive
  <2>4. ToSet(tasks) \cup {tasks[i]} = ToSet(tasks)
    BY <1>2
  <2> QED
    BY <2>1, <2>2, <2>3, <2>4
<1> HIDE DEF T
<1>6. a[n] \in T
  BY <1>1, <1>3, <1>4, <1>5, StaysIn
<1> QED
  BY <1>3, <1>6 DEF T

\* The order of the delayed list and its times are not of the ready lists.
LEMMA ResetUnblockRun ==
  ASSUME NEW s \in Good
  PROVE  SameRun(s, prvResetNextTaskUnblockTime(s))
BY DEF Good, KernelState, prvResetNextTaskUnblockTime, SameRun, SameRanks

\* The tasks that a tick wakes.
Woken(s) == IF s.tick >= s.unblock THEN ToSet(DueTasks(s)) ELSE {}

\* The tick readies the tasks that are due.
LEMMA UnblockDueRun ==
  ASSUME NEW s \in Good
  PROVE  Readies(s, UnblockDueTasks(s), Woken(s))
<1> DEFINE r == UnblockAll(s, DueTasks(s))
           v == prvResetNextTaskUnblockTime(r)
<1>1. CASE s.tick >= s.unblock
  <2>1. DueTasks(s) \in Seq(Task)
    BY DueTasksTyped
  <2>2. r \in Good /\ Readies(s, r, Woken(s))
    BY <1>1, <2>1, UnblockAllGood, UnblockAllRun DEF Moves, Woken
  <2>3. UnblockDueTasks(s) = v
    BY <1>1 DEF UnblockDueTasks
  <2> HIDE DEF r
  <2>4. Readies(r, v, {})
    BY <2>2, ResetUnblockRun, SameRunSched
  <2> HIDE DEF v
  <2>5. Readies(s, v, Woken(s) \cup {})
    BY <2>2, <2>4, ReadiesTransitive
  <2>6. Woken(s) \cup {} = Woken(s)
    OBVIOUS
  <2> QED
    BY <2>3, <2>5, <2>6
<1>2. CASE ~(s.tick >= s.unblock)
  BY <1>2 DEF UnblockDueTasks, Readies, SameRanks
<1> QED
  BY <1>1, <1>2

\* The tick count alone.
LEMMA TickTyped ==
  ASSUME NEW s \in KernelState, NEW n \in Ticks
  PROVE  [s EXCEPT !.tick = n] \in KernelState
BY DEF KernelState

\* A tick says when to yield: no task that it readies without is as urgent as the
\* running one.
LEMMA IncrementTickRun ==
  ASSUME NEW s \in Good, s.current \in Task, s.schedSusp = 0
  PROVE  LET r == xTaskIncrementTick(s)
         IN /\ SameRanks(s, r.k) /\ (Exact(s) => Exact(r.k))
            /\ r.yes \/ (Urgent(s) => Urgent(r.k))
<1> DEFINE ticked == [s EXCEPT !.tick = (@ + 1) % TickMod]
           turned == IF ticked.tick = 0 THEN taskSWITCH_DELAYED_LISTS(ticked) ELSE ticked
           after == UnblockDueTasks(turned)
           r == xTaskIncrementTick(s)
<1>1. s \in KernelState
  BY DEF Good
<1>2. ticked \in Good /\ SameRun(s, ticked)
  <2> DEFINE n == (s.tick + 1) % TickMod
             v == [s EXCEPT !.tick = n]
  <2>1. n \in Ticks
    <3>1. s.tick + 1 \in Int
      BY <1>1 DEF KernelState, Ticks
    <3> QED
      BY <3>1, TicksWrap
  <2>2. ticked = v
    OBVIOUS
  <2> HIDE DEF n, ticked, turned, r
  <2>3. v \in KernelState
    BY <1>1, <2>1, TickTyped
  <2>4. SameLists(s, v) /\ SameRun(s, v)
    BY <1>1 DEF KernelState, SameLists, SameRun, SameRanks
  <2> QED
    BY <2>2, <2>3, <2>4, SameListsGood
<1>3. /\ r.k = after
      /\ (\E t \in Woken(turned) : s.prio[t] >= s.prio[s.current]) => r.yes
  BY DEF xTaskIncrementTick, Answer, Woken
<1> HIDE DEF ticked, r
<1>4. turned \in Good /\ SameRun(ticked, turned)
  <2>1. taskSWITCH_DELAYED_LISTS(ticked) \in Good
    BY <1>2, SwitchListsGood DEF Moves
  <2>2. SameRun(ticked, taskSWITCH_DELAYED_LISTS(ticked))
    BY <1>2 DEF Good, KernelState, taskSWITCH_DELAYED_LISTS, prvResetNextTaskUnblockTime, SameRun, SameRanks
  <2>3. SameRun(ticked, ticked)
    BY DEF SameRun, SameRanks
  <2> QED
    BY <1>2, <2>1, <2>2, <2>3
<1> HIDE DEF turned
<1>5. Readies(turned, after, Woken(turned))
  BY <1>4, UnblockDueRun
<1> HIDE DEF after
<1>6. SameRun(s, turned)
  BY <1>2, <1>4 DEF SameRun, SameRanks
<1>7. Readies(s, after, Woken(turned))
  BY <1>5, <1>6 DEF Readies, SameRun, SameRanks, Exact, IsReady
<1>8. ASSUME ~r.yes, Urgent(s) PROVE Urgent(after)
  <2> SUFFICES ASSUME NEW u \in Task, IsReady(after, u)
               PROVE  after.current \in Task /\ after.prio[u] <= after.prio[after.current]
    BY DEF Urgent
  <2>1. s.prio[u] \in Int /\ s.prio[s.current] \in Int
    BY <1>1 DEF KernelState, Priority
  <2>2. CASE IsReady(s, u)
    BY <1>7, <1>8, <2>2 DEF Readies, SameRanks, Urgent
  <2>3. CASE u \in Woken(turned)
    <3>1. ~(s.prio[u] >= s.prio[s.current])
      BY <1>3, <1>8, <2>3
    <3> QED
      BY <1>7, <2>1, <3>1 DEF Readies, SameRanks
  <2> QED
    BY <1>7, <2>2, <2>3 DEF Readies
<1> QED
  BY <1>3, <1>7, <1>8 DEF Readies, r

\* The highest bit is that of a list with tasks, and what the index walks to
\* there is a most urgent task.
LEMMA SelectRun ==
  ASSUME NEW s \in Good, Exact(s)
  PROVE  LET r == taskSELECT_HIGHEST_PRIORITY_TASK(s)
         IN Exact(r) /\ Urgent(r) /\ r.schedSusp = s.schedSusp
<1> DEFINE p == CHOOSE q \in s.top : \A r \in s.top : r <= q
           list == s.ready[p]
           owner == listGET_OWNER_OF_NEXT_ENTRY(list)
           none == [s EXCEPT !.current = NoTask]
           next == [s EXCEPT !.current = owner, !.ready[p] = WalkToNext(@)]
<1>1. s \in KernelState /\ Shape(s) /\ \A u \in Task : Placed(s, u) /\ s.prio[u] \in Priority
  BY DEF Good, KernelState
<1>2. CASE s.top = {}
  <2>1. taskSELECT_HIGHEST_PRIORITY_TASK(s) = none
    BY <1>2 DEF taskSELECT_HIGHEST_PRIORITY_TASK
  <2>2. /\ none.ready = s.ready /\ none.top = s.top /\ none.prio = s.prio
        /\ none.schedSusp = s.schedSusp
    BY <1>1 DEF KernelState
  <2> HIDE DEF none
  <2>3. \A u \in Task : ~IsReady(none, u)
    BY <1>1, <1>2, <2>2 DEF IsReady, Exact
  <2> QED
    BY <2>1, <2>2, <2>3 DEF Exact, Urgent
<1>3. CASE s.top # {}
  <2>1. p \in s.top /\ \A q \in s.top : q <= p
    <3>1. MaxPriorities - 1 \in Nat /\ s.top \in SUBSET (0..(MaxPriorities - 1))
      BY <1>1, TaskAssumption DEF KernelState, Priority
    <3>2. \E q \in s.top : \A r \in s.top : r <= q
      BY <1>3, <3>1, Greatest
    <3> QED
      BY <3>2
  <2>2. p \in Priority
    BY <1>1, <2>1 DEF KernelState
  <2>3. ToSet(list.items) # {}
    BY <2>1, <2>2 DEF Exact
  <2>4. list.items # <<>>
    BY <2>3 DEF ToSet
  <2>5. taskSELECT_HIGHEST_PRIORITY_TASK(s) = next
    BY <1>3, <2>4 DEF taskSELECT_HIGHEST_PRIORITY_TASK
  <2> HIDE DEF p
  <2>6. SoundList(list)
    BY <1>1, <2>2 DEF Shape
  <2> DEFINE walked == WalkToNext(list)
  <2>7. walked.items = list.items /\ owner \in ToSet(list.items)
    <3> HIDE DEF list
    <3> QED
      BY <2>4, <2>6, WalkInReady
  <2> HIDE DEF owner
  <2>8. owner \in Task
    BY <2>6, <2>7 DEF SoundList, ToSet
  <2>9. /\ next.prio = s.prio /\ next.top = s.top /\ next.schedSusp = s.schedSusp
        /\ next.current = owner
        /\ \A q \in Priority : next.ready[q] = IF q = p THEN walked ELSE s.ready[q]
    BY <1>1, <2>2 DEF KernelState
  <2> HIDE DEF next, walked
  <2>10. \A q \in Priority : next.ready[q].items = s.ready[q].items
    BY <2>7, <2>9
  <2>11. s.prio[owner] = p
    BY <1>1, <2>2, <2>7, <2>8 DEF Placed
  <2> HIDE DEF list
  <2>12. Exact(next)
    BY <2>9, <2>10 DEF Exact
  <2>13. Urgent(next)
    <3> SUFFICES ASSUME NEW u \in Task, IsReady(next, u) PROVE next.prio[u] <= next.prio[next.current]
      BY <2>8, <2>9 DEF Urgent
    <3>1. u \in ToSet(s.ready[s.prio[u]].items)
      BY <1>1, <2>9, <2>10 DEF IsReady
    <3>2. s.prio[u] \in s.top
      BY <1>1, <3>1 DEF Exact
    <3> QED
      BY <2>1, <2>9, <2>11, <3>2
  <2> QED
    BY <2>5, <2>9, <2>12, <2>13
<1> QED
  BY <1>2, <1>3

\* After a context switch the running task is a most urgent one, or the switch is
\* put off.
LEMMA SwitchRun ==
  ASSUME NEW s \in Good, Exact(s)
  PROVE  Sched(vTaskSwitchContext(s))
<1>1. s \in KernelState
  BY DEF Good
<1>2. CASE s.schedSusp # 0
  <2> DEFINE r == [s EXCEPT !.yieldPending = TRUE]
  <2>1. r.ready = s.ready /\ r.top = s.top /\ r.schedSusp = s.schedSusp /\ r.yieldPending
    BY <1>1 DEF KernelState
  <2> QED
    BY <1>2, <2>1 DEF vTaskSwitchContext, Sched, Exact
<1>3. CASE s.schedSusp = 0
  <2> DEFINE r == [s EXCEPT !.yieldPending = FALSE]
             v == taskSELECT_HIGHEST_PRIORITY_TASK(r)
  <2>1. r \in KernelState /\ SameLists(s, r) /\ r.top = s.top
    BY <1>1 DEF KernelState, SameLists
  <2>2. r \in Good /\ Exact(r)
    BY <2>1, SameListsGood DEF Exact, SameLists
  <2>3. Exact(v) /\ Urgent(v)
    <3> HIDE DEF r
    <3> QED
      BY <2>2, SelectRun
  <2>4. vTaskSwitchContext(s) = v
    BY <1>3 DEF vTaskSwitchContext
  <2> QED
    BY <2>3, <2>4 DEF Sched
<1> QED
  BY <1>2, <1>3

\* A switch that is made when it is due.
LEMMA YieldIfRun ==
  ASSUME NEW s \in Good, Exact(s), NEW b, b \/ Sched(s)
  PROVE  Sched(YieldIf(s, b))
BY SwitchRun DEF YieldIf

\* The handler of the tick.
LEMMA TickRun ==
  ASSUME NEW s \in Good, Sched(s), s.current \in Task
  PROVE  LET r == xTaskIncrementTick(s) IN Sched(YieldIf(r.k, r.yes))
<1> DEFINE r == xTaskIncrementTick(s)
<1>1. r.k \in Good
  BY IncrementTickGood DEF Moves
<1>2. CASE s.schedSusp # 0
  <2>1. SameRun(s, r.k)
    BY <1>2 DEF xTaskIncrementTick, Answer, Good, KernelState, SameRun, SameRanks
  <2>2. Sched(r.k) /\ Exact(r.k)
    BY <2>1, SameRunSched DEF Sched
  <2> HIDE DEF r
  <2> QED
    BY <1>1, <2>2, YieldIfRun DEF r
<1>3. CASE s.schedSusp = 0
  <2>1. Exact(r.k) /\ (r.yes \/ Urgent(r.k))
    BY <1>3, IncrementTickRun DEF Sched
  <2> HIDE DEF r
  <2> QED
    BY <1>1, <2>1, YieldIfRun DEF r, Sched
<1> QED
  BY <1>2, <1>3

\* A task is at its place, or a yield is pending.
Lags(s) == Exact(s) /\ (Urgent(s) \/ s.yieldPending)

\* A task that comes from the pending list has a yield set if it is urgent.
LEMMA FromPendingRun ==
  ASSUME NEW s \in Good, NEW t \in Task, s.current \in Task, Lags(s)
  PROVE  LET r == FromPending(s, t)
         IN Lags(r) /\ r.current = s.current /\ r.schedSusp = s.schedSusp
<1> DEFINE a == Unblock(s, t)
           b == [a EXCEPT !.yieldPending = TRUE]
           r == FromPending(s, t)
<1>1. a \in KernelState /\ Readies(s, a, {t})
  BY UnblockGood, UnblockRun DEF Moves, Good
<1>2. r = IF s.prio[t] >= s.prio[s.current] THEN b ELSE a
  BY DEF FromPending
<1> HIDE DEF a, r
<1>3. /\ b.ready = a.ready /\ b.top = a.top /\ b.current = a.current /\ b.schedSusp = a.schedSusp
      /\ b.yieldPending
  BY <1>1 DEF KernelState
<1> HIDE DEF b
<1>4. s.prio[t] \in Int /\ s.prio[s.current] \in Int
  BY DEF Good, KernelState, Priority
<1>5. Exact(a) /\ Exact(b)
  BY <1>1, <1>3 DEF Readies, Lags, Exact
<1>6. CASE s.prio[t] >= s.prio[s.current]
  BY <1>1, <1>2, <1>3, <1>5, <1>6 DEF Lags, Readies, SameRanks, r
<1>7. CASE ~(s.prio[t] >= s.prio[s.current])
  <2>1. Urgent(s) => Urgent(a)
    BY <1>1, <1>4, <1>7 DEF Readies, SameRanks, Urgent
  <2> QED
    BY <1>1, <1>2, <1>5, <1>7, <2>1 DEF Lags, Readies, SameRanks, r
<1> QED
  BY <1>6, <1>7

\* So do all of them.
LEMMA UnblockPendingRun ==
  ASSUME NEW s \in Good, NEW tasks \in Seq(Task), s.current \in Task, Lags(s)
  PROVE  LET r == UnblockPending(s, tasks)
         IN Lags(r) /\ r.current = s.current /\ r.schedSusp = s.schedSusp
<1> DEFINE n == Len(tasks)
           T == {r \in Good : Lags(r) /\ r.current = s.current /\ r.schedSusp = s.schedSusp}
<1>1. n \in Nat
  OBVIOUS
<1>2. PICK a : /\ a[0] = s /\ UnblockPending(s, tasks) = a[n]
               /\ \A i \in 1..n : /\ tasks[i] \in Task /\ a[i - 1] \in Good
                                  /\ a[i] = FromPending(a[i - 1], tasks[i])
  BY UnblockPendingSteps
<1> HIDE DEF n
<1>3. a[0] \in T
  BY <1>2
<1>4. ASSUME NEW i \in 1..n, a[i - 1] \in T PROVE a[i] \in T
  <2> DEFINE r == a[i - 1]
  <2>1. /\ r \in Good /\ Lags(r) /\ r.current = s.current /\ r.schedSusp = s.schedSusp
        /\ a[i] = FromPending(r, tasks[i]) /\ tasks[i] \in Task
    BY <1>2, <1>4
  <2> HIDE DEF r
  <2>2. FromPending(r, tasks[i]) \in Good
    BY <2>1, FromPendingGood DEF Moves
  <2> QED
    BY <2>1, <2>2, FromPendingRun
<1> HIDE DEF T
<1>5. a[n] \in T
  BY <1>1, <1>2, <1>3, <1>4, StaysIn
<1> QED
  BY <1>2, <1>5 DEF T

\* A tick that was put off has a yield set where it would have asked for one.
LEMMA PendedTickRun ==
  ASSUME NEW s \in Good, s.current \in Task, s.schedSusp = 0, Lags(s), NEW i
  PROVE  LET r == PendedTick(s, i)
         IN Lags(r) /\ r.current = s.current /\ r.schedSusp = 0
<1> DEFINE ticked == xTaskIncrementTick(s)
           a == ticked.k
           b == [a EXCEPT !.yieldPending = TRUE]
           r == PendedTick(s, i)
<1>1. /\ a \in KernelState /\ SameRanks(s, a) /\ Exact(a)
      /\ ticked.yes \/ (Urgent(s) => Urgent(a))
  BY IncrementTickGood, IncrementTickRun DEF Moves, Good, Lags
<1>2. r = IF ticked.yes THEN b ELSE a
  BY DEF PendedTick
<1> HIDE DEF ticked, r
<1>3. /\ b.ready = a.ready /\ b.top = a.top /\ b.current = a.current /\ b.schedSusp = a.schedSusp
      /\ b.yieldPending
  BY <1>1 DEF KernelState
<1> HIDE DEF b, a
<1>4. CASE ticked.yes
  BY <1>1, <1>2, <1>3, <1>4 DEF Lags, SameRanks, Exact, r
<1>5. CASE ~ticked.yes
  BY <1>1, <1>2, <1>5 DEF Lags, SameRanks, r
<1> QED
  BY <1>4, <1>5

\* So do all of them.
LEMMA PendedTicksRun ==
  ASSUME NEW s \in Good, s.current \in Task, s.schedSusp = 0, Lags(s), NEW n \in Nat
  PROVE  LET r == InTurn(PendedTick, s, n)
         IN Lags(r) /\ r.current = s.current /\ r.schedSusp = 0
<1> DEFINE T == {r \in Good : Lags(r) /\ r.current = s.current /\ r.schedSusp = 0}
<1>1. PICK a : /\ a[0] = s /\ InTurn(PendedTick, s, n) = a[n]
               /\ \A i \in 1..n : /\ a[i - 1] \in Good
                                  /\ a[i] = PendedTick(a[i - 1], i)
  BY PendedTicksSteps
<1>2. a[0] \in T
  BY <1>1
<1>3. ASSUME NEW i \in 1..n, a[i - 1] \in T PROVE a[i] \in T
  <2> DEFINE r == a[i - 1]
  <2>1. /\ r \in Good /\ Lags(r) /\ r.current = s.current /\ r.schedSusp = 0
        /\ a[i] = PendedTick(r, i)
    BY <1>1, <1>3
  <2> HIDE DEF r
  <2>2. PendedTick(r, i) \in Good
    BY <2>1, PendedTickGood DEF Moves
  <2> QED
    BY <2>1, <2>2, PendedTickRun
<1> HIDE DEF T
<1>4. a[n] \in T
  BY <1>1, <1>2, <1>3, StaysIn
<1> QED
  BY <1>1, <1>4 DEF T

\* The scheduler that is resumed makes up for what it has missed.
LEMMA ResumeAllRun ==
  ASSUME NEW s \in Good, s.schedSusp = 1, s.current \in Task, Sched(s)
  PROVE  Sched(xTaskResumeAll(s).k)
<1> DEFINE resumed == [s EXCEPT !.schedSusp = @ - 1]
           woken == UnblockPending(resumed, s.pending)
           moved == IF s.pending = <<>> THEN resumed ELSE prvResetNextTaskUnblockTime(woken)
           run == InTurn(PendedTick, moved, s.pended)
           ticked == [run EXCEPT !.pended = 0]
           switched == vTaskSwitchContext(ticked)
           Ok(r) == r \in Good /\ Lags(r) /\ r.current = s.current /\ r.schedSusp = 0
<1>1. s \in KernelState /\ s.pending \in Seq(Task) /\ s.pended \in Nat
  BY DEF Good, KernelState
<1>2. Ok(resumed)
  <2>1. s.schedSusp - 1 = 0 /\ 0 \in Nat
    OBVIOUS
  <2>2. resumed = [s EXCEPT !.schedSusp = 0]
    BY <2>1
  <2> HIDE DEF resumed, woken, moved, run, ticked, switched
  <2>3. resumed \in KernelState
    BY <1>1, <2>1, <2>2, CountsTyped
  <2>4. /\ SameLists(s, resumed) /\ resumed.schedSusp = 0 /\ resumed.current = s.current
        /\ resumed.top = s.top /\ resumed.yieldPending = s.yieldPending
    BY <1>1, <2>2 DEF KernelState, SameLists
  <2>5. resumed \in Good
    BY <2>3, <2>4, SameListsGood
  <2>6. Lags(resumed)
    BY <2>4 DEF Lags, Sched, Exact, Urgent, SameLists, IsReady
  <2> QED
    BY <2>4, <2>5, <2>6
<1>3. xTaskResumeAll(s) = IF ticked.yieldPending THEN [k |-> switched, yes |-> TRUE]
                          ELSE [k |-> ticked, yes |-> FALSE]
  BY <1>2 DEF xTaskResumeAll, Answer
<1> HIDE DEF resumed
<1>4. Ok(woken)
  BY <1>1, <1>2, UnblockPendingGood, UnblockPendingRun DEF Moves
<1> HIDE DEF woken
<1>5. Ok(moved)
  <2> DEFINE v == prvResetNextTaskUnblockTime(woken)
  <2>1. v \in Good /\ SameRun(woken, v)
    BY <1>4, ResetUnblockGood, ResetUnblockRun DEF Moves
  <2> HIDE DEF v
  <2>2. Ok(v)
    BY <1>4, <2>1, SameRunSched DEF Lags, SameRun, SameRanks
  <2> QED
    BY <1>2, <2>2 DEF v
<1> HIDE DEF moved
<1>6. Ok(run)
  BY <1>1, <1>5, PendedTicksGood, PendedTicksRun DEF Moves
<1> HIDE DEF run
<1>7. Ok(ticked)
  <2>1. run \in KernelState
    BY <1>6 DEF Good
  <2>2. ticked \in KernelState /\ SameLists(run, ticked) /\ SameRun(run, ticked)
    BY <2>1 DEF KernelState, SameLists, SameRun, SameRanks
  <2> HIDE DEF ticked
  <2> QED
    BY <1>6, <2>2, SameListsGood, SameRunSched DEF Lags, SameRun, SameRanks
<1> HIDE DEF ticked
<1>8. Sched(switched)
  BY <1>7, SwitchRun DEF Lags
<1> HIDE DEF switched
<1>9. ~ticked.yieldPending => Sched(ticked)
  BY <1>7 DEF Lags, Sched
<1> QED
  BY <1>3, <1>8, <1>9

\* The scheduler is suspended with the running task in its place.
LEMMA SuspendAllRun ==
  ASSUME NEW s \in Good, Sched(s), s.schedSusp = 0
  PROVE  Sched(vTaskSuspendAll(s))
<1> DEFINE r == vTaskSuspendAll(s)
<1>1. s \in KernelState
  BY DEF Good
<1>2. r.ready = s.ready /\ r.top = s.top /\ r.prio = s.prio /\ r.current = s.current
  BY <1>1 DEF KernelState, vTaskSuspendAll
<1> HIDE DEF r
<1>3. Exact(r) /\ Urgent(r)
  BY <1>2 DEF Sched, Exact, Urgent, IsReady
<1> QED
  BY <1>3 DEF Sched, r

-----------------------------------------------------------------------------
(***************************************************************************)
(* Tasks that are woken by an event.                                       *)
(***************************************************************************)
\* The pending list.
LEMMA PendingTyped ==
  ASSUME NEW s \in KernelState, NEW t \in Task
  PROVE  [s EXCEPT !.pending = Append(@, t)] \in KernelState
<1> DEFINE p == Append(s.pending, t)
           v == [s EXCEPT !.pending = p]
<1>1. [s EXCEPT !.pending = Append(@, t)] = v
  OBVIOUS
<1>2. s.pending \in Seq(Task)
  BY DEF KernelState
<1>3. p \in Seq(Task)
  BY <1>2
<1> HIDE DEF p
<1>4. v \in KernelState
  BY <1>3 DEF KernelState
<1> QED
  BY <1>1, <1>4

\* A woken task that is more urgent than the running one asks for a yield.
LEMMA RemoveFromEventListRun ==
  ASSUME NEW s \in Good, NEW e \in EventList, s.events[e] # <<>>, s.current \in Task, Exact(s)
  PROVE  LET w == xTaskRemoveFromEventList(s, e)
         IN /\ Exact(w.k) /\ (w.yes <=> s.prio[Head(s.events[e])] > s.prio[s.current])
            /\ Sched(s) => (w.yes \/ Sched(w.k)) /\ (s.schedSusp # 0 => Sched(w.k))
            /\ w.k.prio = s.prio /\ w.k.current = s.current /\ w.k.schedSusp = s.schedSusp
<1> DEFINE t == Head(s.events[e])
           urgent == s.prio[t] > s.prio[s.current]
           woken == IF s.schedSusp = 0 THEN Unblock(s, t)
                    ELSE [RemoveEventItem(s, t) EXCEPT !.pending = Append(@, t)]
           r == [woken EXCEPT !.yieldPending = @ \/ urgent]
<1>1. s \in KernelState /\ t \in Task
  <2>1. s \in KernelState
    BY DEF Good
  <2>2. s.events[e] \in Seq(Task)
    BY <2>1 DEF KernelState
  <2> QED
    BY <2>1, <2>2
<1>2. xTaskRemoveFromEventList(s, e).k = r /\ xTaskRemoveFromEventList(s, e).yes = urgent
  BY DEF xTaskRemoveFromEventList, Answer
<1>3. /\ SameRanks(s, woken) /\ Exact(woken)
      /\ \A u \in Task : IsReady(woken, u) => IsReady(s, u) \/ (s.schedSusp = 0 /\ u = t)
  <2>1. CASE s.schedSusp = 0
    BY <1>1, <2>1, UnblockRun DEF Readies
  <2>2. CASE s.schedSusp # 0
    <3> DEFINE a == RemoveEventItem(s, t)
               b == [a EXCEPT !.pending = Append(@, t)]
    <3>1. a \in KernelState /\ SameRun(s, a)
      BY <1>1, RemoveEventGood, RemoveEventRun DEF Good
    <3>2. woken = b
      BY <2>2
    <3> HIDE DEF a, woken
    <3>3. SameRun(a, b)
      BY <3>1 DEF KernelState, SameRun, SameRanks
    <3> QED
      BY <3>1, <3>2, <3>3 DEF SameRun, SameRanks, Exact, IsReady
  <2> QED
    BY <2>1, <2>2
<1>4. woken \in KernelState
  <2>1. Unblock(s, t) \in KernelState
    BY <1>1, UnblockGood DEF Moves, Good
  <2>2. [RemoveEventItem(s, t) EXCEPT !.pending = Append(@, t)] \in KernelState
    <3> DEFINE a == RemoveEventItem(s, t)
    <3>1. a \in KernelState
      BY <1>1, RemoveEventGood DEF Good
    <3> HIDE DEF a
    <3> QED
      BY <1>1, <3>1, PendingTyped DEF a
  <2> QED
    BY <2>1, <2>2
<1>5. s.prio[t] \in Int /\ s.prio[s.current] \in Int
  <2> HIDE DEF t
  <2> QED
    BY <1>1 DEF KernelState, Priority
<1>11. urgent <=> s.prio[Head(s.events[e])] > s.prio[s.current]
  OBVIOUS
<1> HIDE DEF woken, t
<1>6. /\ r.ready = woken.ready /\ r.top = woken.top /\ r.prio = woken.prio
      /\ r.current = woken.current /\ r.schedSusp = woken.schedSusp
      /\ r.yieldPending = (woken.yieldPending \/ urgent)
  BY <1>4 DEF KernelState
<1> HIDE DEF r
<1>7. Exact(r) /\ r.prio = s.prio /\ r.current = s.current /\ r.schedSusp = s.schedSusp
  BY <1>3, <1>6 DEF Exact, SameRanks
<1>8. \A u \in Task : IsReady(r, u) <=> IsReady(woken, u)
  BY <1>6 DEF IsReady
<1> HIDE DEF urgent
<1>9. CASE s.schedSusp # 0
  <2>1. Urgent(s) => Urgent(r)
    BY <1>3, <1>7, <1>8, <1>9 DEF Urgent
  <2>2. s.yieldPending => r.yieldPending
    BY <1>3, <1>6 DEF SameRanks
  <2> QED
    BY <1>2, <1>7, <1>9, <1>11, <2>1, <2>2 DEF Sched
<1>10. CASE s.schedSusp = 0
  <2>1. Sched(s) => urgent \/ Urgent(r)
    BY <1>3, <1>5, <1>7, <1>8, <1>10 DEF Urgent, Sched, urgent
  <2> QED
    BY <1>2, <1>7, <1>10, <1>11, <2>1 DEF Sched
<1> QED
  BY <1>9, <1>10

\* So the running task yields to it.
LEMMA WakeOneRun ==
  ASSUME NEW s \in Good, NEW e \in EventList, s.current \in Task, Sched(s)
  PROVE  Sched(WakeOne(s, e))
<1> DEFINE w == xTaskRemoveFromEventList(s, e)
<1>1. CASE s.events[e] = <<>>
  BY <1>1 DEF WakeOne
<1>2. CASE s.events[e] # <<>>
  <2>1. w.k \in Good /\ Exact(w.k) /\ (w.yes \/ Sched(w.k))
    BY <1>2, RemoveFromEventListGood, RemoveFromEventListRun DEF Moves, Sched
  <2>2. WakeOne(s, e) = YieldIf(w.k, w.yes)
    BY <1>2 DEF WakeOne
  <2> HIDE DEF w
  <2> QED
    BY <2>1, <2>2, YieldIfRun
<1> QED
  BY <1>1, <1>2

\* Or the yield is pending, when a queue is unlocked.
LEMMA WakeCountedRun ==
  ASSUME NEW s \in Good, NEW e \in EventList, NEW count \in Int
  PROVE  s.current \in Task /\ s.schedSusp # 0 /\ Sched(s) => Sched(WakeCounted(s, e, count))
<1>1. PICK n \in Nat :
        \E a : /\ a[0] = s /\ WakeCounted(s, e, count) = a[n]
               /\ \A i \in 1..n : /\ a[i - 1] \in Good /\ a[i - 1].events[e] # <<>>
                                  /\ a[i] = xTaskRemoveFromEventList(a[i - 1], e).k
  BY WakeCountedSteps
<1>2. PICK a : /\ a[0] = s /\ WakeCounted(s, e, count) = a[n]
               /\ \A i \in 1..n : /\ a[i - 1] \in Good /\ a[i - 1].events[e] # <<>>
                                  /\ a[i] = xTaskRemoveFromEventList(a[i - 1], e).k
  BY <1>1
<1> SUFFICES ASSUME s.current \in Task, s.schedSusp # 0, Sched(s)
             PROVE  Sched(a[n])
  BY <1>2
<1> DEFINE T == {r \in Good : Sched(r) /\ r.current = s.current /\ r.schedSusp = s.schedSusp}
<1>3. a[0] \in T
  BY <1>2
<1>4. ASSUME NEW i \in 1..n, a[i - 1] \in T PROVE a[i] \in T
  <2> DEFINE r == a[i - 1]
  <2>1. /\ r \in Good /\ Sched(r) /\ r.current = s.current /\ r.schedSusp = s.schedSusp
        /\ r.events[e] # <<>> /\ a[i] = xTaskRemoveFromEventList(r, e).k
    BY <1>2, <1>4
  <2> HIDE DEF r
  <2>2. xTaskRemoveFromEventList(r, e).k \in Good
    BY <2>1, RemoveFromEventListGood DEF Moves
  <2> QED
    BY <2>1, <2>2, RemoveFromEventListRun DEF Sched
<1> HIDE DEF T
<1>5. a[n] \in T
  BY <1>2, <1>3, <1>4, StaysIn
<1> QED
  BY <1>2, <1>5 DEF T

-----------------------------------------------------------------------------
(***************************************************************************)
(* Tasks that go to sleep.                                                 *)
(***************************************************************************)
\* With one ready task less, or none, the running one is as urgent as before.
LEMMA ReadiesNone ==
  ASSUME NEW s, NEW r, Readies(s, r, {}), Sched(s)
  PROVE  Sched(r)
BY DEF Readies, SameRanks, Sched, Urgent

\* The running task goes to sleep.
LEMMA AddToDelayedRun ==
  ASSUME NEW s \in Good, s.current \in Task, IsReady(s, s.current),
         NEW ticks \in Ticks, NEW forever
  PROVE  Readies(s, prvAddCurrentTaskToDelayedList(s, ticks, forever), {})
<1> DEFINE t == s.current
           unset == [s EXCEPT !.aborted[t] = FALSE]
           left == LeaveReadyList(unset, t, s.prio[t])
           wake == (s.tick + ticks) % TickMod
           set == [left EXCEPT !.wake[t] = wake]
           never == [left EXCEPT !.suspended = @ \cup {t}]
           later == [set EXCEPT !.overflow = vListInsert(@, t, set.wake)]
           soon == [set EXCEPT !.delayed = vListInsert(@, t, set.wake),
                               !.unblock = IF wake < @ THEN wake ELSE @]
           r == prvAddCurrentTaskToDelayedList(s, ticks, forever)
<1>1. t \in Task /\ s \in KernelState
  BY DEF Good
<1>2. r = never \/ r = later \/ r = soon
  BY DEF prvAddCurrentTaskToDelayedList
<1> HIDE DEF r, wake
<1>3. unset \in KernelState /\ SameLists(s, unset) /\ SameRun(s, unset)
  <2> HIDE DEF t, left, never, later, soon, set
  <2>1. unset \in KernelState
    BY <1>1 DEF KernelState
  <2> QED
    BY <1>1, <2>1 DEF KernelState, SameLists, SameRun, SameRanks
<1>4. unset \in Good /\ IsReady(unset, t) /\ unset.prio = s.prio
  BY <1>1, <1>3, SameListsGood DEF SameRun, SameRanks
<1> HIDE DEF unset
<1>5. SameRanks(unset, left) /\ (Exact(unset) => Exact(left))
      /\ \A p \in Priority : ToSet(left.ready[p].items) = ToSet(unset.ready[p].items) \ {t}
  BY <1>1, <1>4, LeaveReadyRun
<1>6. left \in KernelState
  BY <1>1, <1>4, LeaveReadyGood DEF Good
<1>7. s.prio \in [Task -> Priority]
  BY <1>1 DEF KernelState
<1> HIDE DEF left, t
<1>8. Readies(s, left, {})
  BY <1>3, <1>5, <1>7 DEF Readies, SameRun, SameRanks, Exact, IsReady
<1>9. SameRun(left, never) /\ SameRun(left, set)
  BY <1>6 DEF KernelState, SameRun, SameRanks
<1>10. SameRun(set, later) /\ SameRun(set, soon)
  <2>1. DOMAIN set = DOMAIN left
    OBVIOUS
  <2> HIDE DEF set
  <2> QED
    BY <1>6, <2>1 DEF KernelState, SameRun, SameRanks
<1> HIDE DEF never, later, soon, set
<1>11. SameRun(left, r)
  BY <1>2, <1>9, <1>10 DEF SameRun, SameRanks
<1>12. Readies(left, r, {})
  BY <1>11, SameRunSched
<1>13. Readies(s, r, {} \cup {})
  BY <1>8, <1>12, ReadiesTransitive
<1> QED
  BY <1>13 DEF r

\* So it does for an event.
LEMMA PlaceOnEventListRun ==
  ASSUME NEW s \in Good, s.current \in Task, IsReady(s, s.current), Sched(s),
         NEW e \in EventList, NEW ticks \in Ticks
  PROVE  Sched(vTaskPlaceOnEventList(s, e, ticks))
<1> DEFINE a == prvAddCurrentTaskToDelayedList(s, ticks, TRUE)
           events == [s.events EXCEPT ![e] = vListInsert(@, s.current, s.eventValue)]
           r == With(a, events)
<1>1. s \in KernelState
  BY DEF Good
<1>2. vTaskPlaceOnEventList(s, e, ticks) = r
  <2>1. vTaskPlaceOnEventList(s, e, ticks)
        = prvAddCurrentTaskToDelayedList(With(s, events), ticks, TRUE)
    BY DEF vTaskPlaceOnEventList, With
  <2> HIDE DEF events
  <2> QED
    BY <1>1, <2>1, SleepIgnoresEvents
<1>3. Readies(s, a, {}) /\ a \in KernelState
  BY AddToDelayedRun, AddToDelayedGood DEF SleepsIn, Good
<1>4. Sched(a)
  BY <1>3, ReadiesNone
<1> HIDE DEF a, events
<1>5. SameRun(a, r)
  BY <1>3 DEF KernelState, With, SameRun, SameRanks
<1> QED
  BY <1>2, <1>4, <1>5, SameRunSched

-----------------------------------------------------------------------------
(***************************************************************************)
(* Priorities.                                                             *)
(***************************************************************************)
\* t has another priority, and its place in the ready lists.
Ranked(s, r, t, p) ==
  /\ r.prio = [s.prio EXCEPT ![t] = p] /\ r.current = s.current
  /\ r.schedSusp = s.schedSusp /\ r.yieldPending = s.yieldPending
  /\ Exact(s) => Exact(r)
  /\ \A u \in Task : IsReady(r, u) <=> IsReady(s, u)

\* A task that changes to another ready list, with the right bit.
LEMMA RequeueRun ==
  ASSUME NEW s \in Good, NEW t \in Task, NEW p \in Priority, NEW bit,
         IsReady(s, t) => bit = s.prio[t] \/ s.ready[s.prio[t]].items # <<t>>
  PROVE  Ranked(s, Requeue(s, t, p, bit), t, p)
<1>1. InReadyList(s, t) <=> IsReady(s, t)
  BY ContainsIff DEF InReadyList, IsReady, Good, KernelState
<1>2. s \in KernelState /\ s.prio \in [Task -> Priority] /\ s.prio[t] \in Priority
      /\ \A q \in Priority : t \in ToSet(s.ready[q].items) => q = s.prio[t]
  BY DEF Good, KernelState, Placed
<1>3. CASE IsReady(s, t)
  <2> DEFINE q == s.prio[t]
             a == LeaveReadyList(s, t, q)
             b == [a EXCEPT !.prio[t] = p]
             c == prvAddTaskToReadyList(b, t)
  <2>1. LeaveReadyList(s, t, bit) = a
    <3>1. CASE bit = q
      BY <3>1
    <3>2. CASE s.ready[q].items # <<t>>
      <4>1. ~AloneInList(s, t)
        <5> SUFFICES ASSUME AloneInList(s, t) PROVE FALSE
          OBVIOUS
        <5>1. PICK x \in Priority : s.ready[x].items = <<t>>
          BY <1>3, ReadyIsNotAlone
        <5>2. t \in ToSet(s.ready[x].items)
          BY <5>1 DEF ToSet
        <5> QED
          BY <1>2, <3>2, <5>1, <5>2
      <4> QED
        BY <4>1 DEF LeaveReadyList
    <3> QED
      BY <1>3, <3>1, <3>2
  <2>2. Requeue(s, t, p, bit) = c
    BY <1>1, <1>3, <2>1 DEF Requeue
  <2>3. /\ SameRanks(s, a) /\ (Exact(s) => Exact(a))
        /\ \A x \in Priority : ToSet(a.ready[x].items) = ToSet(s.ready[x].items) \ {t}
    BY <1>3, LeaveReadyRun
  <2>4. a \in Good /\ Away(a, t)
    BY LeaveReadyGood
  <2> HIDE DEF a
  <2>5. ~IsReady(a, t) /\ a \in KernelState
    BY <2>4, ReadyIsNotAway DEF Good
  <2>6. b \in Good /\ Away(b, t)
    BY <2>4, <2>5, SetPrioGood
  <2>7. /\ b.prio = [a.prio EXCEPT ![t] = p] /\ b.current = a.current
        /\ b.schedSusp = a.schedSusp /\ b.yieldPending = a.yieldPending
        /\ b.ready = a.ready /\ b.top = a.top
    BY <2>5 DEF KernelState
  <2> HIDE DEF b
  <2>8. b.prio[t] = p
    BY <1>2, <2>3, <2>7 DEF SameRanks
  <2>9. /\ SameRanks(b, c) /\ c.top = b.top \cup {p}
        /\ \A x \in Priority :
             ToSet(c.ready[x].items) = IF x = p THEN ToSet(b.ready[x].items) \cup {t}
                                       ELSE ToSet(b.ready[x].items)
    BY <2>6, <2>8, AddReadyRun
  <2> HIDE DEF c, q
  <2>10. c.prio = [s.prio EXCEPT ![t] = p] /\ c.current = s.current
         /\ c.schedSusp = s.schedSusp /\ c.yieldPending = s.yieldPending
    BY <2>3, <2>7, <2>9 DEF SameRanks
  <2>11. Exact(a) => Exact(c)
    BY <2>7, <2>9 DEF Exact
  <2>12. \A x \in Priority :
           ToSet(c.ready[x].items) = IF x = p THEN (ToSet(s.ready[x].items) \ {t}) \cup {t}
                                     ELSE ToSet(s.ready[x].items) \ {t}
    BY <2>3, <2>7, <2>9
  <2>13. ASSUME NEW u \in Task PROVE IsReady(c, u) <=> IsReady(s, u)
    <3>1. CASE u = t
      <4>1. c.prio[u] = p
        BY <1>2, <2>10, <3>1
      <4> QED
        BY <1>3, <2>12, <3>1, <4>1 DEF IsReady
    <3>2. CASE u # t
      <4>1. c.prio[u] = s.prio[u] /\ s.prio[u] \in Priority
        BY <1>2, <2>10, <3>2
      <4> QED
        BY <2>12, <3>2, <4>1 DEF IsReady
    <3> QED
      BY <3>1, <3>2
  <2> QED
    BY <2>2, <2>3, <2>10, <2>11, <2>13 DEF Ranked
<1>4. CASE ~IsReady(s, t)
  <2> DEFINE r == [s EXCEPT !.prio[t] = p]
  <2>1. Requeue(s, t, p, bit) = r
    BY <1>1, <1>4 DEF Requeue
  <2>2. /\ r.prio = [s.prio EXCEPT ![t] = p] /\ r.current = s.current
        /\ r.schedSusp = s.schedSusp /\ r.yieldPending = s.yieldPending
        /\ r.ready = s.ready /\ r.top = s.top
    BY <1>2 DEF KernelState
  <2> HIDE DEF r
  <2>3. Exact(s) => Exact(r)
    BY <2>2 DEF Exact
  <2>4. \A x \in Priority : t \notin ToSet(s.ready[x].items)
    BY <1>2, <1>4 DEF IsReady
  <2>5. \A u \in Task : IsReady(r, u) <=> IsReady(s, u)
    BY <1>2, <2>2, <2>4 DEF IsReady
  <2> QED
    BY <2>1, <2>2, <2>3, <2>5 DEF Ranked
<1> QED
  BY <1>3, <1>4

\* The running task stays a most urgent one if it becomes no less urgent, and no other
\* ready task more urgent than it.
LEMMA RankedSched ==
  ASSUME NEW s \in Good, NEW r, NEW t \in Task, NEW p \in Priority, Ranked(s, r, t, p),
         s.current \in Task, Sched(s),
         IF t = s.current THEN p >= s.prio[t] ELSE IsReady(s, t) => p <= s.prio[s.current]
  PROVE  Sched(r)
<1>1. s.prio \in [Task -> Priority]
  BY DEF Good, KernelState
<1>2. \A u \in Task : s.prio[u] \in Int /\ r.prio[u] = IF u = t THEN p ELSE s.prio[u]
  BY <1>1 DEF Ranked, Priority
<1>3. p \in Int
  BY DEF Priority
<1>4. Urgent(s) => Urgent(r)
  <2> SUFFICES ASSUME Urgent(s), NEW u \in Task, IsReady(r, u)
               PROVE  r.prio[u] <= r.prio[r.current]
    BY DEF Urgent, Ranked
  <2>1. IsReady(s, u) /\ s.prio[u] <= s.prio[s.current] /\ r.current = s.current
    BY DEF Ranked, Urgent
  <2> QED
    BY <1>2, <1>3, <2>1
<1> QED
  BY <1>4 DEF Ranked, Sched

\* The value of an event item is nothing to the scheduler.
LEMMA ReprioritiseRun ==
  ASSUME NEW s \in Good, NEW t \in Task, NEW p \in Priority
  PROVE  SameRun(s, Reprioritise(s, t, p))
BY DEF Good, KernelState, Reprioritise, SameRun, SameRanks

\* A holder is raised to the priority of the running task, and no further.
LEMMA InheritRun ==
  ASSUME NEW s \in Good, NEW holder \in Task \cup {NoTask}, s.current \in Task, Sched(s)
  PROVE  Sched(xTaskPriorityInherit(s, holder).k)
<1> DEFINE p == s.prio[s.current]
           a == Reprioritise(s, holder, p)
           r == Requeue(a, holder, p, s.prio[holder])
<1>1. CASE holder = NoTask \/ ~(s.prio[holder] < p)
  BY <1>1 DEF xTaskPriorityInherit, Answer
<1>2. CASE holder \in Task /\ holder # NoTask /\ s.prio[holder] < p
  <2>1. xTaskPriorityInherit(s, holder).k = r
    BY <1>2 DEF xTaskPriorityInherit, Answer
  <2>2. p \in Priority /\ s.prio[holder] \in Int /\ p \in Int
    BY <1>2 DEF Good, KernelState, Priority
  <2>3. s.prio[holder] < p
    BY <1>2
  <2>4. p = s.prio[s.current]
    OBVIOUS
  <2> HIDE DEF p
  <2>5. a \in Good /\ SameRun(s, a)
    BY <1>2, <2>2, ReprioritiseGood, ReprioritiseRun DEF Moves
  <2>6. Sched(a) /\ a.prio = s.prio /\ a.current = s.current
    BY <2>5, SameRunSched DEF SameRun, SameRanks
  <2> HIDE DEF a
  <2>7. Ranked(a, r, holder, p)
    BY <1>2, <2>2, <2>5, <2>6, RequeueRun
  <2> HIDE DEF r
  <2>8. IF holder = a.current THEN p >= a.prio[holder]
        ELSE IsReady(a, holder) => p <= a.prio[a.current]
    BY <2>2, <2>3, <2>4, <2>6
  <2>9. Sched(r)
    BY <1>2, <2>2, <2>5, <2>6, <2>7, <2>8, RankedSched
  <2> QED
    BY <2>1, <2>9
<1> QED
  BY <1>1, <1>2, TaskAssumption

\* Where a holder may lose what it had inherited from a task that gives up: it is not
\* ready, or it is beside another task in its ready list and not to be more urgent than
\* the running one.
LosesBeside(s, h, p) ==
  \/ s.prio[h] = p \/ s.held[h] # 1 \/ ~IsReady(s, h)
  \/ h # s.current /\ p <= s.prio[s.current] /\ s.ready[s.prio[h]].items # <<h>>

\* There the bit of the wrong list does no harm.
LEMMA DisinheritAfterTimeoutRun ==
  ASSUME NEW s \in Good, NEW h \in Task \cup {NoTask}, NEW waiting \in Priority,
         s.current \in Task, IsReady(s, s.current), Sched(s),
         h # NoTask =>
           LosesBeside(s, h, IF s.base[h] < waiting THEN waiting ELSE s.base[h])
  PROVE  Sched(vTaskPriorityDisinheritAfterTimeout(s, h, waiting))
<1> DEFINE p == IF s.base[h] < waiting THEN waiting ELSE s.base[h]
           a == Reprioritise(s, h, p)
           r == Requeue(a, h, p, p)
           v == vTaskPriorityDisinheritAfterTimeout(s, h, waiting)
<1>1. CASE h = NoTask \/ s.prio[h] = p \/ s.held[h] # 1
  BY <1>1 DEF vTaskPriorityDisinheritAfterTimeout
<1>2. CASE h \in Task /\ h # NoTask /\ s.prio[h] # p /\ s.held[h] = 1
  <2>1. v = r
    BY <1>2 DEF vTaskPriorityDisinheritAfterTimeout
  <2> HIDE DEF v
  <2>2. p \in Priority
    BY <1>2 DEF Good, KernelState
  <2>3. ~IsReady(s, h) \/ (h # s.current /\ p <= s.prio[s.current] /\ s.ready[s.prio[h]].items # <<h>>)
    BY <1>2 DEF LosesBeside
  <2> HIDE DEF p
  <2>4. a \in Good /\ SameRun(s, a)
    BY <1>2, <2>2, ReprioritiseGood, ReprioritiseRun DEF Moves
  <2>5. Sched(a) /\ a.prio = s.prio /\ a.current = s.current /\ a.ready = s.ready
    BY <2>4, SameRunSched DEF SameRun, SameRanks
  <2>6. IsReady(a, h) <=> IsReady(s, h)
    BY <2>5 DEF IsReady
  <2> HIDE DEF a
  <2>7. Ranked(a, r, h, p)
    BY <1>2, <2>2, <2>3, <2>4, <2>5, <2>6, RequeueRun
  <2> HIDE DEF r
  <2>8. IF h = a.current THEN p >= a.prio[h] ELSE IsReady(a, h) => p <= a.prio[a.current]
    BY <2>3, <2>5, <2>6
  <2>9. Sched(r)
    BY <1>2, <2>2, <2>4, <2>5, <2>7, <2>8, RankedSched
  <2> QED
    BY <2>1, <2>9 DEF v
<1> QED
  BY <1>1, <1>2, TaskAssumption

\* The same is added to the same lists.
LEMMA AddReadySame ==
  ASSUME NEW s \in KernelState, NEW r \in KernelState, SameRun(s, r), NEW t \in Task
  PROVE  SameRun(prvAddTaskToReadyList(s, t), prvAddTaskToReadyList(r, t))
<1> DEFINE ready == [s.ready EXCEPT ![s.prio[t]] = vListInsertEnd(@, t)]
           top == s.top \cup {s.prio[t]}
<1>1. /\ prvAddTaskToReadyList(s, t) = [s EXCEPT !.top = top, !.ready = ready]
      /\ prvAddTaskToReadyList(r, t) = [r EXCEPT !.top = top, !.ready = ready]
  BY DEF prvAddTaskToReadyList, SameRun, SameRanks, KernelState
<1> HIDE DEF ready, top
<1> QED
  BY <1>1 DEF SameRun, SameRanks, KernelState

\* The count of mutexes is nothing to the scheduler.
LEMMA HeldRun ==
  ASSUME NEW s \in KernelState, NEW t \in Task, NEW n
  PROVE  SameRun(s, [s EXCEPT !.held[t] = n])
BY DEF KernelState, SameRun, SameRanks

\* The running task gives a mutex back: if it loses a priority, the answer says so.
LEMMA DisinheritRun ==
  ASSUME NEW s \in Good, NEW t \in Task, t = s.current, IsReady(s, t), s.held[t] > 0
  PROVE  LET d == xTaskPriorityDisinherit(s, t)
         IN /\ Exact(s) => Exact(d.k)
            /\ d.k.current = t /\ d.k.schedSusp = s.schedSusp /\ d.k.events = s.events
            /\ \A u \in Task \ {t} : d.k.prio[u] = s.prio[u]
            /\ d.yes => s.held[t] = 1 /\ d.k.prio[t] = s.base[t]
            /\ (~d.yes \/ s.prio[t] <= s.base[t]) /\ Sched(s) => Sched(d.k)
<1> DEFINE given == [s EXCEPT !.held[t] = @ - 1]
           base == s.base[t]
           left == LeaveReadyList(given, t, s.prio[t])
           rank == [left EXCEPT !.prio[t] = base]
           set == [left EXCEPT !.prio[t] = base, !.eventValue[t] = EventValue(base)]
           r == prvAddTaskToReadyList(set, t)
           d == xTaskPriorityDisinherit(s, t)
           yes == s.prio[t] # base /\ given.held[t] = 0
<1>1. s \in KernelState /\ t # NoTask /\ s.held[t] \in Nat /\ s.held \in [Task -> Nat]
      /\ s.prio[t] \in Priority /\ s.prio \in [Task -> Priority]
  BY TaskAssumption DEF Good, KernelState
<1>2. IF yes THEN d.k = r /\ d.yes ELSE d.k = given /\ ~d.yes
  BY <1>1 DEF xTaskPriorityDisinherit, Answer
<1>3. base \in Priority /\ EventValue(base) \in 1..MaxPriorities
  <2>1. base \in Priority
    BY <1>1 DEF KernelState
  <2>2. \A p \in Priority : EventValue(p) \in 1..MaxPriorities
    BY TaskAssumption DEF EventValue, Priority
  <2> HIDE DEF base
  <2> QED
    BY <2>1, <2>2
<1> HIDE DEF d
<1>4. given \in KernelState /\ SameLists(s, given) /\ SameRun(s, given)
  <2> DEFINE n == s.held[t] - 1
  <2>1. n \in Nat /\ given = [s EXCEPT !.held[t] = n]
    BY <1>1
  <2> HIDE DEF n, given, base, left, rank, set, r, yes
  <2> QED
    BY <1>1, <2>1, HeldTyped, HeldRun
<1>5. yes => s.held[t] = 1
  <2>1. given.held[t] = s.held[t] - 1
    BY <1>1 DEF KernelState
  <2> HIDE DEF given
  <2> QED
    BY <1>1, <2>1
<1>6. given \in Good /\ IsReady(given, t) /\ given.prio = s.prio /\ given.current = t
      /\ given.schedSusp = s.schedSusp /\ given.events = s.events /\ given.ready = s.ready
  BY <1>4, SameListsGood DEF SameLists, SameRun, SameRanks, IsReady
<1>7. CASE ~yes
  <2>1. d.k = given /\ ~d.yes
    BY <1>2, <1>7
  <2>2. (Exact(given) <=> Exact(s)) /\ (Sched(given) <=> Sched(s))
    BY <1>4, SameRunSched
  <2> HIDE DEF given, yes
  <2> QED
    BY <1>6, <2>1, <2>2 DEF d
<1>8. CASE yes
  <2>1. d.k = r /\ d.yes
    BY <1>2, <1>8
  <2>2. s.held[t] = 1
    BY <1>5, <1>8
  <2> HIDE DEF given, yes
  <2> DEFINE a == prvAddTaskToReadyList(rank, t)
  <2>3. Requeue(given, t, base, s.prio[t]) = a
    <3>1. InReadyList(given, t)
      BY <1>6, ContainsIff DEF InReadyList, IsReady, Good, KernelState
    <3> QED
      BY <3>1 DEF Requeue
  <2> HIDE DEF base
  <2>4. Ranked(given, a, t, base)
    BY <1>3, <1>6, <2>3, RequeueRun
  <2>5. left \in Good /\ Away(left, t) /\ left.events = s.events
    BY <1>6, LeaveReadyGood
  <2> HIDE DEF left
  <2>6. rank \in KernelState /\ rank.events = s.events
    BY <1>3, <2>5 DEF Good, KernelState
  <2>7. set = [rank EXCEPT !.eventValue[t] = EventValue(base)]
    OBVIOUS
  <2> HIDE DEF rank
  <2>8. set \in KernelState /\ SameRun(rank, set) /\ set.events = s.events
    <3> DEFINE n == EventValue(base)
    <3>1. n \in 1..MaxPriorities /\ set = [rank EXCEPT !.eventValue[t] = n]
      BY <1>3, <2>7
    <3> HIDE DEF n, set, r, a
    <3>2. set \in KernelState
      BY <2>6, <3>1 DEF KernelState
    <3> QED
      BY <2>6, <3>1, <3>2 DEF KernelState, SameRun, SameRanks
  <2> HIDE DEF set
  <2>9. SameRun(a, r)
    BY <2>6, <2>8, AddReadySame
  <2>10. r.events = s.events
    BY <2>8 DEF prvAddTaskToReadyList, KernelState
  <2> HIDE DEF a, r
  <2>11. Ranked(given, r, t, base)
    BY <2>4, <2>9 DEF Ranked, SameRun, SameRanks, Exact, IsReady
  <2>12. r.prio = [s.prio EXCEPT ![t] = base] /\ r.current = t /\ r.schedSusp = s.schedSusp
    BY <1>6, <2>11 DEF Ranked
  <2>13. Exact(s) => Exact(r)
    BY <1>6, <2>11, <1>4, SameRunSched DEF Ranked
  <2>14. r.prio[t] = base /\ \A u \in Task \ {t} : r.prio[u] = s.prio[u]
    BY <1>1, <2>12
  <2>15. s.prio[t] <= base /\ Sched(s) => Sched(r)
    <3> SUFFICES ASSUME s.prio[t] <= base, Sched(s) PROVE Sched(r)
      OBVIOUS
    <3>1. Sched(given)
      BY <1>4, SameRunSched
    <3>2. base >= given.prio[t]
      BY <1>1, <1>3, <1>6 DEF Priority
    <3> QED
      BY <1>3, <1>6, <2>11, <3>1, <3>2, RankedSched
  <2>16. /\ Exact(s) => Exact(d.k)
         /\ d.k.current = t /\ d.k.schedSusp = s.schedSusp /\ d.k.events = s.events
         /\ \A u \in Task \ {t} : d.k.prio[u] = s.prio[u]
         /\ s.held[t] = 1 /\ d.k.prio[t] = s.base[t]
         /\ s.prio[t] <= s.base[t] /\ Sched(s) => Sched(d.k)
    BY <2>1, <2>2, <2>10, <2>12, <2>13, <2>14, <2>15 DEF base
  <2> QED
    BY <2>1, <2>16 DEF d
<1> QED
  BY <1>7, <1>8

-----------------------------------------------------------------------------
(***************************************************************************)
(* Queues.                                                                 *)
(***************************************************************************)
\* Where the running task may give a mutex back: if that costs it the priority it has,
\* the task it wakes is more urgent than it then is.
GivesToUrgent(s, q, id, t) ==
  LET w == s.events[<<id, "receive">>]
  IN q.kind = "mutex" /\ q.holder = t /\ s.held[t] = 1 /\ s.base[t] < s.prio[t] /\ w # <<>> =>
       s.prio[Head(w)] > s.base[t]

\* A running task sends, and yields if it is no longer a most urgent one.
LEMMA SendWithRoomRun ==
  ASSUME NEW s \in Good, NEW q \in AnyQueue, NEW id \in Queue, NEW item \in Item,
         NEW position \in Position, NEW t \in Task, t = s.current, IsReady(s, t),
         HeldBy(s, q, t), s.schedSusp = 0, Sched(s), GivesToUrgent(s, q, id, t)
  PROVE  Sched(SendWithRoom(s, q, id, item, position).k)
<1> DEFINE copied == prvCopyDataToQueue(s, q, item, position)
           c == copied.k
           e == <<id, "receive">>
           a == WakeOne(c, e)
           b == YieldIf(c, copied.yes)
           r == SendWithRoom(s, q, id, item, position)
           d == xTaskPriorityDisinherit(s, t)
<1>1. s \in KernelState /\ t # NoTask /\ e \in EventList
  BY TaskAssumption DEF Good, EventList
<1>2. c \in Good
  BY CopyDataGood DEF HeldBy, QueueMoves, Moves
<1>3. \/ c = s /\ copied.yes = FALSE
      \/ q.kind = "mutex" /\ q.holder = t /\ c = d.k /\ copied.yes = d.yes
  <2>1. CASE q.kind = "mutex" /\ q.holder = NoTask
    BY <2>1 DEF prvCopyDataToQueue, xTaskPriorityDisinherit, Answer
  <2>2. CASE q.kind = "mutex" /\ q.holder # NoTask
    BY <2>2 DEF prvCopyDataToQueue, HeldBy
  <2>3. CASE q.kind # "mutex"
    BY <2>3 DEF prvCopyDataToQueue
  <2> QED
    BY <2>1, <2>2, <2>3
<1>4. r.k = IF c.events[e] # <<>> THEN a ELSE b
  BY DEF SendWithRoom
<1> HIDE DEF copied
<1>5. q.kind = "mutex" /\ q.holder = t => s.held[t] > 0
  BY <1>1 DEF HeldBy
<1>6. q.kind = "mutex" /\ q.holder = t =>
        /\ Exact(s) => Exact(d.k)
        /\ d.k.current = t /\ d.k.schedSusp = s.schedSusp /\ d.k.events = s.events
        /\ \A u \in Task \ {t} : d.k.prio[u] = s.prio[u]
        /\ d.yes => s.held[t] = 1 /\ d.k.prio[t] = s.base[t]
        /\ (~d.yes \/ s.prio[t] <= s.base[t]) /\ Sched(s) => Sched(d.k)
  BY <1>5, DisinheritRun
<1> HIDE DEF c, d, e, r
<1>7. Exact(c) /\ c.current = t /\ c.schedSusp = 0 /\ c.events = s.events
  BY <1>3, <1>6 DEF Sched
<1>8. ~copied.yes => Sched(c)
  BY <1>3, <1>6
<1>9. ASSUME c.events[e] = <<>> PROVE Sched(r.k)
  BY <1>2, <1>4, <1>7, <1>8, <1>9, YieldIfRun
<1>10. ASSUME c.events[e] # <<>>, Sched(c) PROVE Sched(r.k)
  BY <1>1, <1>2, <1>4, <1>7, <1>10, WakeOneRun
<1>11. ASSUME c.events[e] # <<>>, ~Sched(c) PROVE Sched(r.k)
  <2> DEFINE w == xTaskRemoveFromEventList(c, e)
             h == Head(c.events[e])
  <2>1. /\ q.kind = "mutex" /\ q.holder = t /\ d.yes /\ s.held[t] = 1
        /\ c.prio[t] = s.base[t] /\ ~(s.prio[t] <= s.base[t])
        /\ \A u \in Task \ {t} : c.prio[u] = s.prio[u]
    BY <1>3, <1>6, <1>11
  <2>2. s.prio[t] \in Int /\ s.base[t] \in Int
    BY <1>1 DEF KernelState, Priority
  <2>3. s.prio[h] > s.base[t]
    BY <1>7, <1>11, <2>1, <2>2 DEF GivesToUrgent, e
  <2>4. h \in Task /\ h # t
    <3>1. c.events[e] \in Seq(Task) /\ Free(s, t)
      BY <1>1, <1>7, ReadyIsNotAway DEF KernelState
    <3>2. h \in ToSet(c.events[e])
      BY <1>11, <3>1 DEF ToSet
    <3> QED
      BY <1>1, <1>7, <1>11, <3>1, <3>2 DEF Free
  <2>5. c.prio[h] > c.prio[t]
    BY <2>1, <2>3, <2>4
  <2>6. w.k \in Good /\ Exact(w.k) /\ (w.yes <=> c.prio[h] > c.prio[c.current])
    BY <1>1, <1>2, <1>7, <1>11, RemoveFromEventListGood, RemoveFromEventListRun DEF Moves
  <2>7. a = YieldIf(w.k, w.yes)
    BY <1>11 DEF WakeOne
  <2> HIDE DEF w, h, a
  <2>8. w.yes
    BY <1>7, <2>5, <2>6
  <2>9. Sched(a)
    BY <2>6, <2>7, <2>8, YieldIfRun
  <2> QED
    BY <1>4, <1>11, <2>9
<1> QED
  BY <1>9, <1>10, <1>11 DEF r

\* A running task takes, and wakes who waits for room.
LEMMA TakeItemRun ==
  ASSUME NEW s \in Good, s.current \in Task, Sched(s), NEW q \in AnyQueue, NEW id \in Queue,
         NEW again
  PROVE  Sched(TakeItem(s, q, id, again).k)
<1> DEFINE e == <<id, "send">>
           n == s.held[s.current] + 1
           more == [s EXCEPT !.held[s.current] = n]
           taken == IF q.kind = "mutex" THEN [s EXCEPT !.held[s.current] = @ + 1] ELSE s
<1>1. s \in KernelState /\ e \in EventList
  BY DEF Good, EventList
<1>2. TakeItem(s, q, id, again).k = WakeOne(taken, e)
  BY DEF TakeItem
<1>3. taken = s \/ taken = more
  OBVIOUS
<1>4. n \in Nat
  <2>1. s.held[s.current] \in Nat
    <3> HIDE DEF e, n, more, taken
    <3> QED
      BY <1>1 DEF KernelState
  <2> QED
    BY <2>1
<1> HIDE DEF n, taken
<1>5. more \in KernelState /\ SameLists(s, more) /\ SameRun(s, more)
  BY <1>1, <1>4, HeldTyped, HeldRun
<1>6. taken \in Good /\ SameRun(s, taken)
  BY <1>3, <1>5, SameListsGood DEF SameRun, SameRanks
<1> HIDE DEF more, e
<1>7. Sched(taken) /\ taken.current \in Task
  BY <1>6, SameRunSched DEF SameRun, SameRanks
<1> QED
  BY <1>1, <1>2, <1>6, <1>7, WakeOneRun

\* A running task looks at an item, or empties the queue.
LEMMA PeekAndResetRun ==
  ASSUME NEW s \in Good, s.current \in Task, Sched(s), NEW q, NEW id \in Queue
  PROVE  Sched(PeekItem(s, q, id).k) /\ Sched(xQueueGenericReset(s, q, id).k)
<1>1. <<id, "receive">> \in EventList /\ <<id, "send">> \in EventList
  BY DEF EventList
<1> QED
  BY <1>1, WakeOneRun DEF PeekItem, xQueueGenericReset

\* The queue is unlocked with the scheduler suspended.
LEMMA UnlockRun ==
  ASSUME NEW s \in Good, s.current \in Task, s.schedSusp # 0, Sched(s),
         NEW q \in AnyQueue, NEW id \in Queue
  PROVE  Sched(UnlockTx(s, q, id).k) /\ Sched(UnlockRx(s, q, id).k)
<1>1. <<id, "send">> \in EventList /\ <<id, "receive">> \in EventList
  BY DEF EventList
<1>2. q.txLock \in Int /\ q.rxLock \in Int
  BY DEF AnyQueue
<1> QED
  BY <1>1, <1>2, WakeCountedRun DEF UnlockTx, UnlockRx

\* The handlers of interrupts wake a task, or leave all tasks alone.
LEMMA QueueIrqRun ==
  ASSUME NEW s \in Good, s.current \in Task, Sched(s), NEW q, NEW id \in Queue,
         NEW item, NEW position
  PROVE  /\ q.kind # "mutex" => Sched(xQueueGenericSendFromISR(s, q, id, item, position).k)
         /\ Sched(xQueueGiveFromISR(s, q, id, item).k)
         /\ Sched(xQueueReceiveFromISR(s, q, id).k)
<1> DEFINE a == WakeOne(s, <<id, "receive">>)
           b == WakeOne(s, <<id, "send">>)
<1>1. Sched(a) /\ Sched(b)
  <2>1. <<id, "receive">> \in EventList /\ <<id, "send">> \in EventList
    BY DEF EventList
  <2> QED
    BY <2>1, WakeOneRun
<1>2. ASSUME q.kind # "mutex"
      PROVE  xQueueGenericSendFromISR(s, q, id, item, position).k \in {s, a}
  <2>1. prvCopyDataToQueue(s, q, item, position).k = s
    BY <1>2 DEF prvCopyDataToQueue
  <2>2. CASE ~HasRoom(q, position)
    BY <2>2 DEF xQueueGenericSendFromISR
  <2>3. CASE HasRoom(q, position) /\ q.txLock = queueUNLOCKED
    BY <2>1, <2>3 DEF xQueueGenericSendFromISR
  <2>4. CASE HasRoom(q, position) /\ q.txLock # queueUNLOCKED
    BY <2>1, <2>4 DEF xQueueGenericSendFromISR
  <2> QED
    BY <2>2, <2>3, <2>4
<1>3. xQueueGiveFromISR(s, q, id, item).k \in {s, a}
  <2>1. CASE ~HasRoom(q, "back")
    BY <2>1 DEF xQueueGiveFromISR
  <2>2. CASE HasRoom(q, "back") /\ q.txLock = queueUNLOCKED
    BY <2>2 DEF xQueueGiveFromISR
  <2>3. CASE HasRoom(q, "back") /\ q.txLock # queueUNLOCKED
    BY <2>3 DEF xQueueGiveFromISR
  <2> QED
    BY <2>1, <2>2, <2>3
<1>4. xQueueReceiveFromISR(s, q, id).k \in {s, b}
  <2>1. CASE prvIsQueueEmpty(q)
    BY <2>1 DEF xQueueReceiveFromISR
  <2>2. CASE ~prvIsQueueEmpty(q) /\ q.rxLock = queueUNLOCKED
    BY <2>2 DEF xQueueReceiveFromISR
  <2>3. CASE ~prvIsQueueEmpty(q) /\ q.rxLock # queueUNLOCKED
    BY <2>3 DEF xQueueReceiveFromISR
  <2> QED
    BY <2>1, <2>2, <2>3
<1> HIDE DEF a, b
<1>5. \A r \in {s, a} : Sched(r)
  BY <1>1
<1>6. \A r \in {s, b} : Sched(r)
  BY <1>1
<1> QED
  BY <1>2, <1>3, <1>4, <1>5, <1>6

-----------------------------------------------------------------------------
(***************************************************************************)
(* Calls of one task about another.                                        *)
(***************************************************************************)
\* The own priority of a task is nothing to the scheduler.
LEMMA BasedTyped ==
  ASSUME NEW s \in KernelState, NEW base \in [Task -> Priority]
  PROVE  LET r == [s EXCEPT !.base = base]
         IN r \in KernelState /\ SameLists(s, r) /\ SameRun(s, r)
<1> DEFINE r == [s EXCEPT !.base = base]
<1>1. r \in KernelState
  BY DEF KernelState
<1>2. SameLists(s, r) /\ SameRun(s, r)
  BY DEF KernelState, SameLists, SameRun, SameRanks
<1> QED
  BY <1>1, <1>2

\* vTaskPrioritySet by a running task: it yields when it may no longer be a most urgent
\* one.
LEMMA PrioritySetRun ==
  ASSUME NEW s \in Good, NEW t \in Task, NEW p \in Priority,
         s.current \in Task, s.schedSusp = 0, Sched(s)
  PROVE  Sched(vTaskPrioritySet(s, t, p))
<1> DEFINE based == [s EXCEPT !.base[t] = p]
           new == IF s.base[t] = s.prio[t] THEN p ELSE s.prio[t]
           a == Reprioritise(based, t, p)
           set == Requeue(a, t, new, s.prio[t])
           yield == IF p > s.base[t] THEN t # s.current /\ p >= s.prio[s.current]
                    ELSE t = s.current
           r == YieldIf(set, yield)
<1>1. vTaskPrioritySet(s, t, p) = IF s.base[t] = p THEN s ELSE r
  BY DEF vTaskPrioritySet
<1>2. /\ s \in KernelState /\ new \in Priority /\ s.prio \in [Task -> Priority]
      /\ s.prio[t] \in Int /\ s.base[t] \in Int /\ s.prio[s.current] \in Int /\ p \in Int
  <2> HIDE DEF based, a, set, yield, r
  <2>1. s \in KernelState
    BY DEF Good
  <2>2. s.prio \in [Task -> Priority] /\ s.base \in [Task -> Priority]
    BY <2>1 DEF KernelState
  <2>3. Priority \subseteq Int
    BY DEF Priority
  <2> QED
    BY <2>1, <2>2, <2>3
<1>3. based \in Good /\ SameRun(s, based)
  <2> DEFINE changed == [s.base EXCEPT ![t] = p]
  <2>1. changed \in [Task -> Priority]
    <3>1. s.base \in [Task -> Priority]
      <4> HIDE DEF changed, based, a, set, r, new, yield
      <4> QED
        BY <1>2 DEF KernelState
    <3> QED
      BY <3>1
  <2>2. based = [s EXCEPT !.base = changed]
    OBVIOUS
  <2> HIDE DEF changed, based
  <2>3. based \in KernelState /\ SameLists(s, based) /\ SameRun(s, based)
    BY <1>2, <2>1, <2>2, BasedTyped
  <2> QED
    BY <2>3, SameListsGood
<1> HIDE DEF based
<1>4. a \in Good /\ SameRun(based, a)
  BY <1>3, ReprioritiseGood, ReprioritiseRun DEF Moves
<1> HIDE DEF a
<1>5. Sched(a) /\ a.prio = s.prio /\ a.current = s.current /\ a.schedSusp = 0 /\ a.ready = s.ready
  BY <1>3, <1>4, SameRunSched DEF SameRun, SameRanks
<1>6. new = p \/ new = s.prio[t]
  OBVIOUS
<1>7. s.base[t] = s.prio[t] => new = p
  OBVIOUS
<1>8. s.base[t] # s.prio[t] => new = s.prio[t]
  OBVIOUS
<1>9. set \in Good /\ Ranked(a, set, t, new)
  <2> HIDE DEF new
  <2> QED
    BY <1>2, <1>4, <1>5, RequeueGood, RequeueRun DEF Moves
<1>10. Exact(set)
  BY <1>5, <1>9 DEF Ranked, Sched
<1> HIDE DEF set, new
<1>11. yield <=> IF p > s.base[t] THEN t # s.current /\ p >= s.prio[s.current]
                 ELSE t = s.current
  OBVIOUS
<1> HIDE DEF yield
<1>12. IsReady(a, t) => s.prio[t] <= s.prio[s.current]
  BY <1>5 DEF Sched, Urgent
<1>13. ASSUME ~yield, s.base[t] # p PROVE Sched(set)
  <2>1. t = s.current => new >= s.prio[t]
    BY <1>2, <1>6, <1>7, <1>8, <1>11, <1>13
  <2>2. t # s.current /\ IsReady(a, t) => new <= s.prio[s.current]
    BY <1>2, <1>6, <1>7, <1>8, <1>11, <1>12, <1>13
  <2> QED
    BY <1>2, <1>4, <1>5, <1>9, <2>1, <2>2, RankedSched
<1>14. s.base[t] # p => Sched(r)
  BY <1>9, <1>10, <1>13, YieldIfRun
<1> QED
  BY <1>1, <1>14

\* vTaskSuspend takes a task out of the ready lists.
LEMMA SuspendRun ==
  ASSUME NEW s \in Good, NEW t \in Task, Sched(s)
  PROVE  Sched(vTaskSuspend(s, t))
<1> DEFINE a == RemoveStateItem(s, t)
           left == RemoveEventItem(a, t)
           q == s.prio[t]
           cleared == taskRESET_READY_PRIORITY(left, q)
           reset == IF AloneInList(s, t) THEN cleared ELSE left
           r == vTaskSuspend(s, t)
<1>1. /\ SameRanks(s, a) /\ a.top = s.top
      /\ \A p \in Priority : ToSet(a.ready[p].items) = ToSet(s.ready[p].items) \ {t}
  BY RemoveStateRun
<1>2. a \in Good
  BY RemoveStateGood
<1>3. r.ready = reset.ready /\ r.top = reset.top /\ SameRanks(reset, r)
  <2>1. reset \in KernelState
    <3>1. left \in KernelState
      BY <1>2, RemoveEventGood DEF Good
    <3> HIDE DEF left
    <3>2. cleared \in KernelState
      BY <3>1 DEF taskRESET_READY_PRIORITY, portRESET_READY_PRIORITY, KernelState
    <3> QED
      BY <3>1, <3>2
  <2>2. r = [reset EXCEPT !.suspended = @ \cup {t},
                          !.note[t].state = IF @ = "waiting" THEN "none" ELSE @]
    BY DEF vTaskSuspend
  <2> HIDE DEF reset, r
  <2> QED
    BY <2>1, <2>2 DEF KernelState, SameRanks
<1> HIDE DEF a
<1>4. SameRun(a, left) /\ left \in KernelState
  BY <1>2, RemoveEventRun, RemoveEventGood DEF Good
<1> HIDE DEF left
<1>5. /\ SameRanks(left, cleared) /\ cleared.ready = left.ready
      /\ cleared.top = IF left.ready[q].items = <<>> THEN left.top \ {q} ELSE left.top
  BY <1>4 DEF taskRESET_READY_PRIORITY, portRESET_READY_PRIORITY, KernelState, SameRanks
<1> HIDE DEF cleared, r
<1>6. /\ SameRanks(s, r)
      /\ \A p \in Priority : ToSet(r.ready[p].items) = ToSet(s.ready[p].items) \ {t}
  BY <1>1, <1>3, <1>4, <1>5 DEF SameRun, SameRanks
<1>7. /\ q \in Priority
      /\ \A p \in Priority : /\ t \in ToSet(s.ready[p].items) => p = q
                             /\ s.ready[p].items \in Seq(Task) /\ IsInjective(s.ready[p].items)
  BY DEF Good, KernelState, Shape, SoundList, Placed
<1>8. Exact(r)
  <2> SUFFICES ASSUME NEW p \in Priority PROVE p \in r.top <=> ToSet(r.ready[p].items) # {}
    BY DEF Exact
  <2>1. p \in s.top <=> ToSet(s.ready[p].items) # {}
    BY DEF Sched, Exact
  <2>2. CASE p # q
    <3>1. p \in r.top <=> p \in s.top
      BY <1>1, <1>3, <1>4, <1>5, <2>2 DEF SameRun
    <3> QED
      BY <1>6, <1>7, <2>1, <2>2, <3>1
  <2>3. CASE p = q /\ AloneInList(s, t)
    <3>1. left.ready[q].items = <<>> <=> ToSet(left.ready[q].items) = {}
      <4> DEFINE items == left.ready[q].items
      <4>1. items \in Seq(Task)
        BY <1>4, <1>7 DEF KernelState
      <4> HIDE DEF items
      <4>2. items # <<>> => items[1] \in ToSet(items)
        BY <4>1 DEF ToSet
      <4>3. items = <<>> => ToSet(items) = {}
        BY DEF ToSet
      <4> QED
        BY <4>2, <4>3 DEF items
    <3>2. r.ready[q].items = left.ready[q].items
      BY <1>3, <1>5, <2>3
    <3>3. r.top = IF left.ready[q].items = <<>> THEN s.top \ {q} ELSE s.top
      BY <1>1, <1>3, <1>4, <1>5, <2>3 DEF SameRun
    <3> QED
      BY <1>6, <1>7, <2>1, <2>3, <3>1, <3>2, <3>3
  <2>4. CASE p = q /\ ~AloneInList(s, t)
    <3>1. s.ready[q].items # <<t>>
      BY <1>7, <2>4 DEF AloneInList
    <3>2. ToSet(s.ready[q].items) # {t}
      BY <1>7, <3>1, OnlyOne
    <3>3. r.top = s.top
      BY <1>1, <1>3, <1>4, <2>4 DEF SameRun
    <3> QED
      BY <1>6, <2>1, <2>4, <3>2, <3>3
  <2> QED
    BY <2>2, <2>3, <2>4
<1>9. \A u \in Task : IsReady(r, u) => IsReady(s, u)
  BY <1>6, <1>7 DEF IsReady, SameRanks, Good, KernelState
<1>10. Readies(s, r, {})
  BY <1>6, <1>8, <1>9 DEF Readies
<1> QED
  BY <1>10, ReadiesNone DEF r

\* A suspended task that is made ready is one more ready task.
LEMMA WakeSuspendedRun ==
  ASSUME NEW s \in Good, NEW t \in Task, Free(s, t), t \in s.suspended
  PROVE  Readies(s, prvAddTaskToReadyList(RemoveStateItem(s, t), t), {t})
<1> DEFINE a == RemoveStateItem(s, t)
           r == prvAddTaskToReadyList(a, t)
<1>1. a \in Good /\ Away(a, t)
  BY RemoveStateGood
<1>2. /\ SameRanks(s, a) /\ a.top = s.top
      /\ \A p \in Priority : ToSet(a.ready[p].items) = ToSet(s.ready[p].items) \ {t}
  BY RemoveStateRun
<1> HIDE DEF a
<1>3. /\ SameRanks(a, r) /\ r.top = a.top \cup {a.prio[t]}
      /\ \A p \in Priority :
           ToSet(r.ready[p].items) = IF p = a.prio[t] THEN ToSet(a.ready[p].items) \cup {t}
                                     ELSE ToSet(a.ready[p].items)
  BY <1>1, AddReadyRun
<1> HIDE DEF r
<1>4. ~IsReady(s, t)
  BY ReadyIsNotAway
<1>5. s.prio \in [Task -> Priority] /\ \A p \in Priority : t \notin ToSet(s.ready[p].items)
  BY <1>4 DEF Good, KernelState, Placed, IsReady
<1>6. /\ SameRanks(s, r) /\ r.top = s.top \cup {s.prio[t]}
      /\ \A p \in Priority :
           ToSet(r.ready[p].items) = IF p = s.prio[t] THEN ToSet(s.ready[p].items) \cup {t}
                                     ELSE ToSet(s.ready[p].items)
  <2>1. SameRanks(s, r) /\ r.top = s.top \cup {s.prio[t]}
    BY <1>2, <1>3 DEF SameRanks
  <2> SUFFICES ASSUME NEW p \in Priority
               PROVE  ToSet(r.ready[p].items) = IF p = s.prio[t] THEN ToSet(s.ready[p].items) \cup {t}
                                                ELSE ToSet(s.ready[p].items)
    BY <2>1
  <2>2. ToSet(a.ready[p].items) = ToSet(s.ready[p].items) /\ a.prio[t] = s.prio[t]
    BY <1>2, <1>5 DEF SameRanks
  <2> QED
    BY <1>3, <2>2
<1>9. Exact(s) => Exact(r)
  BY <1>6 DEF Exact
<1>7. \A u \in Task : IsReady(r, u) => IsReady(s, u) \/ u \in {t}
  BY <1>5, <1>6 DEF IsReady, SameRanks
<1>8. Readies(s, r, {t})
  BY <1>6, <1>7, <1>9 DEF Readies
<1> QED
  BY <1>8 DEF r, a

\* Priorities are numbers.
LEMMA PriorityCompares ==
  ASSUME NEW s \in Good, NEW t \in Task, NEW u \in Task
  PROVE  /\ s.prio[t] \in Int /\ s.prio[u] \in Int
         /\ s.prio[t] > s.prio[u] => s.prio[t] >= s.prio[u]
<1>1. s.prio \in [Task -> Priority] /\ Priority \subseteq Int
  BY DEF Good, KernelState, Priority
<1>2. s.prio[t] \in Int /\ s.prio[u] \in Int
  BY <1>1
<1> QED
  BY <1>2

\* With the scheduler free, one more ready task is no reason to yield unless it is as
\* urgent.
LEMMA ReadiesOne ==
  ASSUME NEW s \in Good, NEW r \in Good, NEW t \in Task, Readies(s, r, {t}), Sched(s),
         s.schedSusp = 0, s.current \in Task, NEW b, s.prio[t] > s.prio[s.current] => b
  PROVE  Sched(YieldIf(r, b))
<1>1. Exact(r)
  BY DEF Readies, Sched
<1>2. s.prio[t] \in Int /\ s.prio[s.current] \in Int
  BY DEF Good, KernelState, Priority
<1>3. ~b => Urgent(r)
  BY <1>2 DEF Readies, SameRanks, Sched, Urgent
<1> QED
  BY <1>1, <1>3, YieldIfRun DEF Sched

\* vTaskResume by a running task.
LEMMA ResumeRun ==
  ASSUME NEW s \in Good, NEW t \in Task, s.current \in Task, s.schedSusp = 0, Sched(s)
  PROVE  Sched(vTaskResume(s, t))
<1> DEFINE a == prvAddTaskToReadyList(RemoveStateItem(s, t), t)
           b == s.prio[t] >= s.prio[s.current]
<1>1. CASE t # s.current /\ prvTaskIsTaskSuspended(s, t)
  <2>1. vTaskResume(s, t) = YieldIf(a, b)
    BY <1>1 DEF vTaskResume
  <2>2. Free(s, t) /\ t \in s.suspended
    BY <1>1, InEventListIff DEF prvTaskIsTaskSuspended
  <2>3. a \in Good /\ Readies(s, a, {t})
    BY <2>2, WakeSuspendedGood, WakeSuspendedRun DEF Moves
  <2>4. s.prio[t] > s.prio[s.current] => b
    BY PriorityCompares
  <2> HIDE DEF a, b
  <2> QED
    BY <2>1, <2>3, <2>4, ReadiesOne
<1>2. CASE ~(t # s.current /\ prvTaskIsTaskSuspended(s, t))
  BY <1>2 DEF vTaskResume
<1> QED
  BY <1>1, <1>2

\* A switch that is put off.
LEMMA YieldFlagRun ==
  ASSUME NEW s \in Good, NEW b
  PROVE  LET r == [s EXCEPT !.yieldPending = @ \/ b]
         IN /\ r.prio = s.prio /\ r.current = s.current /\ r.schedSusp = s.schedSusp
            /\ (Exact(s) => Exact(r)) /\ (Urgent(s) => Urgent(r)) /\ (Sched(s) => Sched(r))
<1> DEFINE r == [s EXCEPT !.yieldPending = @ \/ b]
<1>1. /\ r.prio = s.prio /\ r.current = s.current /\ r.schedSusp = s.schedSusp
      /\ r.ready = s.ready /\ r.top = s.top /\ r.yieldPending = (s.yieldPending \/ b)
  BY DEF Good, KernelState
<1> HIDE DEF r
<1>2. (Exact(s) => Exact(r)) /\ (Urgent(s) => Urgent(r))
  BY <1>1 DEF Exact, Urgent, IsReady
<1>3. Sched(s) => Sched(r)
  BY <1>1, <1>2 DEF Sched
<1> QED
  BY <1>1, <1>2, <1>3 DEF r

\* xTaskResumeFromISR
LEMMA ResumeFromISRRun ==
  ASSUME NEW s \in Good, NEW t \in Task, s.current \in Task, Sched(s)
  PROVE  Sched(xTaskResumeFromISR(s, t))
<1> DEFINE urgent == s.prio[t] >= s.prio[s.current]
           a == prvAddTaskToReadyList(RemoveStateItem(s, t), t)
           b == [a EXCEPT !.yieldPending = @ \/ urgent]
<1>1. CASE ~prvTaskIsTaskSuspended(s, t)
  BY <1>1 DEF xTaskResumeFromISR
<1>2. CASE prvTaskIsTaskSuspended(s, t) /\ s.schedSusp = 0
  <2>1. xTaskResumeFromISR(s, t) = YieldIf(b, urgent)
    BY <1>2 DEF xTaskResumeFromISR
  <2>2. Free(s, t) /\ t \in s.suspended
    BY <1>2, InEventListIff DEF prvTaskIsTaskSuspended
  <2>3. a \in Good /\ Readies(s, a, {t})
    BY <2>2, WakeSuspendedGood, WakeSuspendedRun DEF Moves
  <2>4. s.prio[t] > s.prio[s.current] => urgent
    BY PriorityCompares
  <2> HIDE DEF a, urgent
  <2>5. b \in Good
    BY <2>3, YieldFlagGood DEF Moves
  <2>6. Exact(a) /\ (~urgent => Sched(a))
    <3>1. ~urgent => Sched(YieldIf(a, FALSE))
      BY <1>2, <2>3, <2>4, ReadiesOne
    <3> QED
      BY <2>3, <3>1 DEF YieldIf, Readies, Sched
  <2>7. Exact(b) /\ (~urgent => Sched(b))
    BY <2>3, <2>6, YieldFlagRun
  <2> HIDE DEF b
  <2> QED
    BY <2>1, <2>5, <2>7, YieldIfRun
<1>3. CASE prvTaskIsTaskSuspended(s, t) /\ s.schedSusp # 0
  <2> DEFINE r == [s EXCEPT !.pending = Append(@, t)]
  <2>1. xTaskResumeFromISR(s, t) = r
    BY <1>3 DEF xTaskResumeFromISR
  <2>2. SameRun(s, r)
    BY DEF Good, KernelState, SameRun, SameRanks
  <2> HIDE DEF r
  <2> QED
    BY <2>1, <2>2, SameRunSched
<1> QED
  BY <1>1, <1>2, <1>3

\* xTaskAbortDelay, with the scheduler suspended: a task that is more urgent waits for
\* the yield that is pending.
LEMMA AbortDelayRun ==
  ASSUME NEW s \in Good, NEW t \in Task, s.current \in Task, s.schedSusp # 0, Sched(s)
  PROVE  Sched(xTaskAbortDelay(s, t))
<1> DEFINE a == Unblock(s, t)
           waits == InEventList(s, t)
           urgent == s.prio[t] > s.prio[s.current]
           b == [a EXCEPT !.aborted[t] = @ \/ waits]
           r == [b EXCEPT !.yieldPending = @ \/ urgent]
<1>1. xTaskAbortDelay(s, t) = s \/ xTaskAbortDelay(s, t) = r
  BY DEF xTaskAbortDelay
<1>2. urgent <=> s.prio[t] > s.prio[s.current]
  OBVIOUS
<1> HIDE DEF waits, urgent
<1>3. a \in Good /\ Readies(s, a, {t})
  BY UnblockGood, UnblockRun DEF Moves
<1> HIDE DEF a
<1>4. b.prio = a.prio /\ b.current = a.current /\ b.schedSusp = a.schedSusp
      /\ b.ready = a.ready /\ b.top = a.top /\ b.yieldPending = a.yieldPending
      /\ b = [b EXCEPT !.yieldPending = @]
  BY <1>3 DEF Good, KernelState
<1>5. /\ r.prio = b.prio /\ r.current = b.current /\ r.schedSusp = b.schedSusp
      /\ r.ready = b.ready /\ r.top = b.top /\ r.yieldPending = (b.yieldPending \/ urgent)
  <2>1. DOMAIN b = DOMAIN a
    OBVIOUS
  <2> HIDE DEF b
  <2> QED
    BY <1>3, <2>1 DEF Good, KernelState
<1> HIDE DEF b, r
<1>6. Exact(r)
  BY <1>3, <1>4, <1>5 DEF Readies, Sched, Exact
<1>7. \A u \in Task : IsReady(r, u) => IsReady(s, u) \/ u = t
  BY <1>3, <1>4, <1>5 DEF Readies, IsReady
<1>8. s.prio[t] \in Int /\ s.prio[s.current] \in Int
  BY DEF Good, KernelState, Priority
<1>9. /\ r.schedSusp = s.schedSusp /\ r.prio = s.prio /\ r.current = s.current
      /\ r.yieldPending = (s.yieldPending \/ urgent)
  BY <1>3, <1>4, <1>5 DEF Readies, SameRanks
<1>10. Urgent(s) => urgent \/ Urgent(r)
  BY <1>2, <1>7, <1>8, <1>9 DEF Urgent
<1>11. Sched(r)
  BY <1>6, <1>9, <1>10 DEF Sched
<1> QED
  BY <1>1, <1>11

\* xTaskCheckForTimeOut
LEMMA CheckForTimeOutRun ==
  ASSUME NEW s \in Good, Sched(s), NEW wait
  PROVE  Sched(xTaskCheckForTimeOut(s, wait).k)
<1> DEFINE calm == [s EXCEPT !.aborted[s.current] = FALSE]
           r == xTaskCheckForTimeOut(s, wait).k
<1>1. SameRun(s, calm)
  BY DEF Good, KernelState, SameRun, SameRanks
<1>2. r = s \/ r = calm
  <2>1. CASE s.aborted[s.current]
    BY <2>1 DEF xTaskCheckForTimeOut
  <2>2. CASE ~s.aborted[s.current] /\ wait.left = portMAX_DELAY
    BY <2>2 DEF xTaskCheckForTimeOut
  <2>3. CASE ~s.aborted[s.current] /\ wait.left # portMAX_DELAY
    BY <2>3 DEF xTaskCheckForTimeOut
  <2> QED
    BY <2>1, <2>2, <2>3
<1> HIDE DEF calm, r
<1>3. Sched(r)
  BY <1>1, <1>2, SameRunSched
<1> QED
  BY <1>3 DEF r

-----------------------------------------------------------------------------
(***************************************************************************)
(* Time.  A task in a delayed list sleeps until the tick count has its     *)
(* value, in this turn of the count or in the next.                        *)
(***************************************************************************)
Now(s) == s.overflows * TickMod + s.tick

Delayed(s, t) == t \in ToSet(s.delayed) \/ t \in ToSet(s.overflow)

WakesAt(s, t) ==
  (IF t \in ToSet(s.delayed) THEN s.overflows ELSE s.overflows + 1) * TickMod + s.wake[t]

\* The delayed lists are in the order of the times, which are to come, and the
\* tick will look at the first in time.
Clocked(s) ==
  /\ Ordered(s.delayed, s.wake) /\ Ordered(s.overflow, s.wake)
  /\ \A t \in ToSet(s.delayed) : s.tick < s.wake[t] /\ s.unblock <= s.wake[t]

\* r comes from s at the same time.  No task sleeps that did not, or until another
\* time; one that waits for the clock alone sleeps on, unless it is in W.
Wakes(s, r, W) ==
  /\ r.tick = s.tick /\ r.overflows = s.overflows
  /\ r.unblock = s.unblock /\ r.schedSusp = s.schedSusp
  /\ Ordered(s.delayed, s.wake) => Ordered(r.delayed, r.wake)
  /\ Ordered(s.overflow, s.wake) => Ordered(r.overflow, r.wake)
  /\ \A u \in Task :
       /\ u \in ToSet(r.delayed) => u \in ToSet(s.delayed) /\ r.wake[u] = s.wake[u]
       /\ u \in ToSet(r.overflow) => u \in ToSet(s.overflow) /\ r.wake[u] = s.wake[u]
       /\ Delayed(s, u) /\ Free(s, u) => IF Delayed(r, u) THEN Free(r, u) ELSE u \in W

\* r comes from s in some time: the same, and one that no longer sleeps and is not
\* in W has slept until its time.
Passes(s, r, W) ==
  Clocked(s) =>
    /\ Clocked(r)
    /\ r.schedSusp = s.schedSusp
    /\ IF s.schedSusp # 0 THEN r.tick = s.tick /\ r.overflows = s.overflows
       ELSE Now(s) <= Now(r)
    /\ \A u \in Task : Delayed(r, u) => Delayed(s, u) /\ WakesAt(r, u) = WakesAt(s, u)
    /\ \A u \in Task : Delayed(s, u) /\ Free(s, u) =>
         IF Delayed(r, u) THEN Free(r, u) ELSE u \in W \/ WakesAt(s, u) <= Now(r)

\* The delayed lists and the clock are those of s.
SameTimes(s, r) ==
  /\ r.delayed = s.delayed /\ r.overflow = s.overflow /\ r.wake = s.wake
  /\ r.tick = s.tick /\ r.overflows = s.overflows /\ r.unblock = s.unblock
  /\ r.schedSusp = s.schedSusp

\* And the event lists are.
SameSleep(s, r) == SameTimes(s, r) /\ r.pending = s.pending /\ r.events = s.events

\* Times are numbers.
LEMMA TimesTyped ==
  ASSUME NEW s \in KernelState
  PROVE  /\ Now(s) \in Nat /\ s.tick \in Nat /\ s.tick < TickMod /\ s.overflows \in Nat
         /\ s.unblock \in Nat /\ s.schedSusp \in Nat
         /\ s.delayed \in Seq(Task) /\ s.overflow \in Seq(Task)
         /\ \A u \in Task : WakesAt(s, u) \in Nat /\ s.wake[u] \in Nat /\ s.wake[u] < TickMod
<1>1. /\ s.tick \in Ticks /\ s.overflows \in Nat /\ s.unblock \in Ticks /\ s.schedSusp \in Nat
      /\ s.wake \in [Task -> Ticks] /\ s.delayed \in Seq(Task) /\ s.overflow \in Seq(Task)
  BY DEF KernelState
<1>2. \A x \in Ticks : x \in Nat /\ x < TickMod
  BY TaskAssumption DEF Ticks
<1>3. \A n \in Nat : n * TickMod \in Nat
  BY TaskAssumption
<1>4. Now(s) \in Nat
  <2>1. s.overflows * TickMod \in Nat /\ s.tick \in Nat
    BY <1>1, <1>2, <1>3
  <2> QED
    BY <2>1 DEF Now
<1>5. ASSUME NEW u \in Task PROVE WakesAt(s, u) \in Nat
  <2> DEFINE n == IF u \in ToSet(s.delayed) THEN s.overflows ELSE s.overflows + 1
  <2>1. n \in Nat /\ s.wake[u] \in Nat
    BY <1>1, <1>2
  <2>2. WakesAt(s, u) = n * TickMod + s.wake[u]
    BY DEF WakesAt
  <2> HIDE DEF n
  <2>3. n * TickMod \in Nat
    BY <1>3, <2>1
  <2> QED
    BY <2>1, <2>2, <2>3
<1> QED
  BY <1>1, <1>2, <1>4, <1>5

\* What leaves the delayed lists alone and takes none from an event list back wakes none.
LEMMA SameTimesWakes ==
  ASSUME NEW s, NEW r, SameTimes(s, r), NEW W,
         \A u \in Task : Delayed(s, u) /\ Free(s, u) => Free(r, u)
  PROVE  Wakes(s, r, W)
BY DEF SameTimes, Wakes, Delayed

\* In particular, what leaves the event lists alone too.
LEMMA SameSleepWakes ==
  ASSUME NEW s, NEW r, SameSleep(s, r), NEW W
  PROVE  Wakes(s, r, W)
BY SameTimesWakes DEF SameSleep, Free

\* Those that do not wait for the clock alone need no exception.
LEMMA WakesNone ==
  ASSUME NEW s, NEW r, NEW W, Wakes(s, r, W),
         \A u \in Task : u \in W => ~Delayed(s, u) \/ ~Free(s, u)
  PROVE  Wakes(s, r, {})
BY DEF Wakes

\* Waking composes.
LEMMA WakesTransitive ==
  ASSUME NEW s, NEW r, NEW v, NEW W, NEW X, Wakes(s, r, W), Wakes(r, v, X)
  PROVE  Wakes(s, v, W \cup X)
BY DEF Wakes, Delayed

\* Waking is one way to pass.
LEMMA WakesPasses ==
  ASSUME NEW s \in Good, NEW r \in Good, NEW W, Wakes(s, r, W)
  PROVE  Passes(s, r, W)
<1>1. Now(s) = Now(r) /\ Now(s) \in Nat
  BY TimesTyped DEF Wakes, Now, Good
<1>2. \A u \in Task : Placed(s, u) /\ Placed(r, u)
  BY DEF Good
<1>3. \A u \in Task : Delayed(r, u) => Delayed(s, u) /\ WakesAt(r, u) = WakesAt(s, u)
  BY <1>2 DEF Wakes, Delayed, WakesAt, Placed
<1>4. Clocked(s) => Clocked(r)
  <2>1. r.delayed \in Seq(Task)
    BY DEF Good, KernelState
  <2>2. \A u \in ToSet(r.delayed) : u \in Task
    BY <2>1 DEF ToSet
  <2> QED
    BY <2>2 DEF Wakes, Clocked
<1> QED
  BY <1>1, <1>3, <1>4 DEF Wakes, Passes

\* So does what passes.
LEMMA PassesTransitive ==
  ASSUME NEW s \in Good, NEW r \in Good, NEW v \in Good, NEW W, Passes(s, r, W), Passes(r, v, W)
  PROVE  Passes(s, v, W)
<1>1. Now(s) \in Nat /\ Now(r) \in Nat /\ Now(v) \in Nat
  BY TimesTyped DEF Good
<1>2. \A u \in Task : WakesAt(s, u) \in Nat
  BY TimesTyped DEF Good
<1>3. ASSUME r.tick = s.tick, r.overflows = s.overflows PROVE Now(r) = Now(s)
  BY <1>3 DEF Now
<1>4. SUFFICES ASSUME Clocked(s) PROVE Passes(s, v, W)
  BY DEF Passes
<1>5. Clocked(r)
  BY <1>4 DEF Passes
<1>6. Now(s) <= Now(v) /\ Now(s) <= Now(r) /\ Now(r) <= Now(v)
  <2>1. r.schedSusp = s.schedSusp
    BY <1>4 DEF Passes
  <2>2. CASE s.schedSusp = 0
    BY <1>1, <1>4, <1>5, <2>1, <2>2 DEF Passes
  <2>3. CASE s.schedSusp # 0
    <3>1. Now(r) = Now(s) /\ Now(v) = Now(r)
      BY <1>4, <1>5, <2>1, <2>3 DEF Passes, Now
    <3> QED
      BY <1>1, <3>1
  <2> QED
    BY <2>2, <2>3
<1>7. \A u \in Task : Delayed(v, u) => Delayed(s, u) /\ WakesAt(v, u) = WakesAt(s, u)
  BY <1>4, <1>5 DEF Passes
<1>8. ASSUME NEW u \in Task, Delayed(s, u), Free(s, u)
      PROVE  IF Delayed(v, u) THEN Free(v, u) ELSE u \in W \/ WakesAt(s, u) <= Now(v)
  <2>1. IF Delayed(r, u) THEN Free(r, u) ELSE u \in W \/ WakesAt(s, u) <= Now(r)
    BY <1>4, <1>8 DEF Passes
  <2>2. CASE Delayed(r, u)
    <3>1. WakesAt(r, u) = WakesAt(s, u)
      BY <1>4, <2>2 DEF Passes
    <3> QED
      BY <1>5, <2>1, <2>2, <3>1 DEF Passes
  <2>3. CASE ~Delayed(r, u)
    <3>1. ~Delayed(v, u)
      BY <1>5, <2>3 DEF Passes
    <3> QED
      BY <1>1, <1>2, <1>6, <2>1, <2>3, <3>1
  <2> QED
    BY <2>2, <2>3
<1> QED
  BY <1>4, <1>5, <1>6, <1>7, <1>8 DEF Passes

\* With fewer exceptions: those that do not wait for the clock alone, and those
\* whose time has come.
LEMMA PassesLess ==
  ASSUME NEW s \in Good, NEW r \in Good, NEW W, Passes(s, r, W), NEW X,
         \A u \in Task : u \in W /\ Delayed(s, u) /\ Free(s, u) /\ Clocked(s)
                           => u \in X \/ WakesAt(s, u) <= Now(r)
  PROVE  Passes(s, r, X)
BY DEF Passes

\* RemoveStateItem takes a task out of the delayed lists.
LEMMA RemoveStateTimes ==
  ASSUME NEW s \in Good, NEW t \in Task
  PROVE  Wakes(s, RemoveStateItem(s, t), {t})
<1> DEFINE r == RemoveStateItem(s, t)
<1>1. s \in KernelState /\ r \in Good /\ IsInjective(s.delayed) /\ IsInjective(s.overflow)
  BY RemoveStateGood DEF Good, Shape
<1>2. /\ r.delayed = Unlink(s.delayed, t) /\ r.overflow = Unlink(s.overflow, t)
      /\ r.tick = s.tick /\ r.overflows = s.overflows /\ r.unblock = s.unblock
      /\ r.schedSusp = s.schedSusp /\ r.pending = s.pending /\ r.events = s.events
      /\ r.wake = [s.wake EXCEPT ![t] = 0]
  BY <1>1 DEF RemoveStateItem, KernelState
<1>3. /\ s.delayed \in Seq(Task) /\ s.overflow \in Seq(Task) /\ s.wake \in [Task -> Ticks]
  BY <1>1 DEF KernelState
<1>4. /\ ToSet(r.delayed) = ToSet(s.delayed) \ {t} /\ ToSet(r.overflow) = ToSet(s.overflow) \ {t}
      /\ \A u \in Task : u # t => r.wake[u] = s.wake[u]
  BY <1>1, <1>2, <1>3, RemoveOne
<1>5. ASSUME NEW items \in Seq(Task), IsInjective(items), Ordered(items, s.wake)
      PROVE  Ordered(Unlink(items, t), r.wake)
  <2>0. Len(items) \in Nat /\ DOMAIN items = 1..Len(items) /\ \A i \in 1..Len(items) : items[i] \in Task
    OBVIOUS
  <2>1. CASE Contains(items, t)
    <3> DEFINE n == PositionOf(items, t)
    <3>1. n \in 1..Len(items) /\ items[n] = t
      BY <2>0, <2>1 DEF PositionOf, Contains
    <3>2. Unlink(items, t) = RemoveAt(items, n)
      BY <2>1 DEF Unlink
    <3> HIDE DEF n
    <3>3. \A i \in 1..Len(items) : i # n => items[i] # t
      BY <1>5, <2>0, <3>1 DEF IsInjective
    <3>4. \A i \in 1..Len(items) : i # n => r.wake[items[i]] = s.wake[items[i]]
      BY <1>4, <2>0, <3>3
    <3> DEFINE v == s.wake
               w == r.wake
    <3>5. Ordered(items, v) /\ \A i \in 1..Len(items) : i # n => w[items[i]] = v[items[i]]
      BY <1>5, <3>4
    <3> HIDE DEF v, w
    <3>6. Ordered(RemoveAt(items, n), w)
      BY <3>1, <3>5, OrderedWithout
    <3> QED
      BY <3>2, <3>6 DEF w
  <2>2. CASE ~Contains(items, t)
    <3>1. \A i \in 1..Len(items) : items[i] # t
      BY <2>0, <2>2 DEF Contains
    <3>2. \A i \in 1..Len(items) : r.wake[items[i]] = s.wake[items[i]]
      BY <1>4, <2>0, <3>1
    <3> HIDE DEF r
    <3> QED
      BY <1>5, <2>0, <2>2, <3>2 DEF Unlink, Ordered
  <2> QED
    BY <2>1, <2>2
<1> HIDE DEF r
<1>6. Wakes(s, r, {t})
  BY <1>1, <1>2, <1>3, <1>4, <1>5 DEF Wakes, Delayed, Free
<1> QED
  BY <1>6 DEF r

\* The rest of what moves items leaves the times alone.
LEMMA RemoveEventTimes ==
  ASSUME NEW s \in Good, NEW t \in Task, NEW W
  PROVE  Wakes(s, RemoveEventItem(s, t), W)
<1> DEFINE r == RemoveEventItem(s, t)
<1>1. SameTimes(s, r)
  BY DEF Good, KernelState, RemoveEventItem, SameTimes
<1>2. \A u \in Task : Free(s, u) => Free(r, u)
  BY RemoveEventGood DEF Others
<1> HIDE DEF r
<1>3. Wakes(s, r, W)
  BY <1>1, <1>2, SameTimesWakes
<1> QED
  BY <1>3 DEF r

\* Nor does it change who sleeps that a task is made ready, or a priority is no longer.
LEMMA AddReadyTimes ==
  ASSUME NEW s \in KernelState, NEW t \in Task, NEW p
  PROVE  /\ SameSleep(s, prvAddTaskToReadyList(s, t))
         /\ SameSleep(s, portRESET_READY_PRIORITY(s, p))
         /\ SameSleep(s, taskRESET_READY_PRIORITY(s, p))
BY DEF KernelState, prvAddTaskToReadyList, portRESET_READY_PRIORITY,
       taskRESET_READY_PRIORITY, SameTimes, SameSleep

\* A task that is made ready no longer sleeps; no other wakes.
LEMMA UnblockTimes ==
  ASSUME NEW s \in Good, NEW t \in Task
  PROVE  Wakes(s, Unblock(s, t), {t})
<1> DEFINE a == RemoveStateItem(s, t)
           b == RemoveEventItem(a, t)
           r == prvAddTaskToReadyList(b, t)
<1>1. a \in Good /\ Wakes(s, a, {t})
  BY RemoveStateTimes, RemoveStateGood
<1> HIDE DEF a
<1>2. b \in Good /\ Wakes(a, b, {t})
  BY <1>1, RemoveEventTimes, RemoveEventGood
<1> HIDE DEF b
<1>3. Wakes(b, r, {t})
  BY <1>2, AddReadyTimes, SameSleepWakes DEF Good
<1>4. Unblock(s, t) = r
  BY DEF Unblock, a, b
<1> HIDE DEF r
<1>5. Wakes(s, b, {t})
  BY <1>1, <1>2, WakesTransitive
<1> QED
  BY <1>3, <1>4, <1>5, WakesTransitive

\* A ready task does not sleep.
LEMMA LeaveReadyTimes ==
  ASSUME NEW s \in Good, NEW t \in Task, IsReady(s, t), NEW p
  PROVE  Wakes(s, LeaveReadyList(s, t, p), {})
<1> DEFINE a == RemoveStateItem(s, t)
           b == portRESET_READY_PRIORITY(a, p)
<1>1. a \in Good /\ Wakes(s, a, {t})
  BY RemoveStateTimes, RemoveStateGood
<1>2. ~Delayed(s, t)
  BY DEF Good, Placed, Delayed
<1>3. Wakes(s, a, {})
  BY <1>1, <1>2, WakesNone
<1>4. LeaveReadyList(s, t, p) \in {a, b}
  BY DEF LeaveReadyList
<1> HIDE DEF a
<1>5. Wakes(a, b, {})
  BY <1>1, AddReadyTimes, SameSleepWakes DEF Good
<1> HIDE DEF b
<1>6. Wakes(s, b, {} \cup {})
  BY <1>3, <1>5, WakesTransitive
<1>7. {} \cup {} = {}
  OBVIOUS
<1> QED
  BY <1>3, <1>4, <1>6, <1>7

\* A change of priority leaves the clock alone.
LEMMA RequeueTimes ==
  ASSUME NEW s \in Good, NEW t \in Task, NEW p \in Priority, NEW bit
  PROVE  Wakes(s, Requeue(s, t, p, bit), {})
<1> DEFINE left == IF InReadyList(s, t) THEN LeaveReadyList(s, t, bit) ELSE s
           set == [left EXCEPT !.prio[t] = p]
           added == prvAddTaskToReadyList(set, t)
<1>1. s \in KernelState /\ s.prio[t] \in Priority /\ s.ready[s.prio[t]].items \in Seq(Task)
  BY DEF Good, KernelState
<1>2. InReadyList(s, t) <=> IsReady(s, t)
  BY <1>1 DEF InReadyList, IsReady, Contains, ToSet
<1>3. left \in Good /\ Wakes(s, left, {})
  <2>1. Wakes(s, s, {})
    BY DEF Wakes
  <2> QED
    BY <1>2, <2>1, LeaveReadyGood, LeaveReadyTimes
<1>4. Requeue(s, t, p, bit) \in {set, added}
  BY DEF Requeue
<1> HIDE DEF left
<1>5. set \in KernelState /\ SameSleep(left, set)
  BY <1>3 DEF Good, KernelState, SameSleep, SameTimes
<1> HIDE DEF set
<1>6. SameSleep(set, added)
  BY <1>5, AddReadyTimes
<1> HIDE DEF added
<1>7. SameSleep(left, added)
  BY <1>5, <1>6 DEF SameSleep, SameTimes
<1>8. Wakes(left, set, {}) /\ Wakes(left, added, {})
  BY <1>5, <1>7, SameSleepWakes
<1>9. {} \cup {} = {}
  OBVIOUS
<1>10. Wakes(s, set, {} \cup {}) /\ Wakes(s, added, {} \cup {})
  BY <1>3, <1>8, WakesTransitive
<1> QED
  BY <1>4, <1>9, <1>10

\* The fields that are not of the delayed lists.
LEMMA FieldTimes ==
  ASSUME NEW s \in KernelState, NEW t, NEW x
  PROVE  /\ SameSleep(s, [s EXCEPT !.yieldPending = x]) /\ SameSleep(s, [s EXCEPT !.pended = x])
         /\ SameSleep(s, [s EXCEPT !.held[t] = x]) /\ SameSleep(s, [s EXCEPT !.base[t] = x])
         /\ SameSleep(s, [s EXCEPT !.aborted[t] = x]) /\ SameSleep(s, [s EXCEPT !.current = x])
         /\ SameSleep(s, Reprioritise(s, t, x))
BY DEF KernelState, SameSleep, SameTimes, Reprioritise

\* Nor does a switch.
LEMMA SwitchTimes ==
  ASSUME NEW s \in KernelState, NEW b
  PROVE  SameSleep(s, vTaskSwitchContext(s)) /\ SameSleep(s, YieldIf(s, b))
<1>1. SameSleep(s, s)
  BY DEF SameSleep, SameTimes
<1>2. \A r \in KernelState : SameSleep(r, taskSELECT_HIGHEST_PRIORITY_TASK(r))
  BY DEF KernelState, taskSELECT_HIGHEST_PRIORITY_TASK, SameSleep, SameTimes
<1>3. \A x \in BOOLEAN : [s EXCEPT !.yieldPending = x] \in KernelState
  BY DEF KernelState
<1>4. SameSleep(s, vTaskSwitchContext(s))
  <2>1. CASE s.schedSusp # 0
    BY <2>1, FieldTimes DEF vTaskSwitchContext
  <2>2. CASE s.schedSusp = 0
    <3> DEFINE r == [s EXCEPT !.yieldPending = FALSE]
               v == taskSELECT_HIGHEST_PRIORITY_TASK(r)
    <3>1. r \in KernelState /\ SameSleep(s, r)
      BY <1>3, FieldTimes
    <3>2. vTaskSwitchContext(s) = v
      BY <2>2 DEF vTaskSwitchContext
    <3> HIDE DEF r
    <3>3. SameSleep(r, v)
      BY <1>2, <3>1
    <3> HIDE DEF v
    <3> QED
      BY <3>1, <3>2, <3>3 DEF SameSleep, SameTimes
  <2> QED
    BY <2>1, <2>2
<1> QED
  BY <1>1, <1>4 DEF YieldIf

\* The delayed list can be looked at from the time of its first task on.
LEMMA ResetUnblockTimes ==
  ASSUME NEW s \in Good
  PROVE  LET r == prvResetNextTaskUnblockTime(s)
         IN /\ r.delayed = s.delayed /\ r.overflow = s.overflow /\ r.wake = s.wake
            /\ r.tick = s.tick /\ r.overflows = s.overflows /\ r.schedSusp = s.schedSusp
            /\ r.pending = s.pending /\ r.events = s.events
            /\ Ordered(s.delayed, s.wake) => \A u \in ToSet(s.delayed) : r.unblock <= s.wake[u]
<1> DEFINE r == prvResetNextTaskUnblockTime(s)
           w == s.wake
<1>1. s \in KernelState /\ s.delayed \in Seq(Task) /\ \A u \in Task : w[u] \in Nat
  BY TimesTyped DEF Good
<1>2. /\ r.delayed = s.delayed /\ r.overflow = s.overflow /\ r.wake = s.wake
      /\ r.tick = s.tick /\ r.overflows = s.overflows /\ r.schedSusp = s.schedSusp
      /\ r.pending = s.pending /\ r.events = s.events
      /\ r.unblock = IF s.delayed = <<>> THEN portMAX_DELAY ELSE w[Head(s.delayed)]
  BY <1>1 DEF KernelState, prvResetNextTaskUnblockTime
<1>3. CASE s.delayed = <<>>
  BY <1>2, <1>3 DEF ToSet
<1>4. CASE s.delayed # <<>>
  <2> HIDE DEF w, r
  <2>1. Ordered(s.delayed, w) => \A u \in ToSet(s.delayed) : w[Head(s.delayed)] <= w[u]
    BY <1>1, <1>4, HeadIsLeast
  <2> QED
    BY <1>2, <1>4, <2>1 DEF w, r
<1> QED
  BY <1>3, <1>4

\* Those that UnblockAll unblocks are ready after it, and no longer sleep.
LEMMA UnblockAllTimes ==
  ASSUME NEW s \in Good, NEW tasks \in Seq(Task)
  PROVE  LET r == UnblockAll(s, tasks)
         IN Wakes(s, r, ToSet(tasks)) /\ \A t \in ToSet(tasks) : ~Delayed(r, t)
<1> DEFINE n == Len(tasks)
           P == [m \in 0..n |-> {r \in Good : /\ Wakes(s, r, ToSet(tasks))
                                              /\ \A i \in 1..m : IsReady(r, tasks[i])}]
<1>1. n \in Nat /\ n \in 0..n /\ 0 \in 0..n /\ \A i \in 1..n : i \in 0..n /\ i - 1 \in 0..n
  OBVIOUS
<1>2. \A i \in 1..n : tasks[i] \in ToSet(tasks)
  BY DEF ToSet
<1>3. PICK a : /\ a[0] = s /\ UnblockAll(s, tasks) = a[n]
               /\ \A i \in 1..n : /\ tasks[i] \in Task /\ a[i - 1] \in Good
                                  /\ a[i] = Unblock(a[i - 1], tasks[i])
  BY UnblockAllSteps
<1>4. \A t \in ToSet(tasks) : \E i \in 1..n : t = tasks[i]
  BY DEF ToSet
<1> HIDE DEF n
<1>5. \A m \in 0..n : P[m] = {r \in Good : /\ Wakes(s, r, ToSet(tasks))
                                           /\ \A i \in 1..m : IsReady(r, tasks[i])}
  OBVIOUS
<1> HIDE DEF P
<1>6. a[0] \in P[0]
  <2>1. Wakes(s, s, ToSet(tasks))
    BY DEF Wakes
  <2> QED
    BY <1>1, <1>3, <1>5, <2>1
<1>7. ASSUME NEW m \in 1..n, a[m - 1] \in P[m - 1] PROVE a[m] \in P[m]
  <2> DEFINE r == a[m - 1]
             v == Unblock(r, tasks[m])
  <2>1. /\ r \in Good /\ Wakes(s, r, ToSet(tasks)) /\ a[m] = v /\ tasks[m] \in Task
        /\ \A i \in 1..(m - 1) : IsReady(r, tasks[i])
    BY <1>1, <1>3, <1>5, <1>7
  <2> HIDE DEF r
  <2>2. /\ v \in Good /\ Wakes(r, v, {tasks[m]}) /\ IsReady(v, tasks[m])
        /\ \A u \in Task : IsReady(r, u) => IsReady(v, u)
    BY <2>1, UnblockGood, UnblockTimes DEF Moves
  <2> HIDE DEF v
  <2>3. Wakes(s, v, ToSet(tasks) \cup {tasks[m]})
    BY <2>1, <2>2, WakesTransitive
  <2>4. ToSet(tasks) \cup {tasks[m]} = ToSet(tasks)
    BY <1>2
  <2>5. ASSUME NEW i \in 1..m PROVE IsReady(v, tasks[i])
    <3>1. m \in Nat /\ n \in Nat /\ m <= n /\ i \in 1..n /\ (i = m \/ i \in 1..(m - 1))
      BY <1>1
    <3> QED
      BY <1>3, <2>1, <2>2, <3>1
  <2>6. Wakes(s, v, ToSet(tasks))
    BY <2>3, <2>4
  <2>7. v \in {x \in Good : /\ Wakes(s, x, ToSet(tasks))
                            /\ \A i \in 1..m : IsReady(x, tasks[i])}
    BY <2>2, <2>5, <2>6
  <2>8. m \in 0..n
    BY <1>1
  <2> QED
    BY <1>5, <2>1, <2>7, <2>8
<1>8. a[n] \in P[n]
  BY <1>1, <1>6, <1>7, ChainIn
<1>9. a[n] \in Good /\ Wakes(s, a[n], ToSet(tasks)) /\ \A i \in 1..n : IsReady(a[n], tasks[i])
  BY <1>1, <1>5, <1>8
<1>10. \A i \in 1..n : ~Delayed(a[n], tasks[i])
  BY <1>3, <1>9 DEF Good, Placed, Delayed
<1> QED
  BY <1>3, <1>4, <1>9, <1>10

\* Those that are due are those of the delayed list whose time has come.
LEMMA DueTasksAre ==
  ASSUME NEW s \in Good, Ordered(s.delayed, s.wake)
  PROVE  /\ DueTasks(s) \in Seq(Task)
         /\ ToSet(DueTasks(s)) = {u \in ToSet(s.delayed) : s.wake[u] <= s.tick}
<1> DEFINE d == s.delayed
           w == s.wake
           now == s.tick
           Due == {i \in DOMAIN d : \A j \in 1..i : w[d[j]] <= now}
           n == Cardinality(Due)
<1>1. /\ d \in Seq(Task) /\ DOMAIN d = 1..Len(d) /\ Len(d) \in Nat
      /\ \A i \in 1..Len(d) : d[i] \in Task /\ w[d[i]] \in Nat
      /\ now \in Nat
  BY TimesTyped DEF Good
<1>2. DueTasks(s) = SubSeq(d, 1, n)
  BY DEF DueTasks
<1>3. Ordered(d, w)
  OBVIOUS
<1>4. DueTasks(s) \in Seq(Task)
  BY DueTasksTyped
<1>5. Due = {i \in 1..Len(d) : w[d[i]] <= now}
  <2> HIDE DEF d, w, now
  <2>1. ASSUME NEW i \in 1..Len(d), w[d[i]] <= now, NEW j \in 1..i PROVE w[d[j]] <= now
    <3>1. j \in 1..Len(d) /\ (j < i \/ j = i)
      BY <1>1
    <3>2. w[d[j]] <= w[d[i]]
      BY <1>1, <1>3, <3>1 DEF Ordered
    <3> QED
      BY <1>1, <2>1, <3>1, <3>2
  <2>2. \A i \in 1..Len(d) : i \in 1..i
    BY <1>1
  <2> QED
    BY <1>1, <2>1, <2>2
<1> HIDE DEF d, w, now
<1>6. ASSUME NEW i \in Due, NEW j \in 1..i PROVE j \in Due
  <2>1. i \in 1..Len(d) /\ j \in 1..Len(d)
    BY <1>1
  <2>2. \A m \in 1..j : m \in 1..i
    BY <2>1
  <2> QED
    BY <1>1, <2>1, <2>2
<1>7. Due \in SUBSET (1..Len(d))
  BY <1>1
<1> HIDE DEF Due
<1>8. n \in 0..Len(d) /\ Due = 1..n
  BY <1>1, <1>6, <1>7, InitialSegment
<1> HIDE DEF n
<1>9. SubSeq(d, 1, n) \in Seq(Task) /\ ToSet(SubSeq(d, 1, n)) = {d[i] : i \in 1..n}
  <2>1. DOMAIN SubSeq(d, 1, n) = 1..n /\ \A i \in 1..n : SubSeq(d, 1, n)[i] = d[i]
    BY <1>1, <1>8
  <2> HIDE DEF d
  <2> QED
    BY <1>2, <1>4, <2>1 DEF ToSet
<1>10. {d[i] : i \in 1..n} = {u \in ToSet(d) : w[u] <= now}
  BY <1>1, <1>5, <1>8 DEF ToSet
<1> QED
  BY <1>2, <1>4, <1>9, <1>10 DEF d, w, now

\* The tick wakes those whose time has come, and only those, even if the next one
\* looked at is put off.
LEMMA UnblockDueTimes ==
  ASSUME NEW s \in Good, Ordered(s.delayed, s.wake), Ordered(s.overflow, s.wake),
         \A u \in ToSet(s.delayed) : s.unblock <= s.wake[u]
  PROVE  LET r == UnblockDueTasks(s)
         IN /\ r \in Good /\ Clocked(r) /\ r.schedSusp = s.schedSusp
            /\ r.tick = s.tick /\ r.overflows = s.overflows
            /\ \A u \in Task : Delayed(r, u) => Delayed(s, u) /\ WakesAt(r, u) = WakesAt(s, u)
            /\ \A u \in Task : Delayed(s, u) /\ Free(s, u) =>
                 IF Delayed(r, u) THEN Free(r, u) ELSE WakesAt(s, u) <= Now(s)
<1>1. /\ s.tick \in Nat /\ s.unblock \in Nat /\ \A u \in Task : s.wake[u] \in Nat
      /\ \A u \in ToSet(s.delayed) : u \in Task
  <2>1. s \in KernelState /\ s.delayed \in Seq(Task)
    BY DEF Good, KernelState
  <2> QED
    BY <2>1, TimesTyped DEF ToSet
<1>2. CASE ~(s.tick >= s.unblock)
  <2>1. UnblockDueTasks(s) = s
    BY <1>2 DEF UnblockDueTasks
  <2>2. \A u \in ToSet(s.delayed) : s.tick < s.wake[u]
    BY <1>1, <1>2
  <2> QED
    BY <2>1, <2>2 DEF Clocked
<1>3. CASE s.tick >= s.unblock
  <2> DEFINE m == UnblockAll(s, DueTasks(s))
             r == prvResetNextTaskUnblockTime(m)
             D == ToSet(DueTasks(s))
  <2>1. DueTasks(s) \in Seq(Task) /\ D = {u \in ToSet(s.delayed) : s.wake[u] <= s.tick}
    BY DueTasksAre
  <2>2. UnblockDueTasks(s) = r
    BY <1>3 DEF UnblockDueTasks
  <2>3. m \in Good /\ Wakes(s, m, D) /\ \A u \in D : ~Delayed(m, u)
    BY <2>1, UnblockAllGood, UnblockAllTimes DEF Moves
  <2> HIDE DEF m, D
  <2>4. r \in Good
    BY <2>3, ResetUnblockGood DEF Moves
  <2>5. /\ r.delayed = m.delayed /\ r.overflow = m.overflow /\ r.wake = m.wake
        /\ r.tick = m.tick /\ r.overflows = m.overflows /\ r.schedSusp = m.schedSusp
        /\ r.pending = m.pending /\ r.events = m.events
        /\ Ordered(m.delayed, m.wake) => \A u \in ToSet(m.delayed) : r.unblock <= m.wake[u]
    BY <2>3, ResetUnblockTimes
  <2> HIDE DEF r
  <2>6. /\ r.tick = s.tick /\ r.overflows = s.overflows /\ r.schedSusp = s.schedSusp
        /\ Ordered(r.delayed, r.wake) /\ Ordered(r.overflow, r.wake)
        /\ \A u \in ToSet(r.delayed) : r.unblock <= r.wake[u]
    BY <2>3, <2>5 DEF Wakes
  <2>7. ToSet(r.delayed) \subseteq Task
    <3>1. r.delayed \in Seq(Task)
      BY <2>4 DEF Good, KernelState
    <3> QED
      BY <3>1 DEF ToSet
  <2>8. \A u \in ToSet(r.delayed) : s.tick < r.wake[u]
    <3> SUFFICES ASSUME NEW u \in ToSet(r.delayed) PROVE s.tick < r.wake[u]
      OBVIOUS
    <3>1. u \in Task /\ Delayed(m, u) /\ u \in ToSet(m.delayed)
      BY <2>5, <2>7 DEF Delayed
    <3>2. u \in ToSet(s.delayed) /\ r.wake[u] = s.wake[u] /\ u \notin D
      BY <2>3, <2>5, <3>1 DEF Wakes
    <3> QED
      BY <1>1, <2>1, <3>1, <3>2
  <2>9. Clocked(r)
    BY <2>6, <2>8 DEF Clocked
  <2>10. \A u \in Task : Delayed(r, u) => Delayed(s, u) /\ WakesAt(r, u) = WakesAt(s, u)
    <3>1. \A u \in Task : Placed(s, u) /\ Placed(m, u)
      BY <2>3 DEF Good
    <3> QED
      BY <2>3, <2>5, <2>6, <3>1 DEF Wakes, Delayed, WakesAt, Placed
  <2>11. ASSUME NEW u \in Task, Delayed(s, u), Free(s, u)
         PROVE  IF Delayed(r, u) THEN Free(r, u) ELSE WakesAt(s, u) <= Now(s)
    <3>1. (Delayed(r, u) <=> Delayed(m, u)) /\ (Free(r, u) <=> Free(m, u))
      BY <2>5 DEF Delayed, Free
    <3>2. IF Delayed(m, u) THEN Free(m, u) ELSE u \in D
      BY <2>3, <2>11 DEF Wakes
    <3>3. ASSUME u \in D PROVE WakesAt(s, u) <= Now(s)
      <4>1. u \in ToSet(s.delayed) /\ s.wake[u] <= s.tick
        BY <2>1, <3>3
      <4>2. s.overflows * TickMod \in Nat
        <5>1. s.overflows \in Nat
          BY DEF Good, KernelState
        <5> QED
          BY <5>1, TaskAssumption
      <4> QED
        BY <1>1, <4>1, <4>2 DEF WakesAt, Now
    <3> QED
      BY <3>1, <3>2, <3>3
  <2> QED
    BY <2>2, <2>4, <2>6, <2>9, <2>10, <2>11
<1> QED
  BY <1>2, <1>3

\* At the wrap of the tick count the delayed list is empty, and the overflow list
\* takes its place.
LEMMA TurnTimes ==
  ASSUME NEW s \in Good, Clocked(s)
  PROVE  LET ticked == [s EXCEPT !.tick = (@ + 1) % TickMod]
             r == IF ticked.tick = 0 THEN taskSWITCH_DELAYED_LISTS(ticked) ELSE ticked
         IN /\ r \in Good /\ Ordered(r.delayed, r.wake) /\ Ordered(r.overflow, r.wake)
            /\ \A u \in ToSet(r.delayed) : r.unblock <= r.wake[u]
            /\ Now(r) = Now(s) + 1 /\ r.schedSusp = s.schedSusp
            /\ \A u \in Task : /\ Delayed(r, u) <=> Delayed(s, u)
                               /\ Delayed(s, u) => WakesAt(r, u) = WakesAt(s, u)
                               /\ Free(r, u) <=> Free(s, u)
<1> DEFINE n == (s.tick + 1) % TickMod
           ticked == [s EXCEPT !.tick = n]
           r == IF ticked.tick = 0 THEN taskSWITCH_DELAYED_LISTS(ticked) ELSE ticked
<1>1. /\ s \in KernelState /\ s.tick \in Nat /\ s.tick < TickMod /\ s.overflows \in Nat
      /\ Now(s) \in Nat /\ TickMod \in Nat /\ TickMod > 1
      /\ s.overflows * TickMod \in Nat
      /\ (s.overflows + 1) * TickMod = s.overflows * TickMod + TickMod
      /\ (s.overflows + 1 + 1) * TickMod = s.overflows * TickMod + TickMod + TickMod
  <2>1. s \in KernelState
    BY DEF Good
  <2>2. s.overflows \in Nat /\ TickMod \in Nat
    BY <2>1, TimesTyped, TaskAssumption
  <2>3. s.overflows * TickMod \in Nat
    BY <2>2
  <2> QED
    BY <2>1, <2>2, <2>3, TimesTyped, TaskAssumption
<1>2. n \in Ticks /\ n = IF s.tick + 1 = TickMod THEN 0 ELSE s.tick + 1
  <2>1. s.tick + 1 \in Int
    BY <1>1
  <2>2. n \in Ticks
    BY <2>1, TicksWrap
  <2>3. CASE s.tick + 1 = TickMod
    BY <1>1, <2>2, <2>3
  <2>4. CASE s.tick + 1 # TickMod
    <3> DEFINE x == s.tick + 1
    <3>1. x \in Nat /\ x < TickMod
      BY <1>1, <2>4
    <3>2. n = x % TickMod
      OBVIOUS
    <3> HIDE DEF x, n
    <3>3. n = x
      BY <3>1, <3>2, TaskAssumption
    <3> QED
      BY <2>2, <2>4, <3>3 DEF x
  <2> QED
    BY <2>3, <2>4
<1> HIDE DEF n
<1>3. /\ ticked \in KernelState /\ SameLists(s, ticked) /\ ticked.tick = n
      /\ ticked.wake = s.wake /\ ticked.overflows = s.overflows
      /\ ticked.schedSusp = s.schedSusp /\ ticked.unblock = s.unblock
  <2>1. ticked \in KernelState
    BY <1>1, <1>2, TickTyped
  <2> QED
    BY <1>1, <2>1 DEF KernelState, SameLists
<1>4. ticked \in Good
  BY <1>3, SameListsGood
<1> HIDE DEF ticked
<1>5. CASE n # 0
  <2>1. n = s.tick + 1 /\ r = ticked
    BY <1>2, <1>3, <1>5
  <2>2. Now(ticked) = Now(s) + 1
    BY <1>1, <1>3, <2>1 DEF Now
  <2>3. \A u \in Task : /\ Delayed(ticked, u) <=> Delayed(s, u)
                        /\ WakesAt(ticked, u) = WakesAt(s, u)
                        /\ Free(ticked, u) <=> Free(s, u)
    BY <1>3 DEF SameLists, Delayed, WakesAt, Free
  <2>4. Ordered(ticked.delayed, ticked.wake) /\ Ordered(ticked.overflow, ticked.wake)
    BY <1>3 DEF SameLists, Clocked
  <2>5. \A u \in ToSet(ticked.delayed) : ticked.unblock <= ticked.wake[u]
    BY <1>3 DEF SameLists, Clocked
  <2> QED
    BY <1>3, <1>4, <2>1, <2>2, <2>3, <2>4, <2>5 DEF ticked, n
<1>6. CASE n = 0
  <2>1. s.tick + 1 = TickMod
    BY <1>1, <1>2, <1>6
  <2>2. ToSet(s.delayed) = {}
    <3> SUFFICES ASSUME NEW u \in ToSet(s.delayed) PROVE FALSE
      OBVIOUS
    <3>1. s.delayed \in Seq(Task)
      BY <1>1 DEF KernelState
    <3>2. u \in Task /\ s.tick < s.wake[u]
      BY <3>1 DEF Clocked, ToSet
    <3>3. s.wake[u] \in Nat /\ s.wake[u] < TickMod
      BY <1>1, <3>2, TimesTyped
    <3> QED
      BY <1>1, <2>1, <3>2, <3>3
  <2> DEFINE turned == [ticked EXCEPT !.delayed = ticked.overflow, !.overflow = ticked.delayed,
                                      !.overflows = @ + 1]
  <2>3. /\ turned.delayed = s.overflow /\ turned.overflow = s.delayed
        /\ turned.wake = s.wake /\ turned.tick = 0 /\ turned.overflows = s.overflows + 1
        /\ turned.schedSusp = s.schedSusp
        /\ turned.pending = s.pending /\ turned.events = s.events
        /\ turned.ready = s.ready /\ turned.prio = s.prio /\ turned.suspended = s.suspended
        /\ turned.terminating = s.terminating
    BY <1>3, <1>6 DEF KernelState, SameLists
  <2>4. r = prvResetNextTaskUnblockTime(turned)
    BY <1>3, <1>6 DEF taskSWITCH_DELAYED_LISTS
  <2>5. turned \in KernelState
    <3> DEFINE v == ticked.overflows + 1
               d == ticked.overflow
               o == ticked.delayed
    <3>1. v \in Nat /\ d \in Seq(Task) /\ o \in Seq(Task)
      <4>1. v = s.overflows + 1
        BY <1>3
      <4>2. v \in Nat
        BY <1>1, <4>1
      <4>3. d \in Seq(Task) /\ o \in Seq(Task)
        BY <1>3 DEF KernelState
      <4> QED
        BY <4>2, <4>3
    <3>2. turned = [ticked EXCEPT !.delayed = d, !.overflow = o, !.overflows = v]
      OBVIOUS
    <3> HIDE DEF v, d, o, turned
    <3> QED
      BY <1>3, <3>1, <3>2 DEF KernelState
  <2> HIDE DEF turned
  <2>6. turned \in Good
    <3>1. Shape(turned)
      BY <2>3 DEF Good, Shape
    <3>2. \A u \in Task : Placed(s, u)
      BY DEF Good
    <3>3. \A u \in Task : Placed(turned, u)
      BY <2>3, <3>2 DEF Placed, IsReady, Free
    <3> QED
      BY <2>5, <3>1, <3>3 DEF Good
  <2>7. /\ r \in Good
        /\ r.delayed = turned.delayed /\ r.overflow = turned.overflow /\ r.wake = turned.wake
        /\ r.tick = turned.tick /\ r.overflows = turned.overflows
        /\ r.schedSusp = turned.schedSusp
        /\ r.pending = turned.pending /\ r.events = turned.events
        /\ Ordered(turned.delayed, turned.wake) =>
             \A u \in ToSet(turned.delayed) : r.unblock <= turned.wake[u]
    BY <2>4, <2>6, ResetUnblockGood, ResetUnblockTimes DEF Moves
  <2> HIDE DEF r
  <2>8. Now(r) = Now(s) + 1
    BY <1>1, <2>1, <2>3, <2>7 DEF Now
  <2>9. \A u \in Task : u \notin ToSet(s.delayed)
    BY <2>2
  <2>10. \A u \in Task : u \in ToSet(s.overflow) => WakesAt(r, u) = WakesAt(s, u)
    BY <2>3, <2>7, <2>9 DEF WakesAt
  <2>11. \A u \in Task : (Delayed(r, u) <=> Delayed(s, u)) /\ (Free(r, u) <=> Free(s, u))
    BY <2>3, <2>7 DEF Delayed, Free
  <2>12. Ordered(r.delayed, r.wake) /\ Ordered(r.overflow, r.wake)
    BY <2>3, <2>7 DEF Clocked
  <2>13. \A u \in ToSet(r.delayed) : r.unblock <= r.wake[u]
    BY <2>3, <2>7, <2>12
  <2>14. r.schedSusp = s.schedSusp
    BY <2>3, <2>7
  <2>15. /\ r \in Good /\ Ordered(r.delayed, r.wake) /\ Ordered(r.overflow, r.wake)
         /\ \A u \in ToSet(r.delayed) : r.unblock <= r.wake[u]
         /\ Now(r) = Now(s) + 1 /\ r.schedSusp = s.schedSusp
         /\ \A u \in Task : /\ Delayed(r, u) <=> Delayed(s, u)
                            /\ Delayed(s, u) => WakesAt(r, u) = WakesAt(s, u)
                            /\ Free(r, u) <=> Free(s, u)
    BY <2>7, <2>8, <2>9, <2>10, <2>11, <2>12, <2>13, <2>14 DEF Delayed
  <2> QED
    BY <2>15 DEF r, ticked, n
<1> QED
  BY <1>5, <1>6

\* Nothing else changes: it passes.
LEMMA SameSleepPasses ==
  ASSUME NEW s \in Good, NEW r \in Good, SameSleep(s, r), NEW W
  PROVE  Passes(s, r, W)
BY SameSleepWakes, WakesPasses

\* The time of the next look is set as the lists say.
LEMMA ResetUnblockPasses ==
  ASSUME NEW s \in Good, NEW W
  PROVE  Passes(s, prvResetNextTaskUnblockTime(s), W)
<1> DEFINE r == prvResetNextTaskUnblockTime(s)
<1>1. /\ r.delayed = s.delayed /\ r.overflow = s.overflow /\ r.wake = s.wake
      /\ r.tick = s.tick /\ r.overflows = s.overflows /\ r.schedSusp = s.schedSusp
      /\ r.pending = s.pending /\ r.events = s.events
      /\ Ordered(s.delayed, s.wake) => \A u \in ToSet(s.delayed) : r.unblock <= s.wake[u]
  BY ResetUnblockTimes
<1> HIDE DEF r
<1>2. Clocked(s) => Clocked(r)
  BY <1>1 DEF Clocked
<1>3. Now(s) = Now(r) /\ Now(s) \in Nat
  BY <1>1, TimesTyped DEF Now, Good
<1>4. \A u \in Task : /\ Delayed(r, u) <=> Delayed(s, u)
                      /\ WakesAt(r, u) = WakesAt(s, u)
                      /\ Free(r, u) <=> Free(s, u)
  BY <1>1 DEF Delayed, WakesAt, Free
<1>5. Passes(s, r, W)
  BY <1>1, <1>2, <1>3, <1>4 DEF Passes
<1> QED
  BY <1>5 DEF r

\* The tick, with or without a turn of the count.
LEMMA IncrementTickTimes ==
  ASSUME NEW s \in Good
  PROVE  Passes(s, xTaskIncrementTick(s).k, {})
<1>1. s \in KernelState
  BY DEF Good
<1>2. CASE s.schedSusp # 0
  <2> DEFINE r == [s EXCEPT !.pended = @ + 1]
  <2>1. xTaskIncrementTick(s).k = r
    BY <1>2 DEF xTaskIncrementTick, Answer
  <2>2. r \in Good
    BY <2>1, IncrementTickGood DEF Moves
  <2>3. SameSleep(s, r)
    BY <1>1, FieldTimes
  <2> HIDE DEF r
  <2> QED
    BY <2>1, <2>2, <2>3, SameSleepPasses
<1>3. CASE s.schedSusp = 0
  <2> SUFFICES ASSUME Clocked(s) PROVE Passes(s, xTaskIncrementTick(s).k, {})
    BY DEF Passes
  <2> DEFINE ticked == [s EXCEPT !.tick = (@ + 1) % TickMod]
             turned == IF ticked.tick = 0 THEN taskSWITCH_DELAYED_LISTS(ticked) ELSE ticked
             after == UnblockDueTasks(turned)
  <2>1. xTaskIncrementTick(s).k = after
    BY <1>3 DEF xTaskIncrementTick, Answer
  <2>2. /\ turned \in Good /\ Ordered(turned.delayed, turned.wake)
        /\ Ordered(turned.overflow, turned.wake)
        /\ \A u \in ToSet(turned.delayed) : turned.unblock <= turned.wake[u]
        /\ Now(turned) = Now(s) + 1 /\ turned.schedSusp = s.schedSusp
        /\ \A u \in Task : /\ Delayed(turned, u) <=> Delayed(s, u)
                           /\ Delayed(s, u) => WakesAt(turned, u) = WakesAt(s, u)
                           /\ Free(turned, u) <=> Free(s, u)
    BY TurnTimes
  <2> HIDE DEF ticked, turned
  <2>3. /\ after \in Good /\ Clocked(after) /\ after.schedSusp = turned.schedSusp
        /\ after.tick = turned.tick /\ after.overflows = turned.overflows
        /\ \A u \in Task : Delayed(after, u) =>
             Delayed(turned, u) /\ WakesAt(after, u) = WakesAt(turned, u)
        /\ \A u \in Task : Delayed(turned, u) /\ Free(turned, u) =>
             IF Delayed(after, u) THEN Free(after, u) ELSE WakesAt(turned, u) <= Now(turned)
    BY <2>2, UnblockDueTimes
  <2> HIDE DEF after
  <2>4. Now(after) = Now(turned) /\ Now(s) \in Nat /\ Now(s) <= Now(after)
    <3>1. Now(after) = Now(turned)
      BY <2>3 DEF Now
    <3>2. Now(s) \in Nat
      BY <1>1, TimesTyped
    <3> QED
      BY <2>2, <3>1, <3>2
  <2>5. \A u \in Task : Delayed(after, u) => Delayed(s, u) /\ WakesAt(after, u) = WakesAt(s, u)
    BY <2>2, <2>3
  <2>6. \A u \in Task : Delayed(s, u) /\ Free(s, u) =>
          IF Delayed(after, u) THEN Free(after, u) ELSE WakesAt(s, u) <= Now(after)
    BY <2>2, <2>3, <2>4
  <2>7. Clocked(after) /\ after.schedSusp = s.schedSusp
    BY <2>2, <2>3
  <2> QED
    BY <1>3, <2>1, <2>4, <2>5, <2>6, <2>7 DEF Passes
<1> QED
  BY <1>2, <1>3

\* A task that was readied while the scheduler was suspended, in its place.
LEMMA FromPendingTimes ==
  ASSUME NEW s \in Good, NEW t \in Task
  PROVE  Wakes(s, FromPending(s, t), {t})
<1> DEFINE r == Unblock(s, t)
           v == [r EXCEPT !.yieldPending = TRUE]
<1>1. Wakes(s, r, {t}) /\ r \in Good
  BY UnblockGood, UnblockTimes DEF Moves
<1>2. FromPending(s, t) \in {r, v}
  BY DEF FromPending
<1> HIDE DEF r
<1>3. Wakes(r, v, {t})
  BY <1>1, FieldTimes, SameSleepWakes DEF Good
<1> HIDE DEF v
<1>4. {t} \cup {t} = {t}
  OBVIOUS
<1>5. Wakes(s, v, {t} \cup {t})
  BY <1>1, <1>3, WakesTransitive
<1> QED
  BY <1>1, <1>2, <1>4, <1>5

\* The tasks that were woken while the scheduler was suspended wake when it goes on,
LEMMA UnblockPendingTimes ==
  ASSUME NEW s \in Good, NEW tasks \in Seq(Task)
  PROVE  Wakes(s, UnblockPending(s, tasks), ToSet(tasks))
<1> DEFINE n == Len(tasks)
           T == {r \in Good : Wakes(s, r, ToSet(tasks))}
<1>1. n \in Nat
  OBVIOUS
<1>2. \A i \in 1..n : tasks[i] \in ToSet(tasks)
  BY DEF ToSet
<1>3. PICK a : /\ a[0] = s /\ UnblockPending(s, tasks) = a[n]
               /\ \A i \in 1..n : /\ tasks[i] \in Task /\ a[i - 1] \in Good
                                  /\ a[i] = FromPending(a[i - 1], tasks[i])
  BY UnblockPendingSteps
<1> HIDE DEF n
<1>4. s \in T
  BY DEF Wakes
<1>5. ASSUME NEW i \in 1..n, a[i - 1] \in T PROVE a[i] \in T
  <2> DEFINE r == a[i - 1]
             v == FromPending(r, tasks[i])
  <2>1. r \in Good /\ Wakes(s, r, ToSet(tasks)) /\ a[i] = v /\ tasks[i] \in Task
    BY <1>3, <1>5
  <2> HIDE DEF r
  <2>2. v \in Good /\ Wakes(r, v, {tasks[i]})
    BY <2>1, FromPendingGood, FromPendingTimes DEF Moves
  <2> HIDE DEF v
  <2>3. Wakes(s, v, ToSet(tasks) \cup {tasks[i]})
    BY <2>1, <2>2, WakesTransitive
  <2>4. ToSet(tasks) \cup {tasks[i]} = ToSet(tasks)
    BY <1>2
  <2> QED
    BY <2>1, <2>2, <2>3, <2>4
<1> HIDE DEF T
<1>6. a[n] \in T
  BY <1>1, <1>3, <1>4, <1>5, StaysIn
<1> QED
  BY <1>3, <1>6 DEF T

\* The ticks that were put off.
LEMMA PendedTickTimes ==
  ASSUME NEW s \in Good, NEW i
  PROVE  Passes(s, PendedTick(s, i), {})
<1> DEFINE ticked == xTaskIncrementTick(s)
           r == ticked.k
           v == [r EXCEPT !.yieldPending = TRUE]
<1>1. Passes(s, r, {}) /\ r \in Good
  BY IncrementTickGood, IncrementTickTimes DEF Moves
<1>2. PendedTick(s, i) \in {r, v}
  BY DEF PendedTick
<1> HIDE DEF ticked, r
<1>3. v \in KernelState /\ SameSleep(r, v) /\ SameLists(r, v)
  BY <1>1 DEF Good, KernelState, SameSleep, SameTimes, SameLists
<1>4. v \in Good
  BY <1>1, <1>3, SameListsGood
<1> HIDE DEF v
<1>5. Passes(r, v, {})
  BY <1>1, <1>3, <1>4, SameSleepPasses
<1>6. Passes(s, v, {})
  BY <1>1, <1>4, <1>5, PassesTransitive
<1> QED
  BY <1>1, <1>2, <1>6

\* and of the others those whose time has come: the ticks that came meanwhile pass.
LEMMA PendedTicksTimes ==
  ASSUME NEW s \in Good, NEW n \in Nat
  PROVE  Passes(s, InTurn(PendedTick, s, n), {})
<1> DEFINE T == {r \in Good : Passes(s, r, {})}
<1>1. PICK a : /\ a[0] = s /\ InTurn(PendedTick, s, n) = a[n]
               /\ \A i \in 1..n : a[i - 1] \in Good /\ a[i] = PendedTick(a[i - 1], i)
  BY PendedTicksSteps
<1>2. s \in T
  BY SameSleepPasses DEF SameSleep, SameTimes
<1>3. ASSUME NEW i \in 1..n, a[i - 1] \in T PROVE a[i] \in T
  <2> DEFINE r == a[i - 1]
             v == PendedTick(r, i)
  <2>1. r \in Good /\ Passes(s, r, {}) /\ a[i] = v
    BY <1>1, <1>3
  <2> HIDE DEF r
  <2>2. v \in Good /\ Passes(r, v, {})
    BY <2>1, PendedTickGood, PendedTickTimes DEF Moves
  <2> HIDE DEF v
  <2>3. Passes(s, v, {})
    BY <2>1, <2>2, PassesTransitive
  <2> QED
    BY <2>1, <2>2, <2>3
<1> HIDE DEF T
<1>4. a[n] \in T
  BY <1>1, <1>2, <1>3, StaysIn
<1> QED
  BY <1>1, <1>4 DEF T

\* The scheduler is resumed: those that are pending wait for an event, and have it.
LEMMA ResumeAllTimes ==
  ASSUME NEW s \in Good, s.schedSusp = 1
  PROVE  Passes([s EXCEPT !.schedSusp = @ - 1], xTaskResumeAll(s).k, {})
<1> DEFINE resumed == [s EXCEPT !.schedSusp = @ - 1]
           woken == UnblockPending(resumed, s.pending)
           moved == IF s.pending = <<>> THEN resumed ELSE prvResetNextTaskUnblockTime(woken)
           run == InTurn(PendedTick, moved, s.pended)
           ticked == [run EXCEPT !.pended = 0]
           switched == vTaskSwitchContext(ticked)
<1>1. s \in KernelState /\ s.pending \in Seq(Task) /\ s.pended \in Nat
  BY DEF Good, KernelState
<1>2. resumed \in KernelState /\ SameLists(s, resumed) /\ resumed.schedSusp = 0
  <2>1. s.schedSusp - 1 = 0 /\ 0 \in Nat
    OBVIOUS
  <2>2. resumed = [s EXCEPT !.schedSusp = 0]
    BY <2>1
  <2> HIDE DEF resumed, woken, moved, run, ticked, switched
  <2>3. resumed \in KernelState
    BY <1>1, <2>1, <2>2, CountsTyped
  <2> QED
    BY <1>1, <2>2, <2>3 DEF KernelState, SameLists
<1>3. resumed \in Good /\ resumed.pending = s.pending
  BY <1>2, SameListsGood DEF SameLists
<1>4. xTaskResumeAll(s) = IF ticked.yieldPending THEN [k |-> switched, yes |-> TRUE]
                          ELSE [k |-> ticked, yes |-> FALSE]
  BY <1>2 DEF xTaskResumeAll, Answer
<1> HIDE DEF resumed
<1>5. woken \in Good /\ Passes(resumed, woken, {})
  <2>1. woken \in Good /\ Wakes(resumed, woken, ToSet(s.pending))
    BY <1>1, <1>3, UnblockPendingGood, UnblockPendingTimes DEF Moves
  <2>2. \A u \in Task : u \in ToSet(s.pending) => ~Free(resumed, u)
    BY <1>3 DEF Free
  <2> HIDE DEF woken
  <2>3. Wakes(resumed, woken, {})
    BY <2>1, <2>2, WakesNone
  <2> QED
    BY <1>3, <2>1, <2>3, WakesPasses
<1> HIDE DEF woken
<1>6. Passes(resumed, moved, {}) /\ moved \in Good
  <2> DEFINE v == prvResetNextTaskUnblockTime(woken)
  <2>1. Passes(woken, v, {}) /\ v \in Good
    BY <1>5, ResetUnblockGood, ResetUnblockPasses DEF Moves
  <2> HIDE DEF v
  <2>2. Passes(resumed, v, {})
    BY <1>3, <1>5, <2>1, PassesTransitive
  <2>3. Passes(resumed, resumed, {})
    BY <1>3, SameSleepPasses DEF SameSleep, SameTimes
  <2> QED
    BY <1>3, <2>1, <2>2, <2>3 DEF v
<1> HIDE DEF moved
<1>7. Passes(moved, run, {}) /\ run \in Good
  BY <1>1, <1>6, PendedTicksGood, PendedTicksTimes DEF Moves
<1> HIDE DEF run
<1>8. Passes(run, ticked, {}) /\ ticked \in Good
  <2>1. ticked \in KernelState /\ SameLists(run, ticked) /\ SameSleep(run, ticked)
    BY <1>7 DEF Good, KernelState, SameLists, SameSleep, SameTimes
  <2>2. ticked \in Good
    BY <1>7, <2>1, SameListsGood
  <2> QED
    BY <1>7, <2>1, <2>2, SameSleepPasses
<1> HIDE DEF ticked
<1>9. Passes(ticked, switched, {}) /\ switched \in Good
  <2>1. switched \in Good
    BY <1>8, SwitchGood DEF Moves
  <2>2. SameSleep(ticked, switched)
    BY <1>8, SwitchTimes DEF Good
  <2> HIDE DEF switched
  <2> QED
    BY <1>8, <2>1, <2>2, SameSleepPasses
<1> HIDE DEF switched
<1>10. Passes(resumed, run, {})
  BY <1>3, <1>6, <1>7, PassesTransitive
<1>11. Passes(resumed, ticked, {})
  BY <1>3, <1>7, <1>8, <1>10, PassesTransitive
<1>12. Passes(resumed, switched, {})
  BY <1>3, <1>8, <1>9, <1>11, PassesTransitive
<1> QED
  BY <1>4, <1>11, <1>12 DEF resumed

-----------------------------------------------------------------------------
\* No task that waits for the clock alone is woken.
Rests(s, r) == Wakes(s, r, {})

\* Such steps compose.
LEMMA RestsTransitive ==
  ASSUME NEW s, NEW r, NEW v, Rests(s, r), Rests(r, v)
  PROVE  Rests(s, v)
<1>1. {} \cup {} = {}
  OBVIOUS
<1>2. Wakes(s, v, {} \cup {})
  BY WakesTransitive DEF Rests
<1> QED
  BY <1>1, <1>2 DEF Rests

\* A change of something else wakes nobody.
LEMMA SameSleepRests ==
  ASSUME NEW s, NEW r, SameSleep(s, r)
  PROVE  Rests(s, r)
BY SameSleepWakes DEF Rests

\* An event wakes a task that waits for one.
LEMMA RemoveFromEventListTimes ==
  ASSUME NEW s \in Good, NEW e \in EventList, s.events[e] # <<>>
  PROVE  Rests(s, xTaskRemoveFromEventList(s, e).k)
<1> DEFINE t == Head(s.events[e])
           urgent == s.prio[t] > s.prio[s.current]
           a == Unblock(s, t)
           b == RemoveEventItem(s, t)
           c == [b EXCEPT !.pending = Append(@, t)]
           woken == IF s.schedSusp = 0 THEN a ELSE c
           r == [woken EXCEPT !.yieldPending = @ \/ urgent]
<1>1. s \in KernelState /\ s.events[e] \in Seq(Task)
  BY DEF Good, KernelState
<1>2. t \in Task /\ ~Free(s, t)
  <2>1. t \in Task /\ t \in ToSet(s.events[e])
    BY <1>1 DEF ToSet
  <2> QED
    BY <2>1 DEF Free
<1>3. xTaskRemoveFromEventList(s, e).k = r
  BY DEF xTaskRemoveFromEventList, Answer
<1> HIDE DEF t, urgent
<1>4. a \in Good /\ Rests(s, a)
  <2>1. a \in Good /\ Wakes(s, a, {t})
    BY <1>2, UnblockGood, UnblockTimes DEF Moves
  <2> HIDE DEF a
  <2> QED
    BY <1>2, <2>1, WakesNone DEF Rests
<1>5. /\ b \in Good /\ SameTimes(s, b)
      /\ \A u \in Task : Free(s, u) => Free(b, u)
  <2>1. SameTimes(s, b)
    BY <1>1 DEF KernelState, RemoveEventItem, SameTimes
  <2> QED
    BY <1>2, <2>1, RemoveEventGood DEF Others
<1> HIDE DEF a, b
<1>6. c \in KernelState /\ Rests(s, c)
  <2>1. b \in KernelState /\ b.pending \in Seq(Task)
    BY <1>5 DEF Good, KernelState
  <2>2. c \in KernelState
    BY <1>2, <2>1, PendingTyped
  <2>3. /\ c.events = b.events /\ c.pending = Append(b.pending, t)
        /\ SameTimes(b, c)
    BY <2>1 DEF KernelState, SameTimes
  <2>4. SameTimes(s, c)
    BY <1>5, <2>3 DEF SameTimes
  <2>5. ToSet(c.pending) = ToSet(b.pending) \cup {t}
    BY <1>2, <2>1, <2>3, AppendOne
  <2>6. \A u \in Task : Free(s, u) => Free(c, u)
    BY <1>2, <1>5, <2>3, <2>5 DEF Free
  <2> HIDE DEF c
  <2> QED
    BY <2>2, <2>4, <2>6, SameTimesWakes DEF Rests
<1> HIDE DEF c
<1>7. woken \in KernelState /\ Rests(s, woken)
  BY <1>4, <1>6 DEF Good
<1> HIDE DEF woken
<1>8. SameSleep(woken, r)
  BY <1>7, FieldTimes
<1> HIDE DEF r
<1> QED
  BY <1>3, <1>7, <1>8, SameSleepRests, RestsTransitive

\* What an event does when there is somebody to wake, and when there is nobody.
LEMMA WakeOneTimes ==
  ASSUME NEW s \in Good, NEW e \in EventList
  PROVE  Rests(s, WakeOne(s, e))
<1> DEFINE woken == xTaskRemoveFromEventList(s, e)
           r == YieldIf(woken.k, woken.yes)
<1>1. CASE s.events[e] = <<>>
  BY <1>1, SameSleepRests DEF WakeOne, SameSleep, SameTimes
<1>2. CASE s.events[e] # <<>>
  <2>1. woken.k \in Good /\ Rests(s, woken.k)
    BY <1>2, RemoveFromEventListGood, RemoveFromEventListTimes DEF Moves
  <2>2. WakeOne(s, e) = r
    BY <1>2 DEF WakeOne
  <2> HIDE DEF woken
  <2>3. SameSleep(woken.k, r)
    BY <2>1, SwitchTimes DEF Good
  <2> HIDE DEF r
  <2> QED
    BY <2>1, <2>2, <2>3, SameSleepRests, RestsTransitive
<1> QED
  BY <1>1, <1>2

\* As many events as came while the queue was locked.
LEMMA WakeCountedTimes ==
  ASSUME NEW s \in Good, NEW e \in EventList, NEW count \in Int
  PROVE  Rests(s, WakeCounted(s, e, count))
<1> DEFINE T == {r \in Good : Rests(s, r)}
<1>1. PICK n \in Nat :
        \E a : /\ a[0] = s /\ WakeCounted(s, e, count) = a[n]
               /\ \A i \in 1..n : /\ a[i - 1] \in Good /\ a[i - 1].events[e] # <<>>
                                  /\ a[i] = xTaskRemoveFromEventList(a[i - 1], e).k
  BY WakeCountedSteps
<1>2. PICK a : /\ a[0] = s /\ WakeCounted(s, e, count) = a[n]
               /\ \A i \in 1..n : /\ a[i - 1] \in Good /\ a[i - 1].events[e] # <<>>
                                  /\ a[i] = xTaskRemoveFromEventList(a[i - 1], e).k
  BY <1>1
<1>3. s \in T
  BY SameSleepRests DEF SameSleep, SameTimes
<1>4. ASSUME NEW i \in 1..n, a[i - 1] \in T PROVE a[i] \in T
  <2> DEFINE r == a[i - 1]
             v == xTaskRemoveFromEventList(r, e).k
  <2>1. r \in Good /\ Rests(s, r) /\ a[i] = v /\ r.events[e] # <<>>
    BY <1>2, <1>4
  <2> HIDE DEF r
  <2>2. v \in Good /\ Rests(r, v)
    BY <2>1, RemoveFromEventListGood, RemoveFromEventListTimes DEF Moves
  <2> HIDE DEF v
  <2>3. Rests(s, v)
    BY <2>1, <2>2, RestsTransitive
  <2> QED
    BY <2>1, <2>2, <2>3
<1> HIDE DEF T
<1>5. a[n] \in T
  BY <1>2, <1>3, <1>4, StaysIn
<1> QED
  BY <1>2, <1>5 DEF T

\* Priorities.
LEMMA InheritTimes ==
  ASSUME NEW s \in Good, NEW holder \in Task \cup {NoTask}, s.current \in Task
  PROVE  Rests(s, xTaskPriorityInherit(s, holder).k)
<1> DEFINE p == s.prio[s.current]
           a == Reprioritise(s, holder, p)
           r == Requeue(a, holder, p, s.prio[holder])
           v == xTaskPriorityInherit(s, holder).k
<1>1. v \in {s, r} /\ (holder = NoTask => v = s)
  BY DEF xTaskPriorityInherit, Answer
<1> HIDE DEF v
<1>2. Rests(s, s)
  BY SameSleepRests DEF SameSleep, SameTimes
<1>3. CASE holder \in Task
  <2>1. p \in Priority /\ s \in KernelState
    BY DEF Good, KernelState
  <2> HIDE DEF p
  <2>2. a \in Good /\ SameSleep(s, a)
    BY <1>3, <2>1, ReprioritiseGood, FieldTimes DEF Moves
  <2> HIDE DEF a
  <2>3. Rests(a, r)
    BY <1>3, <2>1, <2>2, RequeueTimes DEF Rests
  <2> HIDE DEF r
  <2>4. Rests(s, r)
    BY <2>2, <2>3, SameSleepRests, RestsTransitive
  <2> QED
    BY <1>1, <1>2, <2>4 DEF v
<1> QED
  BY <1>1, <1>2, <1>3 DEF v

\* The priority of a holder is lowered, and nobody sleeps less for it.
LEMMA DisinheritAfterTimeoutTimes ==
  ASSUME NEW s \in Good, NEW holder \in Task \cup {NoTask}, NEW waiting \in Priority
  PROVE  Rests(s, vTaskPriorityDisinheritAfterTimeout(s, holder, waiting))
<1> DEFINE p == IF s.base[holder] < waiting THEN waiting ELSE s.base[holder]
           a == Reprioritise(s, holder, p)
           r == Requeue(a, holder, p, p)
           v == vTaskPriorityDisinheritAfterTimeout(s, holder, waiting)
<1>1. v \in {s, r} /\ (holder = NoTask => v = s)
  BY DEF vTaskPriorityDisinheritAfterTimeout
<1> HIDE DEF v
<1>2. Rests(s, s)
  BY SameSleepRests DEF SameSleep, SameTimes
<1>3. CASE holder \in Task
  <2>1. p \in Priority /\ s \in KernelState
    BY <1>3 DEF Good, KernelState
  <2> HIDE DEF p
  <2>2. a \in Good /\ SameSleep(s, a)
    BY <1>3, <2>1, ReprioritiseGood, FieldTimes DEF Moves
  <2> HIDE DEF a
  <2>3. Rests(a, r)
    BY <1>3, <2>1, <2>2, RequeueTimes DEF Rests
  <2> HIDE DEF r
  <2>4. Rests(s, r)
    BY <2>2, <2>3, SameSleepRests, RestsTransitive
  <2> QED
    BY <1>1, <1>2, <2>4 DEF v
<1> QED
  BY <1>1, <1>2, <1>3 DEF v

\* A mutex is given back.
LEMMA DisinheritTimes ==
  ASSUME NEW s \in Good, NEW holder \in Task \cup {NoTask},
         holder # NoTask => IsReady(s, holder) /\ s.held[holder] > 0
  PROVE  Rests(s, xTaskPriorityDisinherit(s, holder).k)
<1> DEFINE given == [s EXCEPT !.held[holder] = @ - 1]
           base == s.base[holder]
           left == LeaveReadyList(given, holder, s.prio[holder])
           set == [left EXCEPT !.prio[holder] = base, !.eventValue[holder] = EventValue(base)]
           r == prvAddTaskToReadyList(set, holder)
           v == xTaskPriorityDisinherit(s, holder).k
<1>1. v \in {s, given, r} /\ (holder = NoTask => v = s)
  BY DEF xTaskPriorityDisinherit, Answer
<1> HIDE DEF v
<1>2. Rests(s, s)
  BY SameSleepRests DEF SameSleep, SameTimes
<1>3. CASE holder \in Task
  <2>1. /\ s \in KernelState /\ NoTask # holder /\ base \in Priority
        /\ EventValue(base) \in 1..MaxPriorities
    <3>1. s \in KernelState /\ NoTask # holder
      BY <1>3, TaskAssumption DEF Good
    <3>2. base \in Priority
      BY <1>3, <3>1 DEF KernelState
    <3>3. \A p \in Priority : EventValue(p) \in 1..MaxPriorities
      BY TaskAssumption DEF EventValue, Priority
    <3> QED
      BY <3>1, <3>2, <3>3
  <2> HIDE DEF base
  <2>2. /\ given \in KernelState /\ SameLists(s, given)
    <3> DEFINE n == s.held[holder] - 1
    <3>1. n \in Nat /\ given = [s EXCEPT !.held[holder] = n]
      <4>1. s.held[holder] \in Nat /\ s.held[holder] > 0
        BY <1>3, <2>1 DEF KernelState
      <4> QED
        BY <4>1
    <3> HIDE DEF n, left, set, r, given
    <3> QED
      BY <1>3, <2>1, <3>1, HeldTyped
  <2>3. given \in Good /\ IsReady(given, holder)
    BY <1>3, <2>1, <2>2, SameListsGood
  <2>4. SameSleep(s, given)
    BY <2>1, FieldTimes
  <2> HIDE DEF given
  <2>5. left \in Good /\ Rests(given, left)
    BY <1>3, <2>3, LeaveReadyGood, LeaveReadyTimes DEF Rests
  <2> HIDE DEF left
  <2>6. set \in KernelState /\ SameSleep(left, set)
    <3> DEFINE n == EventValue(base)
    <3>1. left \in KernelState /\ n \in 1..MaxPriorities
      BY <2>1, <2>5 DEF Good
    <3>2. set = [left EXCEPT !.prio[holder] = base, !.eventValue[holder] = n]
      OBVIOUS
    <3> HIDE DEF n, set
    <3>3. set \in KernelState
      BY <1>3, <2>1, <3>1, <3>2 DEF KernelState
    <3> QED
      BY <3>1, <3>2, <3>3 DEF KernelState, SameSleep, SameTimes
  <2> HIDE DEF set
  <2>7. SameSleep(set, r)
    BY <1>3, <2>6, AddReadyTimes
  <2> HIDE DEF r
  <2>8. Rests(s, given) /\ Rests(s, left)
    BY <2>4, <2>5, SameSleepRests, RestsTransitive
  <2>9. Rests(s, set)
    BY <2>6, <2>8, SameSleepRests, RestsTransitive
  <2>10. Rests(s, r)
    BY <2>7, <2>9, SameSleepRests, RestsTransitive
  <2> QED
    BY <1>1, <1>2, <2>8, <2>10 DEF v
<1> QED
  BY <1>1, <1>2, <1>3 DEF v

\* A task has a priority of its own set.
LEMMA PrioritySetTimes ==
  ASSUME NEW s \in Good, NEW t \in Task, NEW p \in Priority
  PROVE  Rests(s, vTaskPrioritySet(s, t, p))
<1> DEFINE based == [s EXCEPT !.base[t] = p]
           new == IF s.base[t] = s.prio[t] THEN p ELSE s.prio[t]
           a == Reprioritise(based, t, p)
           set == Requeue(a, t, new, s.prio[t])
           yield == IF p > s.base[t] THEN t # s.current /\ p >= s.prio[s.current]
                    ELSE t = s.current
           r == YieldIf(set, yield)
<1>1. vTaskPrioritySet(s, t, p) = s \/ vTaskPrioritySet(s, t, p) = r
  BY DEF vTaskPrioritySet
<1> HIDE DEF yield
<1>2. s \in KernelState /\ new \in Priority
  BY DEF Good, KernelState
<1> HIDE DEF new
<1>3. based \in Good /\ SameSleep(s, based)
  <2> HIDE DEF a, set, r
  <2>1. based \in KernelState
    BY <1>2 DEF KernelState
  <2>2. SameLists(s, based)
    BY <1>2, <2>1 DEF KernelState, SameLists
  <2> QED
    BY <1>2, <2>1, <2>2, SameListsGood, FieldTimes
<1> HIDE DEF based
<1>4. a \in Good /\ SameSleep(based, a)
  BY <1>3, ReprioritiseGood, FieldTimes DEF Good, Moves
<1> HIDE DEF a
<1>5. set \in Good /\ Rests(a, set)
  BY <1>2, <1>4, RequeueGood, RequeueTimes DEF Moves, Rests
<1> HIDE DEF set
<1>6. SameSleep(set, r)
  BY <1>5, SwitchTimes DEF Good
<1> HIDE DEF r
<1>7. Rests(s, a)
  BY <1>3, <1>4, SameSleepRests, RestsTransitive
<1>8. Rests(s, set)
  BY <1>5, <1>7, RestsTransitive
<1>9. Rests(s, r) /\ Rests(s, s)
  BY <1>6, <1>8, SameSleepRests, RestsTransitive DEF SameSleep, SameTimes
<1> QED
  BY <1>1, <1>9

\* Nothing rests like nothing.
LEMMA RestsItself ==
  ASSUME NEW s
  PROVE  Rests(s, s) /\ SameSleep(s, s)
BY SameSleepRests DEF SameSleep, SameTimes

\* A task is suspended: no other wakes.
LEMMA SuspendTimes ==
  ASSUME NEW s \in Good, NEW t \in Task
  PROVE  Wakes(s, vTaskSuspend(s, t), {t})
<1> DEFINE a == RemoveStateItem(s, t)
           left == RemoveEventItem(a, t)
           reset == IF AloneInList(s, t) THEN taskRESET_READY_PRIORITY(left, s.prio[t]) ELSE left
           state == IF reset.note[t].state = "waiting" THEN "none" ELSE reset.note[t].state
           r == [reset EXCEPT !.suspended = @ \cup {t}, !.note[t].state = state]
<1>1. a \in Good /\ Wakes(s, a, {t})
  BY RemoveStateGood, RemoveStateTimes
<1> HIDE DEF a
<1>2. left \in Good /\ Wakes(a, left, {t})
  BY <1>1, RemoveEventGood, RemoveEventTimes
<1>3. vTaskSuspend(s, t) = r
  BY DEF vTaskSuspend, a
<1> HIDE DEF left, state
<1>4. reset \in KernelState /\ SameSleep(left, reset)
  <2>1. left \in KernelState
    BY <1>2 DEF Good
  <2> HIDE DEF r
  <2> QED
    BY <2>1 DEF taskRESET_READY_PRIORITY, portRESET_READY_PRIORITY, KernelState, SameSleep, SameTimes
<1> HIDE DEF reset
<1>5. SameSleep(reset, r)
  BY <1>4 DEF KernelState, SameSleep, SameTimes
<1> HIDE DEF r
<1>6. SameSleep(left, r)
  BY <1>4, <1>5 DEF SameSleep, SameTimes
<1>7. Wakes(left, r, {t})
  BY <1>6, SameSleepWakes
<1>8. Wakes(s, left, {t} \cup {t}) /\ {t} \cup {t} = {t}
  BY <1>1, <1>2, WakesTransitive
<1>9. Wakes(s, r, {t} \cup {t})
  BY <1>7, <1>8, WakesTransitive
<1> QED
  BY <1>3, <1>8, <1>9

\* A suspended task is not delayed: to wake it wakes none that waits for the clock.
LEMMA WakeSuspendedTimes ==
  ASSUME NEW s \in Good, NEW t \in Task, t \in s.suspended
  PROVE  Rests(s, prvAddTaskToReadyList(RemoveStateItem(s, t), t))
<1> DEFINE a == RemoveStateItem(s, t)
           r == prvAddTaskToReadyList(a, t)
<1>1. ~Delayed(s, t)
  BY DEF Good, Placed, Delayed
<1>2. a \in Good /\ Wakes(s, a, {t})
  BY RemoveStateGood, RemoveStateTimes
<1> HIDE DEF a
<1>3. Rests(s, a)
  BY <1>1, <1>2, WakesNone DEF Rests
<1>4. Rests(a, r)
  BY <1>2, AddReadyTimes, SameSleepRests DEF Good
<1> HIDE DEF r
<1>5. Rests(s, r)
  BY <1>3, <1>4, RestsTransitive
<1> QED
  BY <1>5 DEF r, a

\* vTaskResume
LEMMA ResumeTimes ==
  ASSUME NEW s \in Good, NEW t \in Task
  PROVE  Rests(s, vTaskResume(s, t))
<1> DEFINE a == prvAddTaskToReadyList(RemoveStateItem(s, t), t)
           b == s.prio[t] >= s.prio[s.current]
           r == YieldIf(a, b)
<1>1. CASE t # s.current /\ prvTaskIsTaskSuspended(s, t)
  <2>1. vTaskResume(s, t) = r
    BY <1>1 DEF vTaskResume
  <2> HIDE DEF b
  <2>2. Rests(s, a) /\ a \in KernelState
    BY <1>1, InEventListIff, WakeSuspendedGood, WakeSuspendedTimes
       DEF prvTaskIsTaskSuspended, Moves, Good
  <2> HIDE DEF a
  <2>3. SameSleep(a, r)
    BY <2>2, SwitchTimes
  <2> HIDE DEF r
  <2> QED
    BY <2>1, <2>2, <2>3, SameSleepRests, RestsTransitive
<1>2. CASE ~(t # s.current /\ prvTaskIsTaskSuspended(s, t))
  BY <1>2, RestsItself DEF vTaskResume
<1> QED
  BY <1>1, <1>2

\* xTaskResumeFromISR
LEMMA ResumeFromISRTimes ==
  ASSUME NEW s \in Good, NEW t \in Task
  PROVE  Rests(s, xTaskResumeFromISR(s, t))
<1> DEFINE urgent == s.prio[t] >= s.prio[s.current]
           a == prvAddTaskToReadyList(RemoveStateItem(s, t), t)
           b == [a EXCEPT !.yieldPending = @ \/ urgent]
           r == YieldIf(b, urgent)
<1>1. CASE ~prvTaskIsTaskSuspended(s, t)
  BY <1>1, RestsItself DEF xTaskResumeFromISR
<1>2. CASE prvTaskIsTaskSuspended(s, t) /\ s.schedSusp = 0
  <2>1. xTaskResumeFromISR(s, t) = r
    BY <1>2 DEF xTaskResumeFromISR
  <2> HIDE DEF urgent
  <2>2. Rests(s, a) /\ a \in Good
    BY <1>2, InEventListIff, WakeSuspendedGood, WakeSuspendedTimes
       DEF prvTaskIsTaskSuspended, Moves
  <2> HIDE DEF a
  <2>3. b \in KernelState /\ SameSleep(a, b)
    BY <2>2, YieldFlagGood, FieldTimes DEF Moves, Good
  <2> HIDE DEF b
  <2>4. SameSleep(b, r)
    BY <2>3, SwitchTimes
  <2> HIDE DEF r
  <2>5. Rests(s, b)
    BY <2>2, <2>3, SameSleepRests, RestsTransitive
  <2> QED
    BY <2>1, <2>4, <2>5, SameSleepRests, RestsTransitive
<1>3. CASE prvTaskIsTaskSuspended(s, t) /\ s.schedSusp # 0
  <2> DEFINE c == [s EXCEPT !.pending = Append(@, t)]
  <2>1. xTaskResumeFromISR(s, t) = c
    BY <1>3 DEF xTaskResumeFromISR
  <2>2. ~Delayed(s, t)
    BY <1>3 DEF prvTaskIsTaskSuspended, Good, Placed, Delayed
  <2>3. s \in KernelState /\ s.pending \in Seq(Task)
    BY DEF Good, KernelState
  <2>4. /\ SameTimes(s, c) /\ c.events = s.events
        /\ c.pending = Append(s.pending, t)
    BY <2>3 DEF KernelState, SameTimes
  <2>5. ToSet(c.pending) = ToSet(s.pending) \cup {t}
    BY <2>3, <2>4, AppendOne
  <2> HIDE DEF c
  <2>6. \A u \in Task : Delayed(s, u) /\ Free(s, u) => Free(c, u)
    BY <2>2, <2>4, <2>5 DEF Free
  <2> QED
    BY <2>1, <2>4, <2>6, SameTimesWakes DEF Rests
<1> QED
  BY <1>1, <1>2, <1>3

\* xTaskAbortDelay wakes the task it is told to.
LEMMA AbortDelayTimes ==
  ASSUME NEW s \in Good, NEW t \in Task
  PROVE  Wakes(s, xTaskAbortDelay(s, t), {t})
<1> DEFINE a == Unblock(s, t)
           waits == InEventList(s, t)
           urgent == s.prio[t] > s.prio[s.current]
           b == [a EXCEPT !.aborted[t] = @ \/ waits]
           r == [b EXCEPT !.yieldPending = @ \/ urgent]
<1>1. xTaskAbortDelay(s, t) = s \/ xTaskAbortDelay(s, t) = r
  BY DEF xTaskAbortDelay
<1> HIDE DEF waits, urgent
<1>2. Wakes(s, a, {t}) /\ a \in Good
  BY UnblockGood, UnblockTimes DEF Moves
<1> HIDE DEF a
<1>3. b \in KernelState /\ SameSleep(a, b)
  <2> DEFINE c == a.aborted[t] \/ waits
             d == [a EXCEPT !.aborted[t] = c]
  <2>1. c \in BOOLEAN /\ b = d /\ a \in KernelState
    BY <1>2 DEF Good
  <2> HIDE DEF c, b, r
  <2>2. d \in KernelState
    BY <2>1 DEF KernelState
  <2> QED
    BY <2>1, <2>2, FieldTimes DEF d
<1> HIDE DEF b
<1>4. SameSleep(b, r)
  BY <1>3, FieldTimes
<1> HIDE DEF r
<1>5. SameSleep(a, r)
  BY <1>3, <1>4 DEF SameSleep, SameTimes
<1>6. Wakes(a, r, {t}) /\ {t} \cup {t} = {t}
  BY <1>5, SameSleepWakes
<1>7. Wakes(s, r, {t} \cup {t})
  BY <1>2, <1>6, WakesTransitive
<1>8. Wakes(s, s, {t})
  BY RestsItself, SameSleepWakes
<1> QED
  BY <1>1, <1>6, <1>7, <1>8

\* To look at the clock does not change it.
LEMMA CheckForTimeOutTimes ==
  ASSUME NEW s \in Good, NEW wait
  PROVE  SameSleep(s, xTaskCheckForTimeOut(s, wait).k)
<1> DEFINE calm == [s EXCEPT !.aborted[s.current] = FALSE]
           r == xTaskCheckForTimeOut(s, wait).k
<1>1. SameSleep(s, calm) /\ SameSleep(s, s)
  BY FieldTimes, RestsItself DEF Good
<1>2. r = s \/ r = calm
  <2>1. CASE s.aborted[s.current]
    BY <2>1 DEF xTaskCheckForTimeOut
  <2>2. CASE ~s.aborted[s.current] /\ wait.left = portMAX_DELAY
    BY <2>2 DEF xTaskCheckForTimeOut
  <2>3. CASE ~s.aborted[s.current] /\ wait.left # portMAX_DELAY
    BY <2>3 DEF xTaskCheckForTimeOut
  <2> QED
    BY <2>1, <2>2, <2>3
<1> HIDE DEF calm, r
<1>3. SameSleep(s, r)
  BY <1>1, <1>2
<1> QED
  BY <1>3 DEF r

\* A mutex is given back, or an item is put.
LEMMA CopyDataTimes ==
  ASSUME NEW s \in Good, NEW q \in AnyQueue, NEW item, NEW position,
         q.kind = "mutex" /\ q.holder # NoTask => IsReady(s, q.holder) /\ s.held[q.holder] > 0
  PROVE  Rests(s, prvCopyDataToQueue(s, q, item, position).k)
<1>1. q.holder \in Task \cup {NoTask}
  BY DEF AnyQueue
<1>2. CASE q.kind = "mutex"
  BY <1>1, <1>2, DisinheritTimes DEF prvCopyDataToQueue
<1>3. CASE q.kind # "mutex"
  BY <1>3, RestsItself DEF prvCopyDataToQueue
<1> QED
  BY <1>2, <1>3

\* A running task sends,
LEMMA SendWithRoomTimes ==
  ASSUME NEW s \in Good, NEW q \in AnyQueue, NEW id \in Queue, NEW item \in Item,
         NEW position \in Position, NEW t \in Task, IsReady(s, t), HeldBy(s, q, t)
  PROVE  Rests(s, SendWithRoom(s, q, id, item, position).k)
<1> DEFINE copied == prvCopyDataToQueue(s, q, item, position)
           e == <<id, "receive">>
           a == WakeOne(copied.k, e)
           b == YieldIf(copied.k, copied.yes)
           r == SendWithRoom(s, q, id, item, position)
<1>1. copied.k \in Good /\ Rests(s, copied.k)
  BY CopyDataGood, CopyDataTimes DEF HeldBy, QueueMoves, Moves
<1>2. e \in EventList
  BY DEF EventList
<1>3. r.k = a \/ r.k = b
  BY DEF SendWithRoom
<1> HIDE DEF copied, e, r
<1>4. Rests(copied.k, a)
  BY <1>1, <1>2, WakeOneTimes
<1>5. Rests(copied.k, b)
  BY <1>1, SwitchTimes, SameSleepRests DEF Good
<1> HIDE DEF a, b
<1>6. Rests(s, r.k)
  BY <1>1, <1>3, <1>4, <1>5, RestsTransitive
<1> QED
  BY <1>6 DEF r

\* takes,
LEMMA TakeItemTimes ==
  ASSUME NEW s \in Good, s.current \in Task, NEW q, NEW id \in Queue, NEW again
  PROVE  Rests(s, TakeItem(s, q, id, again).k)
<1> DEFINE t == s.current
           e == <<id, "send">>
           n == s.held[t] + 1
           more == [s EXCEPT !.held[t] = n]
           taken == IF q.kind = "mutex" THEN more ELSE s
           v == WakeOne(taken, e)
           r == TakeItem(s, q, id, again)
<1>1. s \in KernelState /\ e \in EventList
  BY DEF Good, EventList
<1>2. r.k = v
  BY DEF TakeItem
<1>3. n \in Nat
  <2>1. s.held[s.current] \in Nat
    <3> HIDE DEF t, e, n, more, taken, v, r
    <3> QED
      BY <1>1 DEF KernelState
  <2> QED
    BY <2>1
<1>4. taken = s \/ taken = more
  OBVIOUS
<1> HIDE DEF n, r, v
<1>5. more \in KernelState /\ SameLists(s, more) /\ SameSleep(s, more)
  BY <1>1, <1>3, HeldTyped, FieldTimes
<1> HIDE DEF more, taken, e
<1>6. taken \in Good /\ Rests(s, taken)
  BY <1>4, <1>5, SameListsGood, RestsItself, SameSleepRests
<1>7. Rests(taken, v)
  BY <1>1, <1>6, WakeOneTimes DEF v
<1>8. Rests(s, v)
  BY <1>6, <1>7, RestsTransitive
<1> QED
  BY <1>2, <1>8 DEF r

\* peeks, resets a queue or unlocks it.
LEMMA QueueTimes ==
  ASSUME NEW s \in Good, NEW q \in AnyQueue, NEW id \in Queue
  PROVE  /\ Rests(s, PeekItem(s, q, id).k) /\ Rests(s, xQueueGenericReset(s, q, id).k)
         /\ Rests(s, UnlockTx(s, q, id).k) /\ Rests(s, UnlockRx(s, q, id).k)
<1>1. <<id, "send">> \in EventList /\ <<id, "receive">> \in EventList
  BY DEF EventList
<1>2. q.txLock \in Int /\ q.rxLock \in Int
  BY DEF AnyQueue
<1>3. Rests(s, WakeOne(s, <<id, "send">>)) /\ Rests(s, WakeOne(s, <<id, "receive">>))
  BY <1>1, WakeOneTimes
<1>4. /\ Rests(s, WakeCounted(s, <<id, "receive">>, q.txLock))
      /\ Rests(s, WakeCounted(s, <<id, "send">>, q.rxLock))
  BY <1>1, <1>2, WakeCountedTimes
<1> QED
  BY <1>3, <1>4 DEF PeekItem, xQueueGenericReset, UnlockTx, UnlockRx

\* A handler sends or receives.
LEMMA QueueIrqTimes ==
  ASSUME NEW s \in Good, NEW q \in AnyQueue, NEW id \in Queue, NEW item, NEW position
  PROVE  /\ q.kind # "mutex" => Rests(s, xQueueGenericSendFromISR(s, q, id, item, position).k)
         /\ Rests(s, xQueueGiveFromISR(s, q, id, item).k)
         /\ Rests(s, xQueueReceiveFromISR(s, q, id).k)
<1> DEFINE a == WakeOne(s, <<id, "receive">>)
           b == WakeOne(s, <<id, "send">>)
<1>1. <<id, "send">> \in EventList /\ <<id, "receive">> \in EventList
  BY DEF EventList
<1>2. Rests(s, a) /\ Rests(s, b) /\ Rests(s, s)
  BY <1>1, WakeOneTimes, RestsItself
<1>3. q.kind # "mutex" => prvCopyDataToQueue(s, q, item, position).k = s
  BY DEF prvCopyDataToQueue
<1>4. q.kind # "mutex" => xQueueGenericSendFromISR(s, q, id, item, position).k \in {s, a}
  <2> SUFFICES ASSUME q.kind # "mutex"
               PROVE  xQueueGenericSendFromISR(s, q, id, item, position).k \in {s, a}
    OBVIOUS
  <2> DEFINE room == HasRoom(q, position)
             copied == prvCopyDataToQueue(s, q, item, position)
  <2>0. copied.k = s
    BY <1>3
  <2> HIDE DEF room, copied
  <2>1. CASE ~room
    BY <2>1 DEF xQueueGenericSendFromISR, room
  <2>2. CASE room /\ q.txLock = queueUNLOCKED
    BY <2>0, <2>2 DEF xQueueGenericSendFromISR, room, copied
  <2>3. CASE room /\ q.txLock # queueUNLOCKED
    BY <2>0, <2>3 DEF xQueueGenericSendFromISR, room, copied
  <2> QED
    BY <2>1, <2>2, <2>3
<1>5. xQueueGiveFromISR(s, q, id, item).k \in {s, a}
  <2> DEFINE room == HasRoom(q, "back")
  <2> HIDE DEF room
  <2>1. CASE ~room
    BY <2>1 DEF xQueueGiveFromISR, room
  <2>2. CASE room /\ q.txLock = queueUNLOCKED
    BY <2>2 DEF xQueueGiveFromISR, room
  <2>3. CASE room /\ q.txLock # queueUNLOCKED
    BY <2>3 DEF xQueueGiveFromISR, room
  <2> QED
    BY <2>1, <2>2, <2>3
<1>6. xQueueReceiveFromISR(s, q, id).k \in {s, b}
  <2> DEFINE some == ~prvIsQueueEmpty(q)
  <2> HIDE DEF some
  <2>1. CASE ~some
    BY <2>1 DEF xQueueReceiveFromISR, some
  <2>2. CASE some /\ q.rxLock = queueUNLOCKED
    BY <2>2 DEF xQueueReceiveFromISR, some
  <2>3. CASE some /\ q.rxLock # queueUNLOCKED
    BY <2>3 DEF xQueueReceiveFromISR, some
  <2> QED
    BY <2>1, <2>2, <2>3
<1> HIDE DEF a, b
<1> QED
  BY <1>2, <1>4, <1>5, <1>6

\* vListInsert keeps a list in order.
LEMMA InsertOrdered ==
  ASSUME NEW s \in Seq(Task), NEW t \in Task, NEW v, Ordered(s, v),
         \A u \in Task : v[u] \in Nat
  PROVE  Ordered(vListInsert(s, t, v), v)
<1> DEFINE Passed == {i \in DOMAIN s : \A j \in 1..i : v[s[j]] <= v[t]}
           n == Cardinality(Passed)
           m == n + 1
<1>1. /\ DOMAIN s = 1..Len(s) /\ Len(s) \in Nat /\ v[t] \in Nat
      /\ \A i \in 1..Len(s) : s[i] \in Task /\ v[s[i]] \in Nat
  OBVIOUS
<1>2. vListInsert(s, t, v) = InsertAt(s, m, t)
  BY DEF vListInsert
<1>3. Passed \in SUBSET (1..Len(s)) /\ \A i \in Passed : v[s[i]] <= v[t]
  BY <1>1
<1>4. ASSUME NEW i \in Passed, NEW j \in 1..i PROVE j \in Passed
  <2>1. i \in 1..Len(s) /\ j \in 1..Len(s)
    BY <1>1
  <2>2. \A l \in 1..j : l \in 1..i
    BY <2>1
  <2> QED
    BY <1>1, <2>1, <2>2
<1>5. n \in 0..Len(s) /\ Passed = 1..n
  <2> HIDE DEF Passed
  <2> QED
    BY <1>1, <1>3, <1>4, InitialSegment
<1>6. ASSUME n < Len(s) PROVE v[t] < v[s[n + 1]]
  <2>0. n + 1 \notin Passed /\ n \in Nat
    <3> HIDE DEF Passed, n
    <3> QED
      BY <1>1, <1>5
  <2>1. n + 1 \in 1..Len(s)
    <3> HIDE DEF Passed, n
    <3> QED
      BY <1>1, <1>5, <1>6
  <2>2. PICK j \in 1..(n + 1) : ~(v[s[j]] <= v[t])
    <3> DEFINE l == n + 1
    <3>1. l \in DOMAIN s /\ l \notin Passed
      BY <1>1, <2>0, <2>1
    <3> HIDE DEF l, n
    <3>2. \E j \in 1..l : ~(v[s[j]] <= v[t])
      BY <3>1
    <3> QED
      BY <3>2 DEF l
  <2> HIDE DEF Passed, n
  <2>3. j = n + 1
    <3>1. j \notin Passed
      BY <1>3, <2>2
    <3> QED
      BY <1>5, <2>0, <2>2, <3>1
  <2> QED
    BY <1>1, <2>1, <2>2, <2>3
<1> HIDE DEF Passed, n
<1>7. \A i \in 1..n : v[s[i]] <= v[t]
  BY <1>3, <1>5
<1>8. Ordered(InsertAt(s, n + 1, t), v)
  BY <1>5, <1>6, <1>7, OrderedWith
<1> QED
  BY <1>2, <1>8

\* t, which did not, sleeps for so many ticks from now, if it waits for the clock at
\* all; the others sleep on.
Dozes(s, r, t, ticks, forever) ==
  /\ r.tick = s.tick /\ r.overflows = s.overflows /\ r.schedSusp = s.schedSusp
  /\ Clocked(s) => Clocked(r)
  /\ IF ticks = portMAX_DELAY /\ forever THEN ~Delayed(r, t)
     ELSE Delayed(r, t) /\ WakesAt(r, t) = Now(s) + ticks
  /\ \A u \in Task \ {t} :
       /\ Delayed(r, u) => Delayed(s, u) /\ WakesAt(r, u) = WakesAt(s, u)
       /\ Delayed(s, u) /\ Free(s, u) => Delayed(r, u) /\ Free(r, u)

\* The running task goes to sleep.
LEMMA AddToDelayedTimes ==
  ASSUME NEW s \in Good, s.current \in Task, IsReady(s, s.current),
         NEW ticks \in Ticks, ticks # 0, NEW forever
  PROVE  Dozes(s, prvAddCurrentTaskToDelayedList(s, ticks, forever), s.current, ticks, forever)
<1> DEFINE t == s.current
           unset == [s EXCEPT !.aborted[t] = FALSE]
           left == LeaveReadyList(unset, t, s.prio[t])
           wake == (s.tick + ticks) % TickMod
           set == [left EXCEPT !.wake[t] = wake]
           d == vListInsert(set.delayed, t, set.wake)
           o == vListInsert(set.overflow, t, set.wake)
           n == IF wake < set.unblock THEN wake ELSE set.unblock
           never == [left EXCEPT !.suspended = @ \cup {t}]
           later == [set EXCEPT !.overflow = o]
           soon == [set EXCEPT !.delayed = d, !.unblock = n]
           r == prvAddCurrentTaskToDelayedList(s, ticks, forever)
<1>1. /\ t \in Task /\ s \in KernelState /\ s.tick \in Nat /\ s.tick < TickMod
      /\ ticks \in Nat /\ ticks < TickMod /\ ticks > 0 /\ TickMod \in Nat /\ TickMod > 1
      /\ s.overflows * TickMod \in Nat
      /\ (s.overflows + 1) * TickMod = s.overflows * TickMod + TickMod
  <2>1. s.overflows \in Nat /\ TickMod \in Nat \ {0, 1}
    BY TaskAssumption DEF Good, KernelState
  <2>2. s.overflows * TickMod \in Nat /\ ticks \in Nat /\ ticks < TickMod /\ ticks > 0
    BY <2>1 DEF Ticks
  <2> QED
    BY <2>1, <2>2, TimesTyped DEF Good
<1>2. r = IF ticks = portMAX_DELAY /\ forever THEN never
          ELSE IF wake < s.tick THEN later ELSE soon
  BY DEF prvAddCurrentTaskToDelayedList
<1>3. /\ wake \in Ticks /\ wake \in Nat
      /\ wake = IF s.tick + ticks < TickMod THEN s.tick + ticks ELSE s.tick + ticks - TickMod
  <2> DEFINE x == s.tick + ticks
  <2>1. x \in Nat /\ x < TickMod + TickMod /\ wake = x % TickMod
    BY <1>1
  <2>2. wake \in Ticks /\ wake \in Nat
    <3>1. wake \in Ticks
      BY <2>1, TicksWrap
    <3> HIDE DEF wake
    <3> QED
      BY <3>1 DEF Ticks
  <2> HIDE DEF x, wake
  <2>3. CASE x < TickMod
    <3>1. wake = x
      BY <2>1, <2>3, <1>1
    <3> QED
      BY <2>2, <2>3, <3>1 DEF x
  <2>4. CASE ~(x < TickMod)
    <3> DEFINE y == x - TickMod
    <3>1. y \in Nat /\ y < TickMod /\ x = y + TickMod
      BY <1>1, <2>1, <2>4
    <3> HIDE DEF y
    <3>2. x = 1 * TickMod + y /\ y \in 0..(TickMod - 1)
      BY <1>1, <3>1
    <3>3. x % TickMod = y
      BY <1>1, <3>2, DivMod
    <3>4. wake = y
      BY <2>1, <3>3
    <3> QED
      BY <1>1, <2>2, <2>4, <3>4 DEF x, y
  <2> QED
    BY <2>3, <2>4
<1> HIDE DEF wake, r
<1>4. unset \in Good /\ SameSleep(s, unset) /\ IsReady(unset, t)
  <2> HIDE DEF t, left, never, later, soon, set
  <2>1. unset \in KernelState
    BY <1>1 DEF KernelState
  <2>2. SameLists(s, unset)
    BY <1>1 DEF KernelState, SameLists
  <2>3. SameSleep(s, unset)
    BY <1>1, FieldTimes
  <2> QED
    BY <1>1, <2>1, <2>2, <2>3, SameListsGood DEF t
<1>5. Rests(s, left) /\ left \in Good /\ Others(unset, left, t) /\ Away(left, t)
  <2> HIDE DEF unset
  <2>1. Rests(unset, left) /\ left \in Good /\ Others(unset, left, t) /\ Away(left, t)
    BY <1>1, <1>4, LeaveReadyTimes, LeaveReadyGood DEF Rests
  <2> QED
    BY <1>4, <2>1, SameSleepRests, RestsTransitive
<1>6. \A u \in Task \ {t} : /\ Delayed(left, u) => Delayed(s, u) /\ WakesAt(left, u) = WakesAt(s, u)
                            /\ Delayed(s, u) /\ Free(s, u) => Delayed(left, u) /\ Free(left, u)
  <2> HIDE DEF left
  <2>1. \A u \in Task : Placed(s, u) /\ Placed(left, u)
    BY <1>5 DEF Good
  <2> QED
    BY <1>5, <2>1 DEF Rests, Wakes, Delayed, WakesAt, Placed
<1>7. /\ ~Delayed(left, t) /\ left \in KernelState
      /\ left.tick = s.tick /\ left.overflows = s.overflows /\ left.schedSusp = s.schedSusp
      /\ Clocked(s) => Clocked(left)
  <2> HIDE DEF left
  <2>1. left.delayed \in Seq(Task)
    BY <1>5 DEF Good, KernelState
  <2>2. \A u \in ToSet(left.delayed) : u \in Task
    BY <2>1 DEF ToSet
  <2>3. Clocked(s) => Clocked(left)
    BY <1>5, <2>2 DEF Rests, Wakes, Clocked
  <2> QED
    BY <1>5, <2>3 DEF Rests, Wakes, Away, Delayed, Good
<1> HIDE DEF unset, left, t
<1>8. CASE ticks = portMAX_DELAY /\ forever
  <2>1. r = never
    BY <1>2, <1>8
  <2>2. SameSleep(left, never)
    BY <1>7 DEF KernelState, SameSleep, SameTimes
  <2> HIDE DEF never, later, soon, set, d, o, n
  <2>3. \A u \in Task : /\ Delayed(never, u) <=> Delayed(left, u)
                        /\ WakesAt(never, u) = WakesAt(left, u)
                        /\ Free(never, u) <=> Free(left, u)
    BY <2>2 DEF SameSleep, SameTimes, Delayed, WakesAt, Free
  <2>4. Clocked(s) => Clocked(never)
    BY <1>7, <2>2 DEF SameSleep, SameTimes, Clocked
  <2>5. /\ never.tick = s.tick /\ never.overflows = s.overflows
        /\ never.schedSusp = s.schedSusp
    BY <1>7, <2>2 DEF SameSleep, SameTimes
  <2>6. Dozes(s, never, t, ticks, forever)
    BY <1>1, <1>6, <1>7, <1>8, <2>3, <2>4, <2>5 DEF Dozes
  <2> QED
    BY <2>1, <2>6 DEF r, t
<1>9. /\ set.wake = [left.wake EXCEPT ![t] = wake]
      /\ set.delayed = left.delayed /\ set.overflow = left.overflow
      /\ set.tick = s.tick /\ set.overflows = s.overflows /\ set.schedSusp = s.schedSusp
      /\ set.unblock = left.unblock /\ set.pending = left.pending /\ set.events = left.events
      /\ set \in KernelState
  <2> HIDE DEF never, later, soon, d, o, n
  <2>1. set \in KernelState
    BY <1>1, <1>3, <1>7 DEF KernelState
  <2> QED
    BY <1>7, <2>1 DEF KernelState
<1>10. /\ set.wake[t] = wake /\ \A u \in Task \ {t} : set.wake[u] = left.wake[u]
       /\ \A u \in Task : set.wake[u] \in Nat /\ left.wake[u] \in Nat
       /\ set.delayed \in Seq(Task) /\ set.overflow \in Seq(Task)
       /\ set.unblock \in Nat
  <2>1. left.wake \in [Task -> Ticks]
    BY <1>7 DEF KernelState
  <2>2. /\ set.wake[t] = wake /\ \A u \in Task \ {t} : set.wake[u] = left.wake[u]
    BY <1>1, <1>9, <2>1
  <2> HIDE DEF set
  <2> QED
    BY <1>7, <1>9, <2>2, TimesTyped
<1> HIDE DEF set
<1>11. Clocked(s) => /\ Ordered(set.delayed, set.wake) /\ Ordered(set.overflow, set.wake)
                     /\ \A u \in ToSet(set.delayed) :
                          u # t /\ set.tick < set.wake[u] /\ set.unblock <= set.wake[u]
  <2> SUFFICES ASSUME Clocked(left)
               PROVE  /\ Ordered(set.delayed, set.wake) /\ Ordered(set.overflow, set.wake)
                      /\ \A u \in ToSet(set.delayed) :
                           u # t /\ set.tick < set.wake[u] /\ set.unblock <= set.wake[u]
    BY <1>7
  <2>1. /\ \A u \in ToSet(left.delayed) : u \in Task \ {t}
        /\ \A u \in ToSet(left.overflow) : u \in Task \ {t}
    BY <1>7, <1>9, <1>10 DEF Delayed, ToSet
  <2>2. /\ \A u \in ToSet(left.delayed) : set.wake[u] = left.wake[u]
        /\ \A u \in ToSet(left.overflow) : set.wake[u] = left.wake[u]
    BY <1>10, <2>1
  <2>3. Ordered(left.delayed, left.wake) /\ Ordered(left.overflow, left.wake)
    BY DEF Clocked
  <2>4. Ordered(set.delayed, set.wake) /\ Ordered(set.overflow, set.wake)
    BY <1>9, <2>2, <2>3 DEF Ordered, ToSet
  <2>5. \A u \in ToSet(left.delayed) : left.tick < left.wake[u] /\ left.unblock <= left.wake[u]
    BY DEF Clocked
  <2> QED
    BY <1>7, <1>9, <2>1, <2>2, <2>4, <2>5
<1>12. \A u \in Task \ {t} : /\ Delayed(set, u) <=> Delayed(left, u)
                             /\ WakesAt(set, u) = WakesAt(left, u)
                             /\ Free(set, u) <=> Free(left, u)
  BY <1>7, <1>9, <1>10 DEF Delayed, WakesAt, Free
<1>13. /\ IsInjective(set.delayed) /\ IsInjective(set.overflow)
       /\ t \notin ToSet(set.delayed) /\ t \notin ToSet(set.overflow)
  BY <1>5, <1>7, <1>9 DEF Good, Shape, Delayed
<1>14. CASE ~(ticks = portMAX_DELAY /\ forever) /\ wake < s.tick
  <2>1. r = later
    BY <1>2, <1>14
  <2>2. /\ later.overflow = o /\ later.delayed = set.delayed /\ later.wake = set.wake
        /\ later.tick = s.tick /\ later.overflows = s.overflows
        /\ later.schedSusp = s.schedSusp /\ later.unblock = set.unblock
        /\ later.pending = set.pending /\ later.events = set.events
    <3> HIDE DEF o
    <3> QED
      BY <1>9 DEF KernelState
  <2>3. ToSet(o) = ToSet(set.overflow) \cup {t}
    BY <1>1, <1>10, <1>13, InsertInOrder
  <2>4. Clocked(s) => Ordered(o, set.wake)
    BY <1>1, <1>10, <1>11, InsertOrdered
  <2> HIDE DEF o, later
  <2>5. Clocked(s) => Clocked(later)
    BY <1>9, <1>11, <2>2, <2>4 DEF Clocked
  <2>6. \A u \in Task \ {t} : /\ Delayed(later, u) <=> Delayed(set, u)
                              /\ WakesAt(later, u) = WakesAt(set, u)
                              /\ Free(later, u) <=> Free(set, u)
    BY <1>9, <2>2, <2>3 DEF Delayed, WakesAt, Free
  <2>7. Delayed(later, t) /\ WakesAt(later, t) = (s.overflows + 1) * TickMod + wake
    BY <1>10, <1>13, <2>2, <2>3 DEF Delayed, WakesAt
  <2>8. WakesAt(later, t) = Now(s) + ticks
    <3>1. wake = s.tick + ticks - TickMod
      BY <1>1, <1>3, <1>14
    <3> DEFINE x == s.overflows * TickMod
    <3>2. WakesAt(later, t) = x + TickMod + wake /\ Now(s) = x + s.tick /\ x \in Nat
      BY <1>1, <2>7 DEF Now
    <3> HIDE DEF x
    <3> QED
      BY <1>1, <1>3, <3>1, <3>2
  <2>9. Dozes(s, later, t, ticks, forever)
    BY <1>6, <1>12, <1>14, <2>2, <2>5, <2>6, <2>7, <2>8 DEF Dozes
  <2> QED
    BY <2>1, <2>9 DEF r, t
<1>15. CASE ~(ticks = portMAX_DELAY /\ forever) /\ ~(wake < s.tick)
  <2>1. r = soon
    BY <1>2, <1>15
  <2>2. /\ soon.delayed = d /\ soon.overflow = set.overflow /\ soon.wake = set.wake
        /\ soon.tick = s.tick /\ soon.overflows = s.overflows
        /\ soon.schedSusp = s.schedSusp /\ soon.unblock = n
        /\ soon.pending = set.pending /\ soon.events = set.events
    <3> HIDE DEF d, n
    <3> QED
      BY <1>9 DEF KernelState
  <2>3. ToSet(d) = ToSet(set.delayed) \cup {t}
    BY <1>1, <1>10, <1>13, InsertInOrder
  <2>4. Clocked(s) => Ordered(d, set.wake)
    BY <1>1, <1>10, <1>11, InsertOrdered
  <2>5. n <= wake /\ n <= set.unblock /\ n \in Nat
    BY <1>3, <1>10
  <2>6. wake = s.tick + ticks
    BY <1>1, <1>3, <1>15
  <2> HIDE DEF d, n, soon
  <2>7. Clocked(s) => Clocked(soon)
    <3> SUFFICES ASSUME Clocked(s), NEW u \in ToSet(d)
                 PROVE  s.tick < set.wake[u] /\ n <= set.wake[u]
      BY <1>11, <2>2, <2>4 DEF Clocked
    <3>1. CASE u = t
      BY <1>1, <1>10, <2>5, <2>6, <3>1
    <3>2. CASE u # t
      <4>0. u \in ToSet(set.delayed)
        BY <2>3, <3>2
      <4>1. u \in ToSet(set.delayed) /\ u \in Task
        BY <1>10, <4>0 DEF ToSet
      <4>2. set.tick < set.wake[u] /\ set.unblock <= set.wake[u] /\ set.wake[u] \in Nat
        BY <1>10, <1>11, <4>1
      <4> QED
        BY <1>9, <1>10, <2>5, <4>2
    <3> QED
      BY <3>1, <3>2
  <2>8. \A u \in Task \ {t} : /\ Delayed(soon, u) <=> Delayed(set, u)
                              /\ WakesAt(soon, u) = WakesAt(set, u)
                              /\ Free(soon, u) <=> Free(set, u)
    BY <1>9, <2>2, <2>3 DEF Delayed, WakesAt, Free
  <2>9. Delayed(soon, t) /\ WakesAt(soon, t) = s.overflows * TickMod + wake
    BY <1>10, <2>2, <2>3 DEF Delayed, WakesAt
  <2>10. WakesAt(soon, t) = Now(s) + ticks
    <3> DEFINE x == s.overflows * TickMod
    <3>1. WakesAt(soon, t) = x + wake /\ Now(s) = x + s.tick /\ x \in Nat
      BY <1>1, <2>9 DEF Now
    <3> HIDE DEF x
    <3> QED
      BY <1>1, <1>3, <2>6, <3>1
  <2>11. Dozes(s, soon, t, ticks, forever)
    BY <1>6, <1>12, <1>15, <2>2, <2>7, <2>8, <2>9, <2>10 DEF Dozes
  <2> QED
    BY <2>1, <2>11 DEF r, t
<1> QED
  BY <1>8, <1>14, <1>15

\* And waits for an event as well.
LEMMA PlaceOnEventListTimes ==
  ASSUME NEW s \in Good, s.current \in Task, IsReady(s, s.current),
         NEW e \in EventList, NEW ticks \in Ticks, ticks # 0
  PROVE  Dozes(s, vTaskPlaceOnEventList(s, e, ticks), s.current, ticks, TRUE)
<1> DEFINE t == s.current
           a == prvAddCurrentTaskToDelayedList(s, ticks, TRUE)
           waiting == vListInsert(s.events[e], t, s.eventValue)
           events == [s.events EXCEPT ![e] = waiting]
           r == With(a, events)
<1>1. s \in KernelState /\ t \in Task /\ Free(s, t)
  BY ReadyIsNotAway DEF Good
<1>2. vTaskPlaceOnEventList(s, e, ticks) = r
  <2>1. vTaskPlaceOnEventList(s, e, ticks)
        = prvAddCurrentTaskToDelayedList(With(s, events), ticks, TRUE)
    BY DEF vTaskPlaceOnEventList, With
  <2> HIDE DEF events
  <2> QED
    BY <1>1, <2>1, SleepIgnoresEvents
<1>3. a \in KernelState /\ Dozes(s, a, t, ticks, TRUE) /\ a.events = s.events
  BY AddToDelayedGood, AddToDelayedTimes DEF SleepsIn, Good
<1> HIDE DEF a, t
<1>4. ToSet(waiting) = ToSet(s.events[e]) \cup {t}
  <2>1. s.events[e] \in Seq(Task) /\ IsInjective(s.events[e]) /\ t \notin ToSet(s.events[e])
    BY <1>1 DEF Good, Shape, KernelState, Free
  <2> QED
    BY <1>1, <2>1, InsertInOrder
<1> HIDE DEF waiting
<1>5. SameTimes(a, r) /\ r.pending = a.pending /\ r.events = events
  <2> HIDE DEF events
  <2> QED
    BY <1>3 DEF KernelState, With, SameTimes
<1>6. \A f \in EventList : r.events[f] = IF f = e THEN waiting ELSE a.events[f]
  <2>1. s.events \in [EventList -> Seq(Task)]
    BY <1>1 DEF KernelState
  <2> QED
    BY <1>3, <1>5, <2>1
<1> HIDE DEF r, events
<1>7. \A u \in Task \ {t} : Free(r, u) <=> Free(a, u)
  BY <1>3, <1>4, <1>5, <1>6 DEF Free
<1>8. \A u \in Task : (Delayed(r, u) <=> Delayed(a, u)) /\ WakesAt(r, u) = WakesAt(a, u)
  BY <1>5 DEF SameTimes, Delayed, WakesAt
<1>9. Clocked(a) => Clocked(r)
  BY <1>5 DEF SameTimes, Clocked
<1>10. Dozes(s, r, t, ticks, TRUE)
  BY <1>1, <1>3, <1>5, <1>7, <1>8, <1>9 DEF Dozes, SameTimes
<1> QED
  BY <1>2, <1>10 DEF t

-----------------------------------------------------------------------------
(***************************************************************************)
(* What is held, and who waits.  But for what takes a mutex or gives one,  *)
(* each task holds what it held; but for what puts the running task to     *)
(* sleep, none waits for an event that did not.                            *)
(***************************************************************************)
Frees(s, r) ==
  /\ r.held = s.held
  /\ \A e \in EventList : ToSet(r.events[e]) \subseteq ToSet(s.events[e])

\* Such steps compose.
LEMMA FreesTransitive ==
  ASSUME NEW s, NEW r, NEW v, Frees(s, r), Frees(r, v)
  PROVE  Frees(s, v)
BY DEF Frees

\* What changes neither, frees.
LEMMA SameFrees ==
  ASSUME NEW s, NEW r, r.held = s.held, r.events = s.events
  PROVE  Frees(s, r)
BY DEF Frees

\* Single fields.
LEMMA FieldFrees ==
  ASSUME NEW s \in KernelState
  PROVE  /\ Frees(s, s)
         /\ \A b, t : Frees(s, [s EXCEPT !.aborted[t] = b])
         /\ \A p, t : Frees(s, [s EXCEPT !.base[t] = p])
         /\ \A b : Frees(s, [s EXCEPT !.yieldPending = b])
         /\ \A n : Frees(s, [s EXCEPT !.pended = n]) /\ Frees(s, [s EXCEPT !.schedSusp = n])
         /\ \A t, p : Frees(s, Reprioritise(s, t, p))
<1>1. \A b, t : Frees(s, [s EXCEPT !.aborted[t] = b])
  BY DEF KernelState, Frees
<1>2. \A p, t : Frees(s, [s EXCEPT !.base[t] = p])
  BY DEF KernelState, Frees
<1>3. \A b : Frees(s, [s EXCEPT !.yieldPending = b])
  BY DEF KernelState, Frees
<1>4. \A n : Frees(s, [s EXCEPT !.pended = n]) /\ Frees(s, [s EXCEPT !.schedSusp = n])
  BY DEF KernelState, Frees
<1>5. \A t, p : Frees(s, Reprioritise(s, t, p))
  BY DEF KernelState, Frees, Reprioritise
<1> QED
  BY <1>1, <1>2, <1>3, <1>4, <1>5 DEF Frees

\* The list items: t is in no event list once its event item is removed.
LEMMA ItemFrees ==
  ASSUME NEW s \in KernelState, NEW t \in Task, \A e \in EventList : IsInjective(s.events[e])
  PROVE  /\ Frees(s, RemoveStateItem(s, t))
         /\ Frees(s, prvAddTaskToReadyList(s, t))
         /\ Frees(s, RemoveEventItem(s, t))
         /\ \A e \in EventList : t \notin ToSet(RemoveEventItem(s, t).events[e])
<1>1. Frees(s, RemoveStateItem(s, t))
  BY DEF KernelState, Frees, RemoveStateItem
<1>2. Frees(s, prvAddTaskToReadyList(s, t))
  BY DEF KernelState, Frees, prvAddTaskToReadyList
<1> DEFINE r == RemoveEventItem(s, t)
<1>3. r.held = s.held /\ \A e \in EventList : r.events[e] = Unlink(s.events[e], t)
  BY DEF KernelState, RemoveEventItem
<1>4. ASSUME NEW e \in EventList PROVE ToSet(Unlink(s.events[e], t)) = ToSet(s.events[e]) \ {t}
  <2>1. s.events[e] \in Seq(Task)
    BY DEF KernelState
  <2> QED
    BY <2>1, RemoveOne
<1> HIDE DEF r
<1>5. Frees(s, r) /\ \A e \in EventList : t \notin ToSet(r.events[e])
  BY <1>3, <1>4 DEF Frees
<1> QED
  BY <1>1, <1>2, <1>5 DEF r

\* A task leaves its ready list,
LEMMA LeaveReadyFrees ==
  ASSUME NEW s \in Good, NEW t \in Task, NEW p
  PROVE  Frees(s, LeaveReadyList(s, t, p))
<1> DEFINE r == RemoveStateItem(s, t)
           v == portRESET_READY_PRIORITY(r, p)
<1>1. s \in KernelState /\ \A e \in EventList : IsInjective(s.events[e])
  BY DEF Good, Shape
<1>2. r \in Good /\ Frees(s, r)
  BY <1>1, RemoveStateGood, ItemFrees
<1>3. LeaveReadyList(s, t, p) = r \/ LeaveReadyList(s, t, p) = v
  BY DEF LeaveReadyList
<1> HIDE DEF r
<1>4. Frees(r, v)
  BY <1>2 DEF Good, KernelState, Frees, portRESET_READY_PRIORITY
<1> HIDE DEF v
<1> QED
  BY <1>2, <1>3, <1>4, FreesTransitive

\* and goes back to one, and then waits for nothing.
LEMMA UnblockFrees ==
  ASSUME NEW s \in Good, NEW t \in Task
  PROVE  /\ Frees(s, Unblock(s, t))
         /\ \A e \in EventList : t \notin ToSet(Unblock(s, t).events[e])
<1> DEFINE a == RemoveStateItem(s, t)
           b == RemoveEventItem(a, t)
           r == prvAddTaskToReadyList(b, t)
<1>1. a \in Good /\ Frees(s, a)
  BY RemoveStateGood, ItemFrees DEF Good, Shape
<1> HIDE DEF a
<1>2. b \in Good /\ Frees(a, b) /\ \A e \in EventList : t \notin ToSet(b.events[e])
  BY <1>1, RemoveEventGood, ItemFrees DEF Good, Shape
<1> HIDE DEF b
<1>3. Frees(b, r)
  BY <1>2, ItemFrees DEF Good, Shape
<1> HIDE DEF r
<1>4. Frees(s, b)
  BY <1>1, <1>2, FreesTransitive
<1>5. Frees(s, r) /\ \A e \in EventList : t \notin ToSet(r.events[e])
  BY <1>2, <1>3, <1>4 DEF Frees
<1> QED
  BY <1>5 DEF Unblock, r, b, a

\* The switch of tasks, and the time before which the tick need not look.
LEMMA SwitchFrees ==
  ASSUME NEW s \in KernelState
  PROVE  /\ Frees(s, vTaskSwitchContext(s)) /\ \A b : Frees(s, YieldIf(s, b))
         /\ Frees(s, prvResetNextTaskUnblockTime(s))
         /\ Frees(s, taskSWITCH_DELAYED_LISTS(s))
<1> DEFINE v == vTaskSwitchContext(s)
<1>1. v.held = s.held /\ v.events = s.events
  <2> DEFINE calm == [s EXCEPT !.yieldPending = FALSE]
             p == CHOOSE q \in calm.top : \A r \in calm.top : r <= q
             n == listGET_OWNER_OF_NEXT_ENTRY(calm.ready[p])
             list == WalkToNext(calm.ready[p])
  <2>1. \/ v = [s EXCEPT !.yieldPending = TRUE] \/ v = [calm EXCEPT !.current = NoTask]
        \/ v = [calm EXCEPT !.current = n, !.ready[p] = list]
    BY DEF vTaskSwitchContext, taskSELECT_HIGHEST_PRIORITY_TASK
  <2> HIDE DEF v, n, p, list
  <2> QED
    BY <2>1, ZenonT(30) DEF KernelState
<1>2. Frees(s, v) /\ Frees(s, s)
  BY <1>1, SameFrees
<1>3. \A b : Frees(s, YieldIf(s, b))
  BY <1>2 DEF YieldIf
<1> HIDE DEF v
<1>4. Frees(s, prvResetNextTaskUnblockTime(s)) /\ Frees(s, taskSWITCH_DELAYED_LISTS(s))
  BY DEF KernelState, Frees, prvResetNextTaskUnblockTime, taskSWITCH_DELAYED_LISTS
<1> QED
  BY <1>2, <1>3, <1>4 DEF v

-----------------------------------------------------------------------------
\* The tasks whose time has come.
LEMMA UnblockAllFrees ==
  ASSUME NEW s \in Good, NEW tasks \in Seq(Task)
  PROVE  Frees(s, UnblockAll(s, tasks))
<1> DEFINE n == Len(tasks)
           T == {r \in Good : Frees(s, r)}
<1>1. n \in Nat
  OBVIOUS
<1>2. PICK a : /\ a[0] = s /\ UnblockAll(s, tasks) = a[n]
               /\ \A i \in 1..n : /\ tasks[i] \in Task /\ a[i - 1] \in Good
                                  /\ a[i] = Unblock(a[i - 1], tasks[i])
  BY UnblockAllSteps
<1> HIDE DEF n
<1>3. s \in T
  BY DEF Frees
<1>4. ASSUME NEW i \in 1..n, a[i - 1] \in T PROVE a[i] \in T
  <2> DEFINE r == a[i - 1]
             v == Unblock(r, tasks[i])
  <2>1. r \in Good /\ Frees(s, r) /\ a[i] = v /\ tasks[i] \in Task
    BY <1>2, <1>4
  <2> HIDE DEF r
  <2>2. v \in Good /\ Frees(r, v)
    BY <2>1, UnblockGood, UnblockFrees DEF Moves
  <2> HIDE DEF v
  <2>3. Frees(s, v)
    BY <2>1, <2>2, FreesTransitive
  <2> QED
    BY <2>1, <2>2, <2>3
<1> HIDE DEF T
<1>5. a[n] \in T
  BY <1>1, <1>2, <1>3, <1>4, StaysIn
<1> QED
  BY <1>2, <1>5 DEF T

\* The tick.
LEMMA IncrementTickFrees ==
  ASSUME NEW s \in Good
  PROVE  Frees(s, xTaskIncrementTick(s).k)
<1>1. s \in KernelState
  BY DEF Good
<1>2. CASE s.schedSusp # 0
  <2> DEFINE r == [s EXCEPT !.pended = @ + 1]
  <2>1. xTaskIncrementTick(s).k = r
    BY <1>2 DEF xTaskIncrementTick, Answer
  <2>2. Frees(s, r)
    BY <1>1, FieldFrees
  <2> QED
    BY <2>1, <2>2
<1>3. CASE s.schedSusp = 0
  <2> DEFINE ticked == [s EXCEPT !.tick = (@ + 1) % TickMod]
             turned == IF ticked.tick = 0 THEN taskSWITCH_DELAYED_LISTS(ticked) ELSE ticked
             tasks == DueTasks(turned)
             woken == UnblockAll(turned, tasks)
             reset == prvResetNextTaskUnblockTime(woken)
             after == UnblockDueTasks(turned)
  <2>1. (s.tick + 1) % TickMod \in Ticks
    <3>1. s.tick + 1 \in Int
      BY <1>1 DEF KernelState, Ticks
    <3> QED
      BY <3>1, TicksWrap
  <2>2. ticked \in KernelState /\ SameLists(s, ticked) /\ ticked.held = s.held
    BY <1>1, <2>1 DEF KernelState, SameLists
  <2>3. ticked \in Good /\ Frees(s, ticked)
    BY <2>2, SameListsGood, SameFrees DEF SameLists
  <2>4. xTaskIncrementTick(s).k = after
    BY <1>3 DEF xTaskIncrementTick, Answer
  <2> HIDE DEF ticked
  <2>5. turned \in Good /\ Frees(ticked, turned)
    <3>1. Frees(ticked, ticked) /\ Frees(ticked, taskSWITCH_DELAYED_LISTS(ticked))
      BY <2>3, SwitchFrees, FieldFrees DEF Good
    <3>2. taskSWITCH_DELAYED_LISTS(ticked) \in Good
      BY <2>3, SwitchListsGood DEF Moves
    <3> QED
      BY <2>3, <3>1, <3>2
  <2>6. after = reset \/ after = turned
    BY DEF UnblockDueTasks
  <2> HIDE DEF turned, after
  <2>7. woken \in Good /\ Frees(turned, woken)
    <3>1. tasks \in Seq(Task)
      BY <2>5, DueTasksTyped
    <3> HIDE DEF tasks
    <3> QED
      BY <2>5, <3>1, UnblockAllGood, UnblockAllFrees DEF Moves
  <2> HIDE DEF woken
  <2>8. Frees(woken, reset)
    BY <2>7, SwitchFrees DEF Good
  <2> HIDE DEF reset
  <2>9. Frees(s, turned)
    BY <2>3, <2>5, FreesTransitive
  <2>10. Frees(s, woken)
    BY <2>7, <2>9, FreesTransitive
  <2>11. Frees(s, reset)
    BY <2>8, <2>10, FreesTransitive
  <2> QED
    BY <2>4, <2>6, <2>9, <2>11
<1> QED
  BY <1>2, <1>3

\* The tasks that were woken while the scheduler was suspended,
LEMMA UnblockPendingFrees ==
  ASSUME NEW s \in Good, NEW tasks \in Seq(Task)
  PROVE  Frees(s, UnblockPending(s, tasks))
<1> DEFINE n == Len(tasks)
           T == {r \in Good : Frees(s, r)}
<1>1. n \in Nat
  OBVIOUS
<1>2. PICK a : /\ a[0] = s /\ UnblockPending(s, tasks) = a[n]
               /\ \A i \in 1..n : /\ tasks[i] \in Task /\ a[i - 1] \in Good
                                  /\ a[i] = FromPending(a[i - 1], tasks[i])
  BY UnblockPendingSteps
<1> HIDE DEF n
<1>3. s \in T
  BY DEF Frees
<1>4. ASSUME NEW i \in 1..n, a[i - 1] \in T PROVE a[i] \in T
  <2> DEFINE r == a[i - 1]
             u == Unblock(r, tasks[i])
             w == [u EXCEPT !.yieldPending = TRUE]
             v == FromPending(r, tasks[i])
  <2>1. r \in Good /\ Frees(s, r) /\ a[i] = v /\ tasks[i] \in Task
    BY <1>2, <1>4
  <2> HIDE DEF r
  <2>2. v \in Good
    BY <2>1, FromPendingGood DEF Moves
  <2>3. v = u \/ v = w
    BY DEF FromPending
  <2> HIDE DEF v
  <2>4. u \in Good /\ Frees(r, u)
    BY <2>1, UnblockGood, UnblockFrees DEF Moves
  <2> HIDE DEF u
  <2>5. Frees(u, w)
    BY <2>4, FieldFrees DEF Good
  <2> HIDE DEF w
  <2>6. Frees(s, u)
    BY <2>1, <2>4, FreesTransitive
  <2>7. Frees(s, w)
    BY <2>5, <2>6, FreesTransitive
  <2> QED
    BY <2>1, <2>2, <2>3, <2>6, <2>7
<1> HIDE DEF T
<1>5. a[n] \in T
  BY <1>1, <1>2, <1>3, <1>4, StaysIn
<1> QED
  BY <1>2, <1>5 DEF T

\* and the ticks that were put off.
LEMMA PendedTicksFrees ==
  ASSUME NEW s \in Good, NEW n \in Nat
  PROVE  Frees(s, InTurn(PendedTick, s, n))
<1> DEFINE T == {r \in Good : Frees(s, r)}
<1>1. PICK a : /\ a[0] = s /\ InTurn(PendedTick, s, n) = a[n]
               /\ \A i \in 1..n : a[i - 1] \in Good /\ a[i] = PendedTick(a[i - 1], i)
  BY PendedTicksSteps
<1>2. s \in T
  BY DEF Frees
<1>3. ASSUME NEW i \in 1..n, a[i - 1] \in T PROVE a[i] \in T
  <2> DEFINE r == a[i - 1]
             ticked == xTaskIncrementTick(r)
             u == ticked.k
             w == [u EXCEPT !.yieldPending = TRUE]
             v == PendedTick(r, i)
  <2>1. r \in Good /\ Frees(s, r) /\ a[i] = v
    BY <1>1, <1>3
  <2> HIDE DEF r
  <2>2. v \in Good
    BY <2>1, PendedTickGood DEF Moves
  <2>3. v = u \/ v = w
    BY DEF PendedTick
  <2> HIDE DEF v
  <2>4. u \in Good /\ Frees(r, u)
    BY <2>1, IncrementTickGood, IncrementTickFrees DEF Moves
  <2> HIDE DEF ticked, u
  <2>5. Frees(u, w)
    BY <2>4, FieldFrees DEF Good
  <2> HIDE DEF w
  <2>6. Frees(s, u)
    BY <2>1, <2>4, FreesTransitive
  <2>7. Frees(s, w)
    BY <2>5, <2>6, FreesTransitive
  <2> QED
    BY <2>1, <2>2, <2>3, <2>6, <2>7
<1> HIDE DEF T
<1>4. a[n] \in T
  BY <1>1, <1>2, <1>3, StaysIn
<1> QED
  BY <1>1, <1>4 DEF T

\* The scheduler is resumed.
LEMMA ResumeAllFrees ==
  ASSUME NEW s \in Good, s.schedSusp = 1
  PROVE  Frees(s, xTaskResumeAll(s).k)
<1> DEFINE resumed == [s EXCEPT !.schedSusp = @ - 1]
           woken == UnblockPending(resumed, s.pending)
           reset == prvResetNextTaskUnblockTime(woken)
           moved == IF s.pending = <<>> THEN resumed ELSE reset
           run == InTurn(PendedTick, moved, s.pended)
           ticked == [run EXCEPT !.pended = 0]
           switched == vTaskSwitchContext(ticked)
<1>1. s \in KernelState /\ s.pending \in Seq(Task) /\ s.pended \in Nat
  BY DEF Good, KernelState
<1>2. resumed \in KernelState /\ SameLists(s, resumed) /\ resumed.schedSusp = 0
      /\ resumed.held = s.held
  <2>1. s.schedSusp - 1 = 0 /\ 0 \in Nat
    OBVIOUS
  <2>2. resumed = [s EXCEPT !.schedSusp = 0]
    BY <2>1
  <2> HIDE DEF resumed, woken, reset, moved, run, ticked, switched
  <2>3. resumed \in KernelState
    BY <1>1, <2>1, <2>2, CountsTyped
  <2> QED
    BY <1>1, <2>2, <2>3, ZenonT(30) DEF KernelState, SameLists
<1>3. resumed \in Good /\ Frees(s, resumed) /\ resumed.pending = s.pending
  BY <1>2, SameListsGood, SameFrees DEF SameLists
<1>4. xTaskResumeAll(s) = IF ticked.yieldPending THEN [k |-> switched, yes |-> TRUE]
                          ELSE [k |-> ticked, yes |-> FALSE]
  BY <1>2 DEF xTaskResumeAll, Answer
<1> HIDE DEF resumed
<1>5. woken \in Good /\ Frees(resumed, woken)
  BY <1>1, <1>3, UnblockPendingGood, UnblockPendingFrees DEF Moves
<1> HIDE DEF woken
<1>6. reset \in Good /\ Frees(woken, reset)
  BY <1>5, ResetUnblockGood, SwitchFrees DEF Moves, Good
<1> HIDE DEF reset
<1>7. moved \in Good /\ Frees(s, moved)
  <2>1. Frees(s, woken)
    BY <1>3, <1>5, FreesTransitive
  <2>2. Frees(s, reset)
    BY <1>6, <2>1, FreesTransitive
  <2> QED
    BY <1>3, <1>6, <2>2
<1> HIDE DEF moved
<1>8. run \in Good /\ Frees(moved, run)
  BY <1>1, <1>7, PendedTicksGood, PendedTicksFrees DEF Moves
<1> HIDE DEF run
<1>9. ticked \in KernelState /\ Frees(run, ticked)
  BY <1>8, FieldFrees DEF Good, KernelState
<1> HIDE DEF ticked
<1>10. Frees(ticked, switched)
  BY <1>9, SwitchFrees
<1> HIDE DEF switched
<1>11. Frees(s, run)
  BY <1>7, <1>8, FreesTransitive
<1>12. Frees(s, ticked)
  BY <1>9, <1>11, FreesTransitive
<1>13. Frees(s, switched)
  BY <1>10, <1>12, FreesTransitive
<1> QED
  BY <1>4, <1>12, <1>13

-----------------------------------------------------------------------------
\* The running task goes to sleep, in no other event list than it is in.
LEMMA AddToDelayedFrees ==
  ASSUME NEW s \in Good, s.current \in Task, NEW ticks, NEW forever
  PROVE  Frees(s, prvAddCurrentTaskToDelayedList(s, ticks, forever))
<1> DEFINE t == s.current
           unset == [s EXCEPT !.aborted[t] = FALSE]
           left == LeaveReadyList(unset, t, s.prio[t])
           wake == (s.tick + ticks) % TickMod
           set == [left EXCEPT !.wake[t] = wake]
           d == vListInsert(set.delayed, t, set.wake)
           o == vListInsert(set.overflow, t, set.wake)
           n == IF wake < set.unblock THEN wake ELSE set.unblock
           never == [left EXCEPT !.suspended = @ \cup {t}]
           later == [set EXCEPT !.overflow = o]
           soon == [set EXCEPT !.delayed = d, !.unblock = n]
           r == prvAddCurrentTaskToDelayedList(s, ticks, forever)
<1>1. r \in {never, later, soon}
  BY DEF prvAddCurrentTaskToDelayedList
<1>2. unset \in KernelState /\ SameLists(s, unset) /\ unset.held = s.held
  BY DEF Good, KernelState, SameLists
<1> HIDE DEF r
<1>3. unset \in Good /\ Frees(s, unset)
  BY <1>2, SameListsGood, SameFrees DEF SameLists
<1> HIDE DEF unset
<1>4. left \in Good /\ Frees(unset, left)
  <2>1. LeaveReadyList(unset, t, s.prio[t]) = RemoveStateItem(unset, t)
        \/ LeaveReadyList(unset, t, s.prio[t]) = portRESET_READY_PRIORITY(RemoveStateItem(unset, t), s.prio[t])
    BY DEF LeaveReadyList
  <2>2. RemoveStateItem(unset, t) \in Good
    BY <1>3, RemoveStateGood
  <2> DEFINE a == RemoveStateItem(unset, t)
             b == portRESET_READY_PRIORITY(a, s.prio[t])
  <2>3. b \in KernelState /\ SameLists(a, b)
    <3> HIDE DEF a
    <3> QED
      BY <2>2 DEF a, Good, KernelState, SameLists, portRESET_READY_PRIORITY
  <2>4. b \in Good
    BY <2>2, <2>3, SameListsGood
  <2> HIDE DEF a, b
  <2> QED
    BY <1>3, <2>1, <2>2, <2>4, LeaveReadyFrees DEF a, b
<1> HIDE DEF left, d, o, n, wake
<1>5. \A x \in {never, later, soon} : x.held = left.held /\ x.events = left.events
  BY <1>4, ZenonT(30) DEF Good, KernelState
<1> HIDE DEF never, later, soon
<1>6. Frees(left, r)
  BY <1>1, <1>5, SameFrees
<1>7. Frees(s, left)
  BY <1>3, <1>4, FreesTransitive
<1> QED
  BY <1>6, <1>7, FreesTransitive DEF r

\* A list that a task is put in does not change what anyone holds.
LEMMA PlaceOnEventListHeld ==
  ASSUME NEW s \in Good, s.current \in Task, NEW e \in EventList, NEW ticks
  PROVE  vTaskPlaceOnEventList(s, e, ticks).held = s.held
<1> DEFINE a == prvAddCurrentTaskToDelayedList(s, ticks, TRUE)
           events == [s.events EXCEPT ![e] = vListInsert(s.events[e], s.current, s.eventValue)]
           r == With(a, events)
<1>1. s \in KernelState /\ s.current \in Task
  BY DEF Good
<1>2. vTaskPlaceOnEventList(s, e, ticks) = r
  <2>1. vTaskPlaceOnEventList(s, e, ticks)
        = prvAddCurrentTaskToDelayedList(With(s, events), ticks, TRUE)
    BY DEF vTaskPlaceOnEventList, With
  <2> HIDE DEF events
  <2> QED
    BY <1>1, <2>1, SleepIgnoresEvents
<1>3. a.held = s.held
  BY AddToDelayedFrees DEF Frees
<1> HIDE DEF a, events
<1>4. r.held = a.held
  BY DEF With
<1> HIDE DEF r
<1> QED
  BY <1>2, <1>3, <1>4

\* To join a ready list frees no less.
LEMMA AddReadyFrees ==
  ASSUME NEW s \in KernelState, NEW t \in Task
  PROVE  Frees(s, prvAddTaskToReadyList(s, t))
BY DEF KernelState, Frees, prvAddTaskToReadyList

\* A change of priority.
LEMMA RequeueFrees ==
  ASSUME NEW s \in Good, NEW t \in Task, NEW p \in Priority, NEW bit
  PROVE  Frees(s, Requeue(s, t, p, bit))
<1> DEFINE left == IF InReadyList(s, t) THEN LeaveReadyList(s, t, bit) ELSE s
           set == [left EXCEPT !.prio[t] = p]
           added == prvAddTaskToReadyList(set, t)
<1>1. s \in KernelState
  BY DEF Good
<1>2. left \in Good /\ Frees(s, left)
  BY <1>1, LeaveReadyGood, LeaveReadyFrees, FieldFrees
<1>3. Requeue(s, t, p, bit) \in {set, added}
  BY DEF Requeue
<1> HIDE DEF left
<1>4. set \in KernelState /\ set.held = left.held /\ set.events = left.events
  BY <1>2 DEF Good, KernelState
<1> HIDE DEF set
<1>5. Frees(s, set)
  BY <1>2, <1>4 DEF Frees
<1>6. Frees(set, added)
  BY <1>4, AddReadyFrees
<1> HIDE DEF added
<1>7. Frees(s, added)
  BY <1>5, <1>6, FreesTransitive
<1> QED
  BY <1>3, <1>5, <1>7

\* The first task of an event list is woken: it waits no more.
LEMMA RemoveFromEventListFrees ==
  ASSUME NEW s \in Good, NEW e \in EventList, s.events[e] # <<>>
  PROVE  LET r == xTaskRemoveFromEventList(s, e).k
         IN Frees(s, r) /\ \A f \in EventList : Head(s.events[e]) \notin ToSet(r.events[f])
<1> DEFINE t == Head(s.events[e])
           urgent == s.prio[t] > s.prio[s.current]
           a == Unblock(s, t)
           b == RemoveEventItem(s, t)
           pending == Append(b.pending, t)
           c == [b EXCEPT !.pending = pending]
           woken == IF s.schedSusp = 0 THEN a ELSE c
           flag == woken.yieldPending \/ urgent
           r == [woken EXCEPT !.yieldPending = flag]
<1>1. s \in KernelState /\ s.events[e] \in Seq(Task) /\ \A f \in EventList : IsInjective(s.events[f])
  BY DEF Good, KernelState, Shape
<1>2. t \in Task
  BY <1>1
<1>3. xTaskRemoveFromEventList(s, e).k = r
  BY DEF xTaskRemoveFromEventList, Answer
<1> HIDE DEF t, urgent
<1>4. a \in KernelState /\ Frees(s, a) /\ \A f \in EventList : t \notin ToSet(a.events[f])
  BY <1>2, UnblockGood, UnblockFrees DEF Moves, Good
<1>5. b \in KernelState /\ Frees(s, b) /\ \A f \in EventList : t \notin ToSet(b.events[f])
  BY <1>1, <1>2, RemoveEventGood, ItemFrees DEF Good
<1> HIDE DEF a, b, pending
<1>6. c.held = b.held /\ c.events = b.events
  BY <1>5 DEF KernelState
<1> HIDE DEF c
<1>7. Frees(s, woken) /\ \A f \in EventList : t \notin ToSet(woken.events[f])
  BY <1>4, <1>5, <1>6 DEF Frees
<1> HIDE DEF woken, flag
<1>8. r.held = woken.held /\ r.events = woken.events
  OBVIOUS
<1> HIDE DEF r
<1>9. Frees(s, r) /\ \A f \in EventList : t \notin ToSet(r.events[f])
  BY <1>7, <1>8 DEF Frees
<1> QED
  BY <1>3, <1>9 DEF t

\* One event,
LEMMA WakeOneFrees ==
  ASSUME NEW s \in Good, NEW e \in EventList
  PROVE  Frees(s, WakeOne(s, e))
<1> DEFINE woken == xTaskRemoveFromEventList(s, e)
           r == YieldIf(woken.k, woken.yes)
<1>1. CASE s.events[e] = <<>>
  BY <1>1 DEF WakeOne, Frees
<1>2. CASE s.events[e] # <<>>
  <2>1. woken.k \in Good /\ Frees(s, woken.k)
    BY <1>2, RemoveFromEventListGood, RemoveFromEventListFrees DEF Moves
  <2>2. WakeOne(s, e) = r
    BY <1>2 DEF WakeOne
  <2> HIDE DEF woken
  <2>3. Frees(woken.k, r)
    BY <2>1, SwitchFrees DEF Good
  <2> HIDE DEF r
  <2> QED
    BY <2>1, <2>2, <2>3, FreesTransitive
<1> QED
  BY <1>1, <1>2

\* or as many as came while the queue was locked.
LEMMA WakeCountedFrees ==
  ASSUME NEW s \in Good, NEW e \in EventList, NEW count \in Int
  PROVE  Frees(s, WakeCounted(s, e, count))
<1> DEFINE T == {r \in Good : Frees(s, r)}
<1>1. PICK n \in Nat :
        \E a : /\ a[0] = s /\ WakeCounted(s, e, count) = a[n]
               /\ \A i \in 1..n : /\ a[i - 1] \in Good /\ a[i - 1].events[e] # <<>>
                                  /\ a[i] = xTaskRemoveFromEventList(a[i - 1], e).k
  BY WakeCountedSteps, ZenonT(30)
<1>2. PICK a : /\ a[0] = s /\ WakeCounted(s, e, count) = a[n]
               /\ \A i \in 1..n : /\ a[i - 1] \in Good /\ a[i - 1].events[e] # <<>>
                                  /\ a[i] = xTaskRemoveFromEventList(a[i - 1], e).k
  BY <1>1
<1>3. s \in T
  BY DEF Frees
<1>4. ASSUME NEW i \in 1..n, a[i - 1] \in T PROVE a[i] \in T
  <2> DEFINE r == a[i - 1]
             v == xTaskRemoveFromEventList(r, e).k
  <2>1. r \in Good /\ Frees(s, r) /\ a[i] = v /\ r.events[e] # <<>>
    BY <1>2, <1>4
  <2> HIDE DEF r
  <2>2. v \in Good /\ Frees(r, v)
    BY <2>1, RemoveFromEventListGood, RemoveFromEventListFrees DEF Moves
  <2> HIDE DEF v
  <2>3. Frees(s, v)
    BY <2>1, <2>2, FreesTransitive
  <2> QED
    BY <2>1, <2>2, <2>3
<1> HIDE DEF T
<1>5. a[n] \in T
  BY <1>2, <1>3, <1>4, StaysIn
<1> QED
  BY <1>2, <1>5 DEF T

\* A time-out is looked at,
LEMMA CheckForTimeOutFrees ==
  ASSUME NEW s \in Good, NEW wait
  PROVE  Frees(s, xTaskCheckForTimeOut(s, wait).k)
<1> DEFINE calm == [s EXCEPT !.aborted[s.current] = FALSE]
           r == xTaskCheckForTimeOut(s, wait).k
<1>1. Frees(s, calm) /\ Frees(s, s)
  BY FieldFrees DEF Good
<1>2. r = s \/ r = calm
  <2>1. CASE s.aborted[s.current]
    BY <2>1 DEF xTaskCheckForTimeOut
  <2>2. CASE ~s.aborted[s.current] /\ wait.left = portMAX_DELAY
    BY <2>2 DEF xTaskCheckForTimeOut
  <2>3. CASE ~s.aborted[s.current] /\ wait.left # portMAX_DELAY
    BY <2>3 DEF xTaskCheckForTimeOut
  <2> QED
    BY <2>1, <2>2, <2>3
<1> HIDE DEF calm, r
<1>3. Frees(s, r)
  BY <1>1, <1>2
<1> QED
  BY <1>3 DEF r

\* and a holder is given the priority of one who waits,
LEMMA InheritFrees ==
  ASSUME NEW s \in Good, NEW holder \in Task \cup {NoTask}, s.current \in Task
  PROVE  Frees(s, xTaskPriorityInherit(s, holder).k)
<1> DEFINE p == s.prio[s.current]
           a == Reprioritise(s, holder, p)
           r == Requeue(a, holder, p, s.prio[holder])
           v == xTaskPriorityInherit(s, holder).k
<1>1. v \in {s, r} /\ (holder = NoTask => v = s)
  BY DEF xTaskPriorityInherit, Answer
<1> HIDE DEF v
<1>2. Frees(s, s)
  BY DEF Frees
<1>3. CASE holder \in Task
  <2>1. p \in Priority /\ s \in KernelState
    BY DEF Good, KernelState
  <2> HIDE DEF p
  <2>2. a \in Good /\ Frees(s, a)
    BY <1>3, <2>1, ReprioritiseGood, FieldFrees DEF Moves
  <2> HIDE DEF a
  <2>3. Frees(a, r)
    BY <1>3, <2>1, <2>2, RequeueFrees
  <2> HIDE DEF r
  <2>4. Frees(s, r)
    BY <2>2, <2>3, FreesTransitive
  <2> QED
    BY <1>1, <1>2, <2>4 DEF v
<1> QED
  BY <1>1, <1>2, <1>3 DEF v

\* or of the others once he has given up.
LEMMA DisinheritAfterTimeoutFrees ==
  ASSUME NEW s \in Good, NEW holder \in Task \cup {NoTask}, NEW waiting \in Priority
  PROVE  Frees(s, vTaskPriorityDisinheritAfterTimeout(s, holder, waiting))
<1> DEFINE p == IF s.base[holder] < waiting THEN waiting ELSE s.base[holder]
           a == Reprioritise(s, holder, p)
           r == Requeue(a, holder, p, p)
           v == vTaskPriorityDisinheritAfterTimeout(s, holder, waiting)
<1>1. v \in {s, r} /\ (holder = NoTask => v = s)
  BY DEF vTaskPriorityDisinheritAfterTimeout
<1> HIDE DEF v
<1>2. Frees(s, s)
  BY DEF Frees
<1>3. CASE holder \in Task
  <2>1. p \in Priority /\ s \in KernelState
    BY <1>3 DEF Good, KernelState
  <2> HIDE DEF p
  <2>2. a \in Good /\ Frees(s, a)
    BY <1>3, <2>1, ReprioritiseGood, FieldFrees DEF Moves
  <2> HIDE DEF a
  <2>3. Frees(a, r)
    BY <1>3, <2>1, <2>2, RequeueFrees
  <2> HIDE DEF r
  <2>4. Frees(s, r)
    BY <2>2, <2>3, FreesTransitive
  <2> QED
    BY <1>1, <1>2, <2>4 DEF v
<1> QED
  BY <1>1, <1>2, <1>3 DEF v

-----------------------------------------------------------------------------
\* A mutex is given back: its holder has one less.
LEMMA DisinheritFrees ==
  ASSUME NEW s \in Good, NEW holder \in Task, IsReady(s, holder), s.held[holder] > 0
  PROVE  Frees([s EXCEPT !.held[holder] = s.held[holder] - 1], xTaskPriorityDisinherit(s, holder).k)
<1> DEFINE n == s.held[holder] - 1
           given == [s EXCEPT !.held[holder] = n]
           base == s.base[holder]
           value == EventValue(base)
           left == LeaveReadyList(given, holder, s.prio[holder])
           set == [left EXCEPT !.prio[holder] = base, !.eventValue[holder] = value]
           r == prvAddTaskToReadyList(set, holder)
           v == xTaskPriorityDisinherit(s, holder).k
<1>1. /\ s \in KernelState /\ NoTask # holder /\ base \in Priority
      /\ value \in 1..MaxPriorities /\ n \in Nat
  <2>1. s \in KernelState /\ NoTask # holder
    BY TaskAssumption DEF Good
  <2>2. base \in Priority /\ s.held[holder] \in Nat
    BY <2>1 DEF KernelState
  <2>3. \A p \in Priority : EventValue(p) \in 1..MaxPriorities
    BY TaskAssumption DEF EventValue, Priority
  <2>4. n \in Nat
    BY <2>2
  <2> QED
    BY <2>1, <2>2, <2>3, <2>4
<1>2. v \in {given, r}
  BY <1>1 DEF xTaskPriorityDisinherit, Answer
<1> HIDE DEF v, value, n
<1>3. given \in Good
  BY <1>1, HeldTyped, SameListsGood
<1> HIDE DEF given
<1>4. left \in Good /\ Frees(given, left)
  BY <1>3, LeaveReadyGood, LeaveReadyFrees
<1> HIDE DEF left, base
<1>5. set \in KernelState /\ set.held = left.held /\ set.events = left.events
  <2>1. left \in KernelState
    BY <1>4 DEF Good
  <2> QED
    BY <1>1, <2>1 DEF KernelState
<1> HIDE DEF set
<1>6. Frees(given, set)
  BY <1>4, <1>5 DEF Frees
<1>7. Frees(set, r)
  BY <1>5, AddReadyFrees
<1> HIDE DEF r
<1>8. Frees(given, r) /\ Frees(given, given)
  BY <1>6, <1>7, FreesTransitive DEF Frees
<1>9. Frees(given, v)
  BY <1>2, <1>8
<1> QED
  BY <1>9 DEF v, given, n

\* What a task does about another: its priority,
LEMMA PrioritySetFrees ==
  ASSUME NEW s \in Good, NEW t \in Task, NEW p \in Priority
  PROVE  Frees(s, vTaskPrioritySet(s, t, p))
<1> DEFINE based == [s EXCEPT !.base[t] = p]
           new == IF s.base[t] = s.prio[t] THEN p ELSE s.prio[t]
           a == Reprioritise(based, t, p)
           set == Requeue(a, t, new, s.prio[t])
           yield == IF p > s.base[t] THEN t # s.current /\ p >= s.prio[s.current]
                    ELSE t = s.current
           r == YieldIf(set, yield)
<1>1. vTaskPrioritySet(s, t, p) = s \/ vTaskPrioritySet(s, t, p) = r
  BY DEF vTaskPrioritySet
<1> HIDE DEF yield
<1>2. s \in KernelState /\ new \in Priority
  BY DEF Good, KernelState
<1> HIDE DEF new
<1>3. based \in Good /\ Frees(s, based)
  <2> HIDE DEF a, set, r
  <2>1. based \in KernelState
    BY <1>2 DEF KernelState
  <2>2. SameLists(s, based)
    BY <1>2, <2>1 DEF KernelState, SameLists
  <2> QED
    BY <1>2, <2>1, <2>2, SameListsGood, FieldFrees
<1> HIDE DEF based
<1>4. a \in Good /\ Frees(based, a)
  BY <1>3, ReprioritiseGood, FieldFrees DEF Good, Moves
<1> HIDE DEF a
<1>5. set \in Good /\ Frees(a, set)
  BY <1>2, <1>4, RequeueGood, RequeueFrees DEF Moves
<1> HIDE DEF set
<1>6. Frees(set, r)
  BY <1>5, SwitchFrees DEF Good
<1> HIDE DEF r
<1>7. Frees(s, a)
  BY <1>3, <1>4, FreesTransitive
<1>8. Frees(s, set)
  BY <1>5, <1>7, FreesTransitive
<1>9. Frees(s, r) /\ Frees(s, s)
  BY <1>6, <1>8, FreesTransitive DEF Frees
<1> QED
  BY <1>1, <1>9

\* its suspension,
LEMMA SuspendFrees ==
  ASSUME NEW s \in Good, NEW t \in Task
  PROVE  Frees(s, vTaskSuspend(s, t))
<1> DEFINE a == RemoveStateItem(s, t)
           left == RemoveEventItem(a, t)
           reset == IF AloneInList(s, t) THEN taskRESET_READY_PRIORITY(left, s.prio[t]) ELSE left
           state == IF reset.note[t].state = "waiting" THEN "none" ELSE reset.note[t].state
           r == [reset EXCEPT !.suspended = @ \cup {t}, !.note[t].state = state]
<1>1. a \in Good /\ Frees(s, a)
  BY RemoveStateGood, ItemFrees DEF Good, Shape
<1> HIDE DEF a
<1>2. left \in Good /\ Frees(a, left)
  BY <1>1, RemoveEventGood, ItemFrees DEF Good, Shape
<1>3. vTaskSuspend(s, t) = r
  BY DEF vTaskSuspend, a
<1> HIDE DEF left, state
<1>4. reset.held = left.held /\ reset.events = left.events
  <2>1. left \in KernelState
    BY <1>2 DEF Good
  <2> HIDE DEF r
  <2> QED
    BY <2>1 DEF taskRESET_READY_PRIORITY, portRESET_READY_PRIORITY, KernelState
<1> HIDE DEF reset
<1>5. r.held = reset.held /\ r.events = reset.events
  OBVIOUS
<1> HIDE DEF r
<1> QED
  BY <1>1, <1>2, <1>3, <1>4, <1>5 DEF Frees

\* that it goes on,
LEMMA WakeSuspendedFrees ==
  ASSUME NEW s \in Good, NEW t \in Task
  PROVE  Frees(s, prvAddTaskToReadyList(RemoveStateItem(s, t), t))
<1> DEFINE a == RemoveStateItem(s, t)
           r == prvAddTaskToReadyList(a, t)
<1>1. a \in Good /\ Frees(s, a)
  BY RemoveStateGood, ItemFrees DEF Good, Shape
<1> HIDE DEF a
<1>2. Frees(a, r)
  BY <1>1, AddReadyFrees DEF Good
<1> HIDE DEF r
<1>3. Frees(s, r)
  BY <1>1, <1>2, FreesTransitive
<1> QED
  BY <1>3 DEF r, a

\* A task that is resumed gives nothing up,
LEMMA ResumeFrees ==
  ASSUME NEW s \in Good, NEW t \in Task
  PROVE  Frees(s, vTaskResume(s, t))
<1> DEFINE a == prvAddTaskToReadyList(RemoveStateItem(s, t), t)
           b == s.prio[t] >= s.prio[s.current]
           r == YieldIf(a, b)
<1>1. CASE t # s.current /\ prvTaskIsTaskSuspended(s, t)
  <2>1. vTaskResume(s, t) = r
    BY <1>1 DEF vTaskResume
  <2> HIDE DEF b
  <2>2. Frees(s, a) /\ a \in KernelState
    BY <1>1, InEventListIff, WakeSuspendedGood, WakeSuspendedFrees
       DEF prvTaskIsTaskSuspended, Moves, Good
  <2> HIDE DEF a
  <2>3. Frees(a, r)
    BY <2>2, SwitchFrees
  <2> HIDE DEF r
  <2> QED
    BY <2>1, <2>2, <2>3, FreesTransitive
<1>2. CASE ~(t # s.current /\ prvTaskIsTaskSuspended(s, t))
  BY <1>2 DEF vTaskResume, Frees
<1> QED
  BY <1>1, <1>2

\* by a handler too.
LEMMA ResumeFromISRFrees ==
  ASSUME NEW s \in Good, NEW t \in Task
  PROVE  Frees(s, xTaskResumeFromISR(s, t))
<1> DEFINE urgent == s.prio[t] >= s.prio[s.current]
           a == prvAddTaskToReadyList(RemoveStateItem(s, t), t)
           b == [a EXCEPT !.yieldPending = @ \/ urgent]
           r == YieldIf(b, urgent)
<1>1. CASE ~prvTaskIsTaskSuspended(s, t)
  BY <1>1 DEF xTaskResumeFromISR, Frees
<1>2. CASE prvTaskIsTaskSuspended(s, t) /\ s.schedSusp = 0
  <2>1. xTaskResumeFromISR(s, t) = r
    BY <1>2 DEF xTaskResumeFromISR
  <2> HIDE DEF urgent
  <2>2. Frees(s, a) /\ a \in Good
    BY <1>2, InEventListIff, WakeSuspendedGood, WakeSuspendedFrees
       DEF prvTaskIsTaskSuspended, Moves
  <2> HIDE DEF a
  <2>3. b \in KernelState /\ b.held = a.held /\ b.events = a.events
    <3>1. b.held = a.held /\ b.events = a.events
      OBVIOUS
    <3> HIDE DEF r
    <3> QED
      BY <2>2, <3>1, YieldFlagGood DEF Moves, Good
  <2> HIDE DEF b
  <2>4. Frees(b, r)
    BY <2>3, SwitchFrees
  <2> HIDE DEF r
  <2>5. Frees(s, b)
    BY <2>2, <2>3 DEF Frees
  <2> QED
    BY <2>1, <2>4, <2>5, FreesTransitive
<1>3. CASE prvTaskIsTaskSuspended(s, t) /\ s.schedSusp # 0
  <2> DEFINE c == [s EXCEPT !.pending = Append(@, t)]
  <2>1. xTaskResumeFromISR(s, t) = c
    BY <1>3 DEF xTaskResumeFromISR
  <2>2. c.held = s.held /\ c.events = s.events
    OBVIOUS
  <2> HIDE DEF c
  <2> QED
    BY <2>1, <2>2, SameFrees
<1> QED
  BY <1>1, <1>2, <1>3

\* or that it sleeps no longer.
LEMMA AbortDelayFrees ==
  ASSUME NEW s \in Good, NEW t \in Task
  PROVE  Frees(s, xTaskAbortDelay(s, t))
<1> DEFINE a == Unblock(s, t)
           waits == InEventList(s, t)
           urgent == s.prio[t] > s.prio[s.current]
           r == [a EXCEPT !.aborted[t] = @ \/ waits, !.yieldPending = @ \/ urgent]
<1>1. xTaskAbortDelay(s, t) = s \/ xTaskAbortDelay(s, t) = r
  BY DEF xTaskAbortDelay
<1> HIDE DEF waits, urgent
<1>2. Frees(s, a)
  BY UnblockFrees
<1> HIDE DEF a
<1>3. r.held = a.held /\ r.events = a.events
  OBVIOUS
<1> HIDE DEF r
<1>4. Frees(s, r) /\ Frees(s, s)
  BY <1>2, <1>3 DEF Frees
<1> QED
  BY <1>1, <1>4

-----------------------------------------------------------------------------
\* What who runs holds, after it has sent to a queue or given a mutex back,
LEMMA SendWithRoomHeld ==
  ASSUME NEW s \in Good, NEW q \in AnyQueue, NEW id \in Queue, NEW item \in Item,
         NEW position \in Position, NEW t \in Task, IsReady(s, t), HeldBy(s, q, t)
  PROVE  SendWithRoom(s, q, id, item, position).k.held
         = IF q.kind = "mutex" /\ q.holder # NoTask
           THEN [s.held EXCEPT ![t] = s.held[t] - 1] ELSE s.held
<1> DEFINE copied == prvCopyDataToQueue(s, q, item, position)
           e == <<id, "receive">>
           a == WakeOne(copied.k, e)
           b == YieldIf(copied.k, copied.yes)
           r == SendWithRoom(s, q, id, item, position)
           held == IF q.kind = "mutex" /\ q.holder # NoTask
                   THEN [s.held EXCEPT ![t] = s.held[t] - 1] ELSE s.held
<1>1. copied.k \in Good
  BY CopyDataGood DEF HeldBy, QueueMoves, Moves
<1>2. copied.k.held = held
  <2>1. CASE q.kind = "mutex" /\ q.holder # NoTask
    <3> DEFINE n == s.held[t] - 1
               given == [s EXCEPT !.held[t] = n]
               v == xTaskPriorityDisinherit(s, t).k
    <3>1. q.holder = t /\ s.held[t] > 0
      BY <2>1 DEF HeldBy
    <3>2. copied.k = v
      BY <2>1, <3>1 DEF prvCopyDataToQueue
    <3>3. Frees(given, v)
      BY <3>1, DisinheritFrees
    <3>4. given.held = [s.held EXCEPT ![t] = n]
      BY DEF Good, KernelState
    <3> HIDE DEF v, given
    <3> QED
      BY <2>1, <3>2, <3>3, <3>4 DEF Frees
  <2>2. CASE q.kind = "mutex" /\ q.holder = NoTask
    <3>1. copied.k = s
      BY <2>2 DEF prvCopyDataToQueue, xTaskPriorityDisinherit, Answer
    <3> HIDE DEF copied
    <3> QED
      BY <2>2, <3>1
  <2>3. CASE q.kind # "mutex"
    <3>1. copied.k = s
      BY <2>3 DEF prvCopyDataToQueue
    <3> HIDE DEF copied
    <3> QED
      BY <2>3, <3>1
  <2> QED
    BY <2>1, <2>2, <2>3
<1>3. e \in EventList
  BY DEF EventList
<1>4. r.k = a \/ r.k = b
  BY DEF SendWithRoom
<1> HIDE DEF copied, e, r, held
<1>5. Frees(copied.k, a)
  BY <1>1, <1>3, WakeOneFrees
<1>6. Frees(copied.k, b)
  BY <1>1, SwitchFrees DEF Good
<1> HIDE DEF a, b
<1>7. r.k.held = held
  BY <1>2, <1>4, <1>5, <1>6 DEF Frees
<1> QED
  BY <1>7 DEF r, held

\* taken an item or a mutex,
LEMMA TakeItemHeld ==
  ASSUME NEW s \in Good, s.current \in Task, NEW q, NEW id \in Queue, NEW again
  PROVE  TakeItem(s, q, id, again).k.held
         = IF q.kind = "mutex" THEN [s.held EXCEPT ![s.current] = s.held[s.current] + 1]
           ELSE s.held
<1> DEFINE t == s.current
           e == <<id, "send">>
           n == s.held[t] + 1
           more == [s EXCEPT !.held[t] = n]
           taken == IF q.kind = "mutex" THEN more ELSE s
           v == WakeOne(taken, e)
           r == TakeItem(s, q, id, again)
<1>1. s \in KernelState /\ e \in EventList
  BY DEF Good, EventList
<1>2. r.k = v
  BY DEF TakeItem
<1>3. n \in Nat
  <2>1. s.held[s.current] \in Nat
    <3> HIDE DEF t, e, n, more, taken, v, r
    <3> QED
      BY <1>1 DEF KernelState
  <2> QED
    BY <2>1
<1>4. taken = IF q.kind = "mutex" THEN more ELSE s
  OBVIOUS
<1>5. more.held = [s.held EXCEPT ![t] = n]
  BY <1>1 DEF KernelState
<1> HIDE DEF n, r, v
<1>6. more \in KernelState /\ SameLists(s, more)
  BY <1>1, <1>3, HeldTyped
<1> HIDE DEF more, taken, e
<1>7. taken \in Good
  BY <1>4, <1>6, SameListsGood
<1>8. Frees(taken, v)
  BY <1>1, <1>7, WakeOneFrees DEF v
<1>9. v.held = taken.held
  BY <1>8 DEF Frees
<1> HIDE DEF t
<1>10. v.held = IF q.kind = "mutex" THEN [s.held EXCEPT ![t] = n] ELSE s.held
  BY <1>4, <1>5, <1>9
<1> QED
  BY <1>2, <1>10 DEF r, t, n

\* sent to a queue that is no mutex or taken an item from one,
LEMMA PlainQueueHeld ==
  ASSUME NEW s \in Good, s.current \in Task, NEW q \in AnyQueue, q.kind # "mutex", NEW id \in Queue
  PROVE  /\ \A again : TakeItem(s, q, id, again).k.held = s.held
         /\ \A item \in Item, position \in Position :
              IsReady(s, s.current) => SendWithRoom(s, q, id, item, position).k.held = s.held
<1>1. ASSUME NEW again
      PROVE  TakeItem(s, q, id, again).k.held = s.held
  <2> DEFINE held == TakeItem(s, q, id, again).k.held
  <2>1. held = IF q.kind = "mutex" THEN [s.held EXCEPT ![s.current] = s.held[s.current] + 1]
               ELSE s.held
    BY TakeItemHeld, ZenonT(30)
  <2> HIDE DEF held
  <2>2. held = s.held
    BY <2>1
  <2> QED
    BY <2>2 DEF held
<1>2. ASSUME NEW item \in Item, NEW position \in Position, IsReady(s, s.current)
      PROVE  SendWithRoom(s, q, id, item, position).k.held = s.held
  <2> DEFINE t == s.current
             held == SendWithRoom(s, q, id, item, position).k.held
  <2>1. HeldBy(s, q, t)
    BY DEF HeldBy
  <2>2. held = IF q.kind = "mutex" /\ q.holder # NoTask
               THEN [s.held EXCEPT ![t] = s.held[t] - 1] ELSE s.held
    BY <1>2, <2>1, SendWithRoomHeld, ZenonT(30)
  <2> HIDE DEF held
  <2>3. held = s.held
    BY <2>2
  <2> QED
    BY <2>3 DEF held
<1> QED
  BY <1>1, <1>2

\* peeked, reset a queue or unlocked it,
LEMMA QueueHeld ==
  ASSUME NEW s \in Good, NEW q \in AnyQueue, NEW id \in Queue
  PROVE  /\ PeekItem(s, q, id).k.held = s.held /\ xQueueGenericReset(s, q, id).k.held = s.held
         /\ UnlockTx(s, q, id).k.held = s.held /\ UnlockRx(s, q, id).k.held = s.held
<1>1. <<id, "send">> \in EventList /\ <<id, "receive">> \in EventList
  BY DEF EventList
<1>2. q.txLock \in Int /\ q.rxLock \in Int
  BY DEF AnyQueue
<1>3. Frees(s, WakeOne(s, <<id, "send">>)) /\ Frees(s, WakeOne(s, <<id, "receive">>))
  BY <1>1, WakeOneFrees
<1>4. /\ Frees(s, WakeCounted(s, <<id, "receive">>, q.txLock))
      /\ Frees(s, WakeCounted(s, <<id, "send">>, q.rxLock))
  BY <1>1, <1>2, WakeCountedFrees
<1> QED
  BY <1>3, <1>4 DEF PeekItem, xQueueGenericReset, UnlockTx, UnlockRx, Frees

\* or been interrupted.
LEMMA QueueIrqHeld ==
  ASSUME NEW s \in Good, NEW q \in AnyQueue, NEW id \in Queue, NEW item, NEW position
  PROVE  /\ q.kind # "mutex" => xQueueGenericSendFromISR(s, q, id, item, position).k.held = s.held
         /\ xQueueGiveFromISR(s, q, id, item).k.held = s.held
         /\ xQueueReceiveFromISR(s, q, id).k.held = s.held
<1> DEFINE a == WakeOne(s, <<id, "receive">>)
           b == WakeOne(s, <<id, "send">>)
<1>1. <<id, "send">> \in EventList /\ <<id, "receive">> \in EventList
  BY DEF EventList
<1>2. a.held = s.held /\ b.held = s.held
  BY <1>1, WakeOneFrees DEF Frees
<1>3. ASSUME q.kind # "mutex"
      PROVE  xQueueGenericSendFromISR(s, q, id, item, position).k \in {s, a}
  <2> DEFINE room == HasRoom(q, position)
             copied == prvCopyDataToQueue(s, q, item, position)
  <2>0. copied.k = s
    BY <1>3 DEF prvCopyDataToQueue
  <2> HIDE DEF room, copied
  <2>1. CASE ~room
    BY <2>1 DEF xQueueGenericSendFromISR, room
  <2>2. CASE room /\ q.txLock = queueUNLOCKED
    BY <2>0, <2>2 DEF xQueueGenericSendFromISR, room, copied
  <2>3. CASE room /\ q.txLock # queueUNLOCKED
    BY <2>0, <2>3 DEF xQueueGenericSendFromISR, room, copied
  <2> QED
    BY <2>1, <2>2, <2>3
<1>4. xQueueGiveFromISR(s, q, id, item).k \in {s, a}
  <2> DEFINE room == HasRoom(q, "back")
  <2> HIDE DEF room
  <2>1. CASE ~room
    BY <2>1 DEF xQueueGiveFromISR, room
  <2>2. CASE room /\ q.txLock = queueUNLOCKED
    BY <2>2 DEF xQueueGiveFromISR, room
  <2>3. CASE room /\ q.txLock # queueUNLOCKED
    BY <2>3 DEF xQueueGiveFromISR, room
  <2> QED
    BY <2>1, <2>2, <2>3
<1>5. xQueueReceiveFromISR(s, q, id).k \in {s, b}
  <2> DEFINE some == ~prvIsQueueEmpty(q)
  <2> HIDE DEF some
  <2>1. CASE ~some
    BY <2>1 DEF xQueueReceiveFromISR, some
  <2>2. CASE some /\ q.rxLock = queueUNLOCKED
    BY <2>2 DEF xQueueReceiveFromISR, some
  <2>3. CASE some /\ q.rxLock # queueUNLOCKED
    BY <2>3 DEF xQueueReceiveFromISR, some
  <2> QED
    BY <2>1, <2>2, <2>3
<1> HIDE DEF a, b
<1> QED
  BY <1>2, <1>3, <1>4, <1>5
=============================================================================
