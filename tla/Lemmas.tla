------------------------------- MODULE Lemmas -------------------------------
(***************************************************************************)
(* Facts about numbers and sequences that the proofs of several components *)
(* need and the libraries do not state: numbers of two digits, for the     *)
(* 64-bit registers that are read and written in halves; induction; the    *)
(* lists of the kernel; and what a fold, or a number of steps, preserves.  *)
(***************************************************************************)
EXTENDS SequencesExt, Integers, WellFoundedInduction, SequenceTheorems,
  FiniteSetTheorems, TLAPS

\* Division of a sum that is below twice the divisor.
LEMMA DivMod ==
  ASSUME NEW m \in Nat, m > 0, NEW a \in 0 .. (2 * m - 1)
  PROVE  /\ a < m => a \div m = 0 /\ a % m = a
         /\ a >= m => a \div m = 1 /\ a % m = a - m
<1>1. CASE a < m
  BY <1>1
<1>2. CASE a >= m
  BY <1>2
<1> QED
  BY <1>1, <1>2

\* A number is its quotient and its remainder,
LEMMA Division ==
  ASSUME NEW x \in Int, NEW m \in Nat, m > 0
  PROVE  x = ((x \div m) * m) + (x % m) /\ x % m \in 0 .. (m - 1) /\ x \div m \in Int
OBVIOUS

\* and as no other multiple of m than 0 is that small,
LEMMA SmallMultiple ==
  ASSUME NEW d \in Int, NEW m \in Nat, m > 0, d * m < m, d * m > 0 - m
  PROVE  d = 0
<1>1. CASE d >= 1
  <2>1. (d - 1) \in Nat /\ (d - 1) * m >= 0
    BY <1>1
  <2>2. (d - 1) * m = d * m - m
    OBVIOUS
  <2> QED
    BY <2>1, <2>2
<1>2. CASE d <= -1
  <2>1. ((0 - 1) - d) \in Nat /\ ((0 - 1) - d) * m >= 0
    BY <1>2
  <2>2. ((0 - 1) - d) * m = (0 - m) - d * m
    OBVIOUS
  <2> QED
    BY <2>1, <2>2
<1> QED
  BY <1>1, <1>2

\* it has only one of each.
LEMMA RemainderIs ==
  ASSUME NEW m \in Nat, m > 0, NEW x \in Int, NEW q \in Int, NEW r \in Nat, r < m, x = q * m + r
  PROVE  x % m = r /\ x \div m = q
<1> DEFINE a == x \div m
           b == x % m
           d == q - a
<1>1. x = a * m + b /\ b \in 0 .. (m - 1) /\ a \in Int
  BY Division
<1> HIDE DEF a, b
<1>2. d * m = q * m - a * m
  BY <1>1
<1>3. d * m = b - r
  <2> DEFINE u == q * m
             v == a * m
  <2>1. u \in Int /\ v \in Int
    BY <1>1
  <2>2. x = u + r /\ x = v + b /\ d * m = u - v
    BY <1>1, <1>2
  <2> HIDE DEF u, v, d
  <2> QED
    BY <1>1, <2>1, <2>2
<1>4. d = 0
  <2>1. d \in Int /\ d * m < m /\ d * m > 0 - m
    BY <1>1, <1>3
  <2> HIDE DEF d
  <2> QED
    BY <2>1, SmallMultiple
<1>5. q = a /\ r = b
  BY <1>1, <1>3, <1>4
<1> QED
  BY <1>5 DEF a, b

\* Addition of one digit to two, of which the high one has room for a carry.
LEMMA DigitSum ==
  ASSUME NEW m \in Nat, NEW h \in Nat, h + 1 < m,
         NEW l \in 0 .. (m - 1), NEW n \in 0 .. (m - 1)
  PROVE  LET high == (h + (l + n) \div m) % m
             low  == (l + n) % m
         IN /\ high \in 0 .. (m - 1) /\ low \in 0 .. (m - 1)
            /\ high = h \/ high = h + 1
            /\ high = h => low >= l
            /\ high * m + low = h * m + l + n
<1> DEFINE high == (h + (l + n) \div m) % m
           low  == (l + n) % m
           product == h * m
<1>0. product \in Nat /\ (h + 1) * m = product + m
  OBVIOUS
<1> HIDE DEF product
<1>1. l + n \in 0 .. (2 * m - 1) /\ m > 0
  OBVIOUS
<1>2. CASE l + n < m
  <2>1. (l + n) \div m = 0 /\ (l + n) % m = l + n
    BY <1>1, <1>2, DivMod
  <2>2. h < m /\ h \in 0 .. (2 * m - 1) /\ h + 0 = h
    OBVIOUS
  <2>3. (h + 0) % m = h
    BY <1>1, <2>2, DivMod
  <2>4. high = h /\ low = l + n
    BY <2>1, <2>3
  <2> HIDE DEF high, low
  <2> QED
    BY <1>0, <1>1, <1>2, <2>4 DEF product
<1>3. CASE l + n >= m
  <2>1. (l + n) \div m = 1 /\ (l + n) % m = l + n - m
    BY <1>1, <1>3, DivMod
  <2>2. h + 1 < m /\ h + 1 \in 0 .. (2 * m - 1)
    OBVIOUS
  <2>3. (h + 1) % m = h + 1
    BY <1>1, <2>2, DivMod
  <2>4. high = h + 1 /\ low = l + n - m
    BY <2>1, <2>3
  <2> HIDE DEF high, low
  <2>5. high * m + low = product + m + (l + n - m)
    BY <1>0, <2>4
  <2> QED
    BY <1>0, <1>1, <1>3, <2>4, <2>5 DEF product
<1> QED
  BY <1>1, <1>2, <1>3

\* The order of numbers of two digits is that of their digits.
LEMMA DigitOrder ==
  ASSUME NEW m \in Nat, NEW h \in Nat, NEW l \in Nat,
         NEW i \in Nat, NEW j \in 0 .. (m - 1),
         h > i \/ (h = i /\ l >= j)
  PROVE  h * m + l >= i * m + j
<1>1. h * m \in Nat /\ i * m \in Nat
  OBVIOUS
<1>2. CASE h > i
  <2>1. PICK d \in Nat : h = i + 1 + d
    <3>1. h - i - 1 \in Nat /\ h = i + 1 + (h - i - 1)
      BY <1>2
    <3> QED
      BY <3>1
  <2>2. h * m = i * m + m + d * m
    BY <2>1
  <2>3. d * m \in Nat
    OBVIOUS
  <2> QED
    BY <1>1, <2>2, <2>3
<1> QED
  BY <1>1, <1>2

-----------------------------------------------------------------------------
\* Induction, for a set of numbers: the numbers that are not in the set have
\* no smallest one.
LEMMA NatSetInduction ==
  ASSUME NEW S, 0 \in S, \A n \in Nat : n \in S => n + 1 \in S
  PROVE  Nat \subseteq S
<1> DEFINE T == Nat \ S
           R == OpToRel(<, Nat)
<1>1. SUFFICES ASSUME T # {} PROVE FALSE
  OBVIOUS
<1>2. PICK x \in T : \A y \in T : ~ (<<y, x>> \in R)
  <2>1. T \subseteq Nat
    OBVIOUS
  <2>2. IsWellFoundedOn(R, Nat)
    BY NatLessThanWellFounded
  <2> HIDE DEF R, T
  <2> QED
    BY <1>1, <2>1, <2>2, WFMin
<1>3. \A y \in Nat : y < x => <<y, x>> \in R
  BY DEF OpToRel
<1>4. \A y \in T : ~ (y < x)
  BY <1>2, <1>3
<1>5. x \in Nat /\ x # 0
  <2>1. x \in Nat /\ x \notin S
    BY <1>2
  <2> HIDE DEF R, T
  <2> QED
    BY <2>1
<1>6. x - 1 \in S /\ (x - 1) + 1 = x
  BY <1>4, <1>5
<1>7. x \in S
  <2>1. x - 1 \in Nat
    BY <1>5
  <2> HIDE DEF R, T
  <2> QED
    BY <1>6, <2>1
<1> QED
  BY <1>2, <1>7
-----------------------------------------------------------------------------
(***************************************************************************)
(* Sequences, for the lists of the kernel.                                 *)
(***************************************************************************)
\* Membership in a sequence.
LEMMA ContainsIff ==
  ASSUME NEW S, NEW s \in Seq(S), NEW x
  PROVE  Contains(s, x) <=> x \in ToSet(s)
BY DEF Contains, ToSet

\* The first n elements.
LEMMA PrefixOf ==
  ASSUME NEW S, NEW s \in Seq(S), NEW n \in 0..Len(s)
  PROVE  /\ SubSeq(s, 1, n) \in Seq(S) /\ Len(SubSeq(s, 1, n)) = n
         /\ \A i \in 1..n : SubSeq(s, 1, n)[i] = s[i]
OBVIOUS

\* The elements from the n-th on.
LEMMA SuffixOf ==
  ASSUME NEW S, NEW s \in Seq(S), NEW n \in 1..(Len(s) + 1)
  PROVE  /\ SubSeq(s, n, Len(s)) \in Seq(S) /\ Len(SubSeq(s, n, Len(s))) = Len(s) - n + 1
         /\ \A i \in 1..(Len(s) - n + 1) : SubSeq(s, n, Len(s))[i] = s[n + i - 1]
OBVIOUS

\* A new element at the end.
LEMMA AppendOne ==
  ASSUME NEW S, NEW s \in Seq(S), NEW x \in S
  PROVE  /\ Append(s, x) \in Seq(S) /\ Len(Append(s, x)) = Len(s) + 1
         /\ ToSet(Append(s, x)) = ToSet(s) \cup {x}
         /\ IsInjective(s) /\ x \notin ToSet(s) => IsInjective(Append(s, x))
<1> DEFINE r == Append(s, x)
<1>1. /\ r \in Seq(S) /\ Len(r) = Len(s) + 1 /\ r[Len(s) + 1] = x
      /\ \A i \in 1..Len(s) : r[i] = s[i]
      /\ DOMAIN s = 1..Len(s) /\ DOMAIN r = 1..(Len(s) + 1) /\ Len(s) \in Nat
  OBVIOUS
<1> HIDE DEF r
<1>2. ToSet(r) = ToSet(s) \cup {x}
  BY <1>1 DEF ToSet
<1>3. ASSUME IsInjective(s), x \notin ToSet(s) PROVE IsInjective(r)
  BY <1>1, <1>3 DEF ToSet, IsInjective
<1> QED
  BY <1>1, <1>2, <1>3 DEF r

\* A new element at position n: where the others are then.
LEMMA InsertElements ==
  ASSUME NEW S, NEW s \in Seq(S), NEW n \in 1..(Len(s) + 1), NEW x \in S
  PROVE  LET r == InsertAt(s, n, x)
         IN /\ r \in Seq(S) /\ Len(r) = Len(s) + 1 /\ DOMAIN r = 1..(Len(s) + 1)
            /\ \A i \in 1..(Len(s) + 1) :
                 r[i] = IF i < n THEN s[i] ELSE IF i = n THEN x ELSE s[i - 1]
<1> DEFINE r == InsertAt(s, n, x)
<1>0. /\ Len(s) \in Nat /\ DOMAIN s = 1..Len(s)
      /\ \A i \in 1..Len(s) : s[i] \in S
  OBVIOUS
<1> DEFINE a == SubSeq(s, 1, n - 1)
           c == SubSeq(s, n, Len(s))
           b == a \o <<x>>
<1>1. a \in Seq(S) /\ Len(a) = n - 1 /\ \A i \in 1..(n - 1) : a[i] = s[i]
  OBVIOUS
<1>2. /\ c \in Seq(S) /\ Len(c) = Len(s) - n + 1
      /\ \A i \in 1..(Len(s) - n + 1) : c[i] = s[n + i - 1]
  BY SuffixOf
<1> HIDE DEF a, c
<1>3. /\ b \in Seq(S) /\ Len(b) = n
      /\ \A i \in 1..n : b[i] = IF i < n THEN s[i] ELSE x
  BY <1>1
<1> HIDE DEF b
<1>4. /\ b \o c \in Seq(S) /\ Len(b \o c) = Len(s) + 1
      /\ \A i \in 1..(Len(s) + 1) : (b \o c)[i] = IF i <= n THEN b[i] ELSE c[i - n]
  <2>1. Len(b) + Len(c) = Len(s) + 1
    BY <1>0, <1>2, <1>3
  <2>2. /\ b \o c \in Seq(S) /\ Len(b \o c) = Len(b) + Len(c)
        /\ \A i \in 1..(Len(b) + Len(c)) :
             (b \o c)[i] = IF i <= Len(b) THEN b[i] ELSE c[i - Len(b)]
    BY <1>2, <1>3, ConcatProperties
  <2> QED
    BY <1>3, <2>1, <2>2
<1>5. \A i \in 1..(Len(s) + 1) : i > n => i - n \in 1..(Len(s) - n + 1) /\ n + (i - n) - 1 = i - 1
  BY <1>0
<1>6. r = b \o c
  BY DEF InsertAt, a, b, c
<1> HIDE DEF r
<1>7. \A i \in 1..(Len(s) + 1) : r[i] = IF i < n THEN s[i] ELSE IF i = n THEN x ELSE s[i - 1]
  BY <1>0, <1>2, <1>3, <1>4, <1>5, <1>6
<1> QED
  BY <1>4, <1>6, <1>7 DEF r

\* A new element at position n.
LEMMA InsertOne ==
  ASSUME NEW S, NEW s \in Seq(S), NEW n \in 1..(Len(s) + 1), NEW x \in S
  PROVE  /\ InsertAt(s, n, x) \in Seq(S) /\ Len(InsertAt(s, n, x)) = Len(s) + 1
         /\ ToSet(InsertAt(s, n, x)) = ToSet(s) \cup {x}
         /\ IsInjective(s) /\ x \notin ToSet(s) => IsInjective(InsertAt(s, n, x))
<1> DEFINE r == InsertAt(s, n, x)
<1>1. /\ Len(s) \in Nat /\ DOMAIN s = 1..Len(s)
      /\ \A i \in 1..Len(s) : s[i] \in S
  OBVIOUS
<1>2. /\ r \in Seq(S) /\ Len(r) = Len(s) + 1 /\ DOMAIN r = 1..(Len(s) + 1)
      /\ \A i \in 1..(Len(s) + 1) :
           r[i] = IF i < n THEN s[i] ELSE IF i = n THEN x ELSE s[i - 1]
  BY InsertElements
<1> HIDE DEF r
<1>3. ToSet(r) = ToSet(s) \cup {x}
  <2>1. ASSUME NEW i \in 1..Len(s) PROVE s[i] \in ToSet(r)
    <3>1. CASE i < n
      BY <3>1, <1>1, <1>2 DEF ToSet
    <3>2. CASE i >= n
      <4>1. i + 1 \in 1..(Len(s) + 1) /\ r[i + 1] = s[i]
        BY <3>2, <1>1, <1>2
      <4> QED
        BY <4>1, <1>2 DEF ToSet
    <3> QED
      BY <3>1, <3>2
  <2>2. r[n] = x /\ n \in DOMAIN r
    BY <1>1, <1>2
  <2>3. ToSet(r) \subseteq ToSet(s) \cup {x}
    BY <1>1, <1>2 DEF ToSet
  <2> QED
    BY <1>1, <2>1, <2>2, <2>3 DEF ToSet
<1>4. ASSUME IsInjective(s), x \notin ToSet(s) PROVE IsInjective(r)
  <2>1. \A i \in 1..Len(s) : s[i] # x
    BY <1>1, <1>4 DEF ToSet
  <2>2. SUFFICES ASSUME NEW i \in 1..(Len(s) + 1), NEW j \in 1..(Len(s) + 1), i < j, r[i] = r[j]
                 PROVE  FALSE
    BY <1>1, <1>2 DEF IsInjective
  <2>3. \A l, m \in 1..Len(s) : s[l] = s[m] => l = m
    BY <1>1, <1>4 DEF IsInjective
  <2>4. CASE j < n
    BY <1>1, <1>2, <2>2, <2>3, <2>4
  <2>5. CASE j = n
    BY <1>1, <1>2, <2>1, <2>2, <2>5
  <2>6. CASE j > n
    <3>1. j - 1 \in 1..Len(s) /\ r[j] = s[j - 1]
      BY <1>1, <1>2, <2>6
    <3>2. CASE i < n
      BY <1>1, <1>2, <2>2, <2>3, <2>6, <3>1, <3>2
    <3>3. CASE i = n
      BY <1>1, <1>2, <2>1, <2>2, <3>1, <3>3
    <3>4. CASE i > n
      <4>1. i - 1 \in 1..Len(s) /\ r[i] = s[i - 1] /\ i - 1 # j - 1
        BY <1>1, <1>2, <2>2, <3>4
      <4> QED
        BY <2>2, <2>3, <3>1, <4>1
    <3> QED
      BY <3>2, <3>3, <3>4
  <2> QED
    BY <2>4, <2>5, <2>6
<1> QED
  BY <1>2, <1>3, <1>4 DEF r

\* The element at position n is taken out: where the others are then.
LEMMA RemoveElements ==
  ASSUME NEW S, NEW s \in Seq(S), NEW n \in 1..Len(s)
  PROVE  LET r == RemoveAt(s, n)
         IN /\ r \in Seq(S) /\ Len(r) = Len(s) - 1 /\ DOMAIN r = 1..(Len(s) - 1)
            /\ \A i \in 1..(Len(s) - 1) : r[i] = IF i < n THEN s[i] ELSE s[i + 1]
<1> DEFINE r == RemoveAt(s, n)
<1>0. Len(s) \in Nat /\ DOMAIN s = 1..Len(s) /\ \A i \in 1..Len(s) : s[i] \in S
  OBVIOUS
<1> DEFINE a == SubSeq(s, 1, n - 1)
           c == SubSeq(s, n + 1, Len(s))
<1>1. a \in Seq(S) /\ Len(a) = n - 1 /\ \A i \in 1..(n - 1) : a[i] = s[i]
  OBVIOUS
<1>2. /\ c \in Seq(S) /\ Len(c) = Len(s) - n
      /\ \A i \in 1..(Len(s) - n) : c[i] = s[n + i]
  <2> DEFINE m == n + 1
  <2>1. m \in 1..(Len(s) + 1) /\ Len(s) - m + 1 = Len(s) - n
        /\ \A i \in 1..(Len(s) - n) : m + i - 1 = n + i
    BY <1>0
  <2>2. c = SubSeq(s, m, Len(s))
    OBVIOUS
  <2> HIDE DEF m, c
  <2>3. /\ c \in Seq(S) /\ Len(c) = Len(s) - m + 1
        /\ \A i \in 1..(Len(s) - m + 1) : c[i] = s[m + i - 1]
    BY <2>1, <2>2, SuffixOf
  <2> QED
    BY <2>1, <2>3
<1>3. r = a \o c
  BY DEF RemoveAt
<1> HIDE DEF a, c, r
<1>4. /\ a \o c \in Seq(S) /\ Len(a \o c) = Len(s) - 1
      /\ \A i \in 1..(Len(s) - 1) : (a \o c)[i] = IF i < n THEN a[i] ELSE c[i - n + 1]
  <2>1. Len(a) + Len(c) = Len(s) - 1
    BY <1>0, <1>1, <1>2
  <2>2. /\ a \o c \in Seq(S) /\ Len(a \o c) = Len(a) + Len(c)
        /\ \A i \in 1..(Len(a) + Len(c)) :
             (a \o c)[i] = IF i <= Len(a) THEN a[i] ELSE c[i - Len(a)]
    BY <1>1, <1>2, ConcatProperties
  <2>3. \A i \in 1..(Len(s) - 1) : (i <= n - 1 <=> i < n) /\ i - (n - 1) = i - n + 1
    BY <1>0
  <2> QED
    BY <1>1, <2>1, <2>2, <2>3
<1>5. \A i \in 1..(Len(s) - 1) :
        i >= n => i - n + 1 \in 1..(Len(s) - n) /\ n + (i - n + 1) = i + 1
  BY <1>0
<1>6. \A i \in 1..(Len(s) - 1) : i < n => i \in 1..(n - 1)
  BY <1>0
<1>7. \A i \in 1..(Len(s) - 1) : r[i] = IF i < n THEN s[i] ELSE s[i + 1]
  BY <1>0, <1>1, <1>2, <1>3, <1>4, <1>5, <1>6
<1> QED
  BY <1>3, <1>4, <1>7 DEF r

\* How often an item is in a list without repetitions.
LEMMA CountOne ==
  ASSUME NEW S, NEW s \in Seq(S), IsInjective(s), NEW x
  PROVE  Cardinality({i \in DOMAIN s : s[i] = x}) = IF x \in ToSet(s) THEN 1 ELSE 0
<1>1. CASE x \in ToSet(s)
  <2>1. PICK n \in DOMAIN s : s[n] = x
    BY <1>1 DEF ToSet
  <2>2. {i \in DOMAIN s : s[i] = x} = {n}
    BY <2>1 DEF IsInjective
  <2> QED
    BY <1>1, <2>2, FS_Singleton
<1>2. CASE x \notin ToSet(s)
  <2>1. {i \in DOMAIN s : s[i] = x} = {}
    BY <1>2 DEF ToSet
  <2> QED
    BY <1>2, <2>1, FS_EmptySet
<1> QED
  BY <1>1, <1>2

\* A set of numbers below a bound has a greatest one.
LEMMA Greatest ==
  ASSUME NEW n \in Nat, NEW S \in SUBSET (0..n), S # {}
  PROVE  \E x \in S : \A y \in S : y <= x
<1> DEFINE T == {m \in Nat : \A U \in SUBSET (0..m) : U # {} => \E x \in U : \A y \in U : y <= x}
<1>1. 0 \in T
  <2> SUFFICES ASSUME NEW U \in SUBSET (0..0), U # {} PROVE \E x \in U : \A y \in U : y <= x
    OBVIOUS
  <2>1. PICK x \in U : TRUE
    OBVIOUS
  <2>2. \A y \in U : y <= x
    OBVIOUS
  <2> QED
    BY <2>2
<1>2. ASSUME NEW m \in Nat, m \in T PROVE m + 1 \in T
  <2> SUFFICES ASSUME NEW U \in SUBSET (0..(m + 1)), U # {} PROVE \E x \in U : \A y \in U : y <= x
    OBVIOUS
  <2>1. CASE m + 1 \in U
    BY <2>1
  <2>2. CASE m + 1 \notin U
    <3>1. U \in SUBSET (0..m)
      BY <2>2
    <3> QED
      BY <3>1, <1>2
  <2> QED
    BY <2>1, <2>2
<1>3. Nat \subseteq T
  <2> HIDE DEF T
  <2> QED
    BY <1>1, <1>2, NatSetInduction
<1> QED
  BY <1>3

\* A set of the numbers from 1 to m that has all the numbers before each of its own
\* starts at 1 and has no gap.
LEMMA InitialSegment ==
  ASSUME NEW m \in Nat, NEW S \in SUBSET (1..m), \A i \in S : \A j \in 1..i : j \in S
  PROVE  Cardinality(S) \in 0..m /\ S = 1..Cardinality(S)
<1>1. CASE S = {}
  BY <1>1, FS_EmptySet
<1>2. CASE S # {}
  <2>1. S \in SUBSET (0..m)
    OBVIOUS
  <2>2. PICK x \in S : \A y \in S : y <= x
    BY ONLY m \in Nat, <1>2, <2>1, Greatest
  <2>3. x \in 1..m /\ S \subseteq 1..x
    BY <2>2
  <2>4. 1..x \subseteq S
    OBVIOUS
  <2>5. Cardinality(1..x) = x
    BY <2>3, FS_Interval
  <2>6. S = 1..x
    BY <2>3, <2>4
  <2>7. Cardinality(S) = x
    BY <2>5, <2>6
  <2> QED
    BY <2>3, <2>6, <2>7
<1> QED
  BY <1>1, <1>2

\* The items of a list are in the order of their values.
Ordered(items, value) ==
  \A i, j \in DOMAIN items : i < j => value[items[i]] <= value[items[j]]

\* The first item of an ordered list has the least value.
LEMMA HeadIsLeast ==
  ASSUME NEW S, NEW s \in Seq(S), s # <<>>, NEW value, Ordered(s, value),
         \A x \in S : value[x] \in Nat
  PROVE  Head(s) \in ToSet(s) /\ \A x \in ToSet(s) : value[Head(s)] <= value[x]
<1>1. Len(s) \in Nat \ {0} /\ DOMAIN s = 1..Len(s) /\ \A i \in 1..Len(s) : s[i] \in S
  OBVIOUS
<1>2. Head(s) = s[1] /\ 1 \in DOMAIN s
  BY <1>1
<1>3. ASSUME NEW i \in DOMAIN s PROVE value[s[1]] <= value[s[i]]
  BY <1>1, <1>3 DEF Ordered
<1> QED
  BY <1>2, <1>3 DEF ToSet

\* It stays ordered without one of its items, whatever becomes of the value of that.
LEMMA OrderedWithout ==
  ASSUME NEW S, NEW s \in Seq(S), NEW n \in 1..Len(s), NEW v, NEW w, Ordered(s, v),
         \A i \in 1..Len(s) : i # n => w[s[i]] = v[s[i]]
  PROVE  Ordered(RemoveAt(s, n), w)
<1> DEFINE r == RemoveAt(s, n)
<1>1. /\ DOMAIN r = 1..(Len(s) - 1) /\ DOMAIN s = 1..Len(s) /\ Len(s) \in Nat
      /\ \A i \in 1..(Len(s) - 1) : r[i] = IF i < n THEN s[i] ELSE s[i + 1]
  BY RemoveElements
<1> HIDE DEF r
<1> SUFFICES ASSUME NEW i \in 1..(Len(s) - 1), NEW j \in 1..(Len(s) - 1), i < j
             PROVE  w[r[i]] <= w[r[j]]
  BY <1>1 DEF Ordered, r
<1> DEFINE a == IF i < n THEN i ELSE i + 1
           b == IF j < n THEN j ELSE j + 1
<1>2. a \in 1..Len(s) /\ b \in 1..Len(s) /\ a < b /\ a # n /\ b # n
  BY <1>1
<1>3. r[i] = s[a] /\ r[j] = s[b]
  BY <1>1
<1> HIDE DEF a, b
<1>4. v[s[a]] <= v[s[b]]
  BY <1>1, <1>2 DEF Ordered
<1> QED
  BY <1>2, <1>3, <1>4

\* And with one more, put behind those of smaller or equal value at its start.
LEMMA OrderedWith ==
  ASSUME NEW S, NEW s \in Seq(S), NEW v, Ordered(s, v), NEW x \in S,
         \A y \in S : v[y] \in Nat,
         NEW n \in 0..Len(s),
         \A i \in 1..n : v[s[i]] <= v[x],
         n < Len(s) => v[x] < v[s[n + 1]]
  PROVE  Ordered(InsertAt(s, n + 1, x), v)
<1> DEFINE m == n + 1
           r == InsertAt(s, m, x)
<1>1. Len(s) \in Nat /\ DOMAIN s = 1..Len(s) /\ m \in 1..(Len(s) + 1) /\ n = m - 1
      /\ \A i \in 1..Len(s) : s[i] \in S
  OBVIOUS
<1> HIDE DEF m
<1>2. /\ r \in Seq(S) /\ Len(r) = Len(s) + 1 /\ DOMAIN r = 1..(Len(s) + 1)
      /\ \A i \in 1..(Len(s) + 1) :
           r[i] = IF i < m THEN s[i] ELSE IF i = m THEN x ELSE s[i - 1]
  BY <1>1, InsertElements
<1> HIDE DEF r
<1>3. ASSUME NEW i \in 1..Len(s), i >= m PROVE v[x] <= v[s[i]]
  <2>1. m \in 1..Len(s) /\ v[x] < v[s[m]] /\ v[s[m]] \in Nat /\ v[x] \in Nat /\ v[s[i]] \in Nat
    BY <1>1, <1>3
  <2>2. v[s[m]] <= v[s[i]]
    BY <1>1, <1>3, <2>1 DEF Ordered
  <2> QED
    BY <2>1, <2>2
<1>4. ASSUME NEW i \in 1..(Len(s) + 1), NEW j \in 1..(Len(s) + 1), i < j
      PROVE  v[r[i]] <= v[r[j]]
  <2>1. CASE j < m
    BY <1>1, <1>2, <1>4, <2>1 DEF Ordered
  <2>2. CASE j = m
    BY <1>1, <1>2, <1>4, <2>2
  <2>3. CASE j > m /\ i < m
    <3>1. j - 1 \in 1..Len(s) /\ i \in 1..Len(s) /\ i < j - 1 /\ r[j] = s[j - 1] /\ r[i] = s[i]
      BY <1>1, <1>2, <1>4, <2>3
    <3> QED
      BY <1>1, <3>1 DEF Ordered
  <2>4. CASE j > m /\ i = m
    <3>1. j - 1 \in 1..Len(s) /\ j - 1 >= m /\ r[j] = s[j - 1] /\ r[i] = x
      BY <1>1, <1>2, <1>4, <2>4
    <3> QED
      BY <1>3, <3>1
  <2>5. CASE j > m /\ i > m
    <3>1. /\ j - 1 \in 1..Len(s) /\ i - 1 \in 1..Len(s) /\ i - 1 < j - 1
          /\ r[j] = s[j - 1] /\ r[i] = s[i - 1]
      BY <1>1, <1>2, <1>4, <2>5
    <3> QED
      BY <1>1, <3>1 DEF Ordered
  <2> QED
    BY <1>1, <1>4, <2>1, <2>2, <2>3, <2>4, <2>5
<1> QED
  BY <1>1, <1>2, <1>4 DEF Ordered, r, m

-----------------------------------------------------------------------------
(***************************************************************************)
(* Steps in turn.  The sets P[0] .. P[n] say where the states are after    *)
(* each of n steps; the i-th step is a function of the state and of i.     *)
(***************************************************************************)
\* A sequence of states that starts in P[0] and whose i-th step leads from
\* P[i - 1] to P[i] ends in P[n].
LEMMA ChainIn ==
  ASSUME NEW n \in Nat, NEW P, NEW a, a[0] \in P[0],
         \A i \in 1..n : a[i - 1] \in P[i - 1] => a[i] \in P[i]
  PROVE  a[n] \in P[n]
<1> DEFINE T == {m \in Nat : m <= n => a[m] \in P[m]}
<1>1. 0 \in T
  OBVIOUS
<1>2. ASSUME NEW m \in Nat, m \in T PROVE m + 1 \in T
  <2> SUFFICES ASSUME m + 1 <= n PROVE a[m + 1] \in P[m + 1]
    OBVIOUS
  <2>1. m + 1 \in 1..n /\ (m + 1) - 1 = m /\ a[m] \in P[m]
    BY <1>2
  <2> QED
    BY <2>1
<1>3. Nat \subseteq T
  <2> HIDE DEF T
  <2> QED
    BY <1>1, <1>2, NatSetInduction
<1> QED
  BY <1>3

StepsWithin(step, n, P) == \A i \in 1..n : \A s \in P[i - 1] : step[<<s, i>>] \in P[i]

IsChain(a, step, b, n) == a = [i \in 0..n |-> IF i = 0 THEN b ELSE step[<<a[i - 1], i>>]]

IsWithin(a, n, P) == \A i \in 0..n : a[i] \in P[i]

\* The states that a function makes in turn exist, and are where they should be.
LEMMA ChainExists ==
  ASSUME NEW n \in Nat, NEW P, NEW b \in P[0], NEW step,
         StepsWithin(step, n, P)
  PROVE  \E a : IsChain(a, step, b, n) /\ IsWithin(a, n, P)
<1> DEFINE Chain(a, m) ==
             /\ a = [i \in 0..m |-> IF i = 0 THEN b ELSE step[<<a[i - 1], i>>]]
             /\ \A i \in 0..m : a[i] \in P[i]
           T == {m \in Nat : m <= n => \E a : Chain(a, m)}
<1>1. 0 \in T
  <2> DEFINE a == [i \in 0..0 |-> b]
  <2>1. Chain(a, 0)
    OBVIOUS
  <2> HIDE DEF Chain
  <2> QED
    BY <2>1
<1>2. ASSUME NEW m \in Nat, m \in T PROVE m + 1 \in T
  <2> SUFFICES ASSUME m + 1 <= n PROVE \E a : Chain(a, m + 1)
    OBVIOUS
  <2>1. PICK a : Chain(a, m)
    BY <1>2
  <2> DEFINE c == [i \in 0..(m + 1) |-> IF i = m + 1 THEN step[<<a[m], i>>] ELSE a[i]]
  <2>2. \A i \in 0..m : c[i] = a[i]
    OBVIOUS
  <2>3. c[m + 1] = step[<<c[m], m + 1>>]
    BY <2>2
  <2>4. DOMAIN c = 0..(m + 1) /\ c = [i \in 0..(m + 1) |-> c[i]]
    OBVIOUS
  <2> HIDE DEF c
  <2>5. \A i \in 0..(m + 1) : c[i] = IF i = 0 THEN b ELSE step[<<c[i - 1], i>>]
    <3> SUFFICES ASSUME NEW i \in 0..(m + 1)
                 PROVE  c[i] = IF i = 0 THEN b ELSE step[<<c[i - 1], i>>]
      OBVIOUS
    <3>1. CASE i = m + 1
      <4>1. i # 0 /\ i - 1 = m
        BY <3>1
      <4> QED
        BY <3>1, <4>1, <2>3
    <3>2. CASE i = 0
      <4>1. a[0] = b /\ 0 \in 0..m
        BY <2>1
      <4> QED
        BY <3>2, <4>1, <2>2
    <3>3. CASE i \in 1..m
      <4>1. i \in 0..m /\ i - 1 \in 0..m /\ i # 0
        BY <3>3
      <4>2. a[i] = step[<<a[i - 1], i>>]
        BY <4>1, <2>1
      <4> QED
        BY <4>1, <4>2, <2>2
    <3> QED
      BY <3>1, <3>2, <3>3
  <2>6. /\ m \in 0..m /\ m + 1 \in 1..n /\ (m + 1) - 1 = m
        /\ \A i \in 0..(m + 1) : i \in 0..m \/ i = m + 1
    OBVIOUS
  <2>7. c[m] \in P[m] /\ \A i \in 0..m : c[i] \in P[i]
    BY <2>1, <2>2, <2>6
  <2>8. c[m + 1] \in P[m + 1]
    <3> DEFINE l == m + 1
    <3>1. l \in 1..n /\ l - 1 = m /\ c[l] = step[<<c[m], l>>]
      BY <2>3, <2>6
    <3> HIDE DEF l
    <3>2. step[<<c[m], l>>] \in P[l]
      BY <2>7, <3>1 DEF StepsWithin
    <3> QED
      BY <3>1, <3>2 DEF l
  <2>9. \A i \in 0..(m + 1) : c[i] \in P[i]
    BY <2>6, <2>7, <2>8
  <2>10. c = [i \in 0..(m + 1) |-> IF i = 0 THEN b ELSE step[<<c[i - 1], i>>]]
    BY <2>4, <2>5
  <2>11. Chain(c, m + 1)
    BY <2>9, <2>10
  <2> HIDE DEF Chain
  <2> QED
    BY <2>11
<1>3. n \in T
  <2> HIDE DEF T
  <2> QED
    BY <1>1, <1>2, NatSetInduction
<1>4. \E a : Chain(a, n)
  <2> HIDE DEF Chain
  <2> QED
    BY <1>3
<1> QED
  BY <1>4 DEF IsChain, IsWithin
=============================================================================
