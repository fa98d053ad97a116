----------------------------- MODULE TcpRxProofs -----------------------------
(***************************************************************************)
(* What the receive half of TcpRx keeps for any stream, windows and        *)
(* buffer, whatever the segments. The proof follows a byte: the walk makes *)
(* items of the segments (WalkInv), the items carry rx_nxt to rx_nxt_inseq *)
(* (Marks), and the user buffer and the item in hand go from the reader to *)
(* what is acknowledged (Buffered). Together they are StreamInv.           *)
(***************************************************************************)
EXTENDS TcpRx, FiniteSetTheorems, SequenceTheorems, WellFoundedInduction, TLAPS

-----------------------------------------------------------------------------
(* The comparisons of sequence.ml are those of the numbers before they      *)
(* wrapped, for any two that are less than half the space apart.             *)

\* Less than half the space lies between x and y.
Near(x, y) == x - y < Half /\ y - x < Half

\* No two numbers of a window of n are a multiple of n apart.
LEMMA NoMultiple ==
  ASSUME NEW n \in Nat \ {0}, NEW k \in Int, n * k < n, n * k > -n
  PROVE  k = 0
<1>1. CASE k >= 1
  <2>1. n * k >= n * 1
    BY <1>1
  <2> QED
    BY <2>1
<1>2. CASE k <= -1
  <2>1. n * k <= n * (-1)
    BY <1>2
  <2> QED
    BY <2>1
<1> QED
  BY <1>1, <1>2

LEMMA Modulus ==
  ASSUME NEW y \in Int, NEW n \in Int, n > 0
  PROVE  y % n = y - n * (y \div n)
  OBVIOUS

LEMMA Quotient ==
  ASSUME NEW y \in Int, NEW n \in Nat \ {0}
  PROVE  y \div n \in Int
  OBVIOUS

\* Wrap takes away a multiple of the size of the space.
LEMMA WrapShift ==
  ASSUME NEW z \in Int
  PROVE  \E k \in Int : Wrap(z) = z - (2 * Half) * k
<1> DEFINE n == 2 * Half
           y == z + Half
           quot == y \div n
<1>1. n \in Nat \ {0} /\ n \in Int /\ n > 0 /\ Half \in Nat /\ y \in Int
  BY HalfAssumption
<1> HIDE DEF n, y
<1>2. quot \in Int
  BY <1>1, Quotient
<1>3. y % n = y - n * quot
  BY <1>1, Modulus
<1>4. Wrap(z) = (y % n) - Half
  BY DEF Wrap, n, y
<1> HIDE DEF quot
<1>5. n * quot \in Int
  BY <1>1, <1>2
<1>6. Wrap(z) = z - n * quot
  BY <1>1, <1>3, <1>4, <1>5 DEF y
<1> QED
  BY <1>2, <1>6 DEF n

LEMMA WrapRange ==
  ASSUME NEW z \in Int
  PROVE  Wrap(z) \in Int /\ -Half <= Wrap(z) /\ Wrap(z) < Half
<1>1. 2 * Half \in Nat \ {0} /\ Half \in Nat
  BY HalfAssumption
<1>2. (z + Half) % (2 * Half) \in 0 .. (2 * Half) - 1
  BY <1>1
<1> QED
  BY <1>1, <1>2 DEF Wrap

LEMMA WrapUnique ==
  ASSUME NEW d \in Int, NEW k \in Int, -Half <= d, d < Half
  PROVE  Wrap(d - (2 * Half) * k) = d
<1> DEFINE n == 2 * Half
           z == d - n * k
<1>1. n \in Nat \ {0} /\ Half \in Nat /\ n = Half + Half
  BY HalfAssumption
<1>2. z \in Int
  BY <1>1
<1>3. PICK j \in Int : Wrap(z) = z - n * j
  BY <1>2, WrapShift
<1>4. -Half <= Wrap(z) /\ Wrap(z) < Half
  BY <1>2, WrapRange
<1>5. Wrap(z) = d - n * (k + j)
  BY <1>1, <1>3
<1> HIDE DEF n, z
<1>6. n * (k + j) \in Int
  BY <1>1
<1>7. n * (k + j) < n /\ n * (k + j) > -n
  BY <1>1, <1>4, <1>5, <1>6
<1>8. k + j = 0
  BY <1>1, <1>7, NoMultiple
<1>9. n * (k + j) = 0
  BY <1>1, <1>8
<1>10. Wrap(z) = d
  BY <1>5, <1>9
<1> QED
  BY <1>10 DEF n, z

(***************************************************************************)
(* The difference of two wrapped numbers is that of the numbers, when less *)
(* than half the space lies between them.                                  *)
(***************************************************************************)
THEOREM DifferenceExact ==
  ASSUME NEW x \in Int, NEW y \in Int, Near(x, y)
  PROVE  SeqSub(Wrap(x), Wrap(y)) = x - y
<1>1. PICK k \in Int : Wrap(x) = x - (2 * Half) * k
  BY WrapShift
<1>2. PICK j \in Int : Wrap(y) = y - (2 * Half) * j
  BY WrapShift
<1>3. Half \in Nat
  BY HalfAssumption
<1>4. Wrap(x) - Wrap(y) = (x - y) - (2 * Half) * (k - j)
  BY <1>1, <1>2, <1>3
<1>5. -Half <= x - y /\ x - y < Half /\ x - y \in Int /\ k - j \in Int
  BY <1>3 DEF Near
<1>6. Wrap((x - y) - (2 * Half) * (k - j)) = x - y
  BY <1>5, WrapUnique
<1> QED
  BY <1>4, <1>6 DEF SeqSub

(***************************************************************************)
(* lt, leq, gt and geq decide the order of the stream.                     *)
(***************************************************************************)
THEOREM OrderExact ==
  ASSUME NEW x \in Int, NEW y \in Int, Near(x, y)
  PROVE  /\ Lt(Wrap(x), Wrap(y)) <=> x < y
         /\ Leq(Wrap(x), Wrap(y)) <=> x <= y
         /\ Gt(Wrap(x), Wrap(y)) <=> x > y
         /\ Geq(Wrap(x), Wrap(y)) <=> x >= y
BY DifferenceExact DEF Lt, Leq, Gt, Geq

(***************************************************************************)
(* Window.valid is exact for any window less than half the space wide      *)
(* (window.ml:98-105).                                                     *)
(***************************************************************************)
THEOREM BetweenExact ==
  ASSUME NEW s \in Int, NEW l \in Int, NEW r \in Int, Near(s, l), Near(s, r)
  PROVE  Between(Wrap(s), Wrap(l), Wrap(r)) <=> l <= s /\ s <= r
BY OrderExact DEF Between

(***************************************************************************)
(* Arithmetic on wrapped numbers stays in step with that on the stream.    *)
(***************************************************************************)
THEOREM AddExact ==
  ASSUME NEW x \in Int, NEW n \in Int
  PROVE  SeqAdd(Wrap(x), n) = Wrap(x + n)
<1>1. PICK k \in Int : Wrap(x) = x - (2 * Half) * k
  BY WrapShift
<1>2. PICK j \in Int : Wrap(x + n) = (x + n) - (2 * Half) * j
  BY WrapShift
<1>3. Half \in Nat
  BY HalfAssumption
<1> DEFINE d == Wrap(x + n)
<1>4. d \in Int /\ -Half <= d /\ d < Half
  BY WrapRange
<1>5. Wrap(x) + n = d - (2 * Half) * (k - j)
  BY <1>1, <1>2, <1>3
<1> HIDE DEF d
<1>6. Wrap(d - (2 * Half) * (k - j)) = d
  BY <1>4, WrapUnique
<1> QED
  BY <1>5, <1>6 DEF SeqAdd, d

-----------------------------------------------------------------------------
(* Numbers *)

\* Induction over the naturals, for a set.
LEMMA SetInduction ==
  ASSUME NEW S, 0 \in S, \A n \in Nat : n \in S => n + 1 \in S
  PROVE  \A n \in Nat : n \in S
<1> DEFINE less == {p \in Nat \X Nat : p[1] < p[2]}
           T == Nat \ S
<1> SUFFICES ASSUME T # {} PROVE FALSE
  OBVIOUS
<1>1. IsWellFoundedOn(less, Nat)
  <2>1. less = OpToRel(<, Nat)
    BY DEF OpToRel
  <2> QED
    BY <2>1, NatLessThanWellFounded
<1>2. PICK m \in T : \A k \in T : <<k, m>> \notin less
  BY <1>1, WFMin
<1>3. m \in Nat /\ m # 0 /\ m - 1 \in Nat
  OBVIOUS
<1>4. <<m - 1, m>> \in less
  BY <1>3
<1>5. m - 1 \in S
  BY <1>2, <1>3, <1>4
<1> QED
  BY <1>3, <1>5

\* The least number of a set.
LEMMA LeastNumber ==
  ASSUME NEW S \in SUBSET Nat, S # {}
  PROVE  \E m \in S : \A k \in S : m <= k
<1> DEFINE less == {p \in Nat \X Nat : p[1] < p[2]}
<1>1. IsWellFoundedOn(less, Nat)
  <2>1. less = OpToRel(<, Nat)
    BY DEF OpToRel
  <2> QED
    BY <2>1, NatLessThanWellFounded
<1>2. PICK m \in S : \A k \in S : <<k, m>> \notin less
  BY <1>1, WFMin
<1>3. \A k \in S : ~ (k < m)
  BY <1>2
<1> QED
  BY <1>2, <1>3

\* What is on the way covers the stream from a to b.
Covers(s, a, b) ==
  IF s = <<>> THEN a = b
  ELSE /\ s[1].seq = a
       /\ s[Len(s)].seq + s[Len(s)].len = b
       /\ \A i \in 1 .. Len(s) - 1 : s[i + 1].seq = s[i].seq + s[i].len

\* One more chunk at the end.
LEMMA CoversAppend ==
  ASSUME NEW s \in Seq(Chunk), NEW c \in Chunk, NEW a, NEW b, Covers(s, a, b), c.seq = b
  PROVE  Append(s, c) \in Seq(Chunk) /\ Covers(Append(s, c), a, b + c.len)
<1> DEFINE t == Append(s, c)
           n == Len(s)
<1>1. n \in Nat /\ t \in Seq(Chunk) /\ Len(t) = n + 1 /\ t[n + 1] = c /\ \A i \in 1 .. n : t[i] = s[i]
  OBVIOUS
<1>2. CASE s = <<>>
  BY <1>1, <1>2 DEF Covers
<1>3. CASE s # <<>>
  <2>1. n >= 1 /\ s[1].seq = a /\ s[n].seq + s[n].len = b
        /\ \A i \in 1 .. n - 1 : s[i + 1].seq = s[i].seq + s[i].len
    BY <1>3 DEF Covers
  <2>2. t[1].seq = a /\ t # <<>>
    BY <1>1, <2>1
  <2>3. t[n + 1].seq + t[n + 1].len = b + c.len
    BY <1>1
  <2>4. \A i \in 1 .. n : t[i + 1].seq = t[i].seq + t[i].len
    <3> SUFFICES ASSUME NEW i \in 1 .. n PROVE t[i + 1].seq = t[i].seq + t[i].len
      OBVIOUS
    <3>1. CASE i = n
      BY <3>1, <1>1, <2>1
    <3>2. CASE i < n
      BY <3>2, <1>1, <2>1
    <3> QED
      BY <3>1, <3>2
  <2> HIDE DEF t, n
  <2>5. Covers(t, a, b + c.len)
    BY <1>1, <2>1, <2>2, <2>3, <2>4 DEF Covers
  <2> QED
    BY <1>1, <2>5 DEF t
<1> QED
  BY <1>1, <1>2, <1>3

\* Two stretches that meet.
LEMMA CoversConcat ==
  ASSUME NEW s \in Seq(Chunk), NEW t \in Seq(Chunk), NEW a, NEW b, NEW c,
         Covers(s, a, b), Covers(t, b, c)
  PROVE  s \o t \in Seq(Chunk) /\ Covers(s \o t, a, c)
<1> DEFINE u == s \o t
           n == Len(s)
           m == Len(t)
<1>1. n \in Nat /\ m \in Nat /\ u \in Seq(Chunk) /\ Len(u) = n + m
      /\ (\A i \in 1 .. n : u[i] = s[i]) /\ \A i \in 1 .. m : u[n + i] = t[i]
  OBVIOUS
<1>2. CASE s = <<>>
  BY <1>2 DEF Covers
<1>3. CASE t = <<>>
  BY <1>3 DEF Covers
<1>4. CASE s # <<>> /\ t # <<>>
  <2>1. n >= 1 /\ s[1].seq = a /\ s[n].seq + s[n].len = b
        /\ \A i \in 1 .. n - 1 : s[i + 1].seq = s[i].seq + s[i].len
    BY <1>4 DEF Covers
  <2>2. m >= 1 /\ t[1].seq = b /\ t[m].seq + t[m].len = c
        /\ \A i \in 1 .. m - 1 : t[i + 1].seq = t[i].seq + t[i].len
    BY <1>4 DEF Covers
  <2>3. u[1] = s[1] /\ u[n] = s[n] /\ u[n + 1] = t[1] /\ u[n + m] = t[m]
    BY <1>1, <2>1, <2>2
  <2>4. \A i \in 1 .. n + m - 1 : u[i + 1].seq = u[i].seq + u[i].len
    <3> SUFFICES ASSUME NEW i \in 1 .. n + m - 1 PROVE u[i + 1].seq = u[i].seq + u[i].len
      OBVIOUS
    <3>1. CASE i < n
      <4>1. u[i] = s[i] /\ u[i + 1] = s[i + 1] /\ i \in 1 .. n - 1
        BY <3>1, <1>1
      <4> QED
        BY <4>1, <2>1
    <3>2. CASE i = n
      BY <3>2, <2>1, <2>2, <2>3
    <3>3. CASE i > n
      <4>1. i - n \in 1 .. m - 1 /\ (i - n) + 1 \in 1 .. m /\ n + (i - n) = i /\ n + ((i - n) + 1) = i + 1
        BY <3>3, <1>1
      <4>2. u[i] = t[i - n] /\ u[i + 1] = t[(i - n) + 1]
        BY <4>1, <1>1
      <4> QED
        BY <4>1, <4>2, <2>2
    <3> QED
      BY <3>1, <3>2, <3>3, <1>1
  <2>5. u # <<>>
    BY <1>1, <2>1
  <2> HIDE DEF u, n, m
  <2>6. Covers(u, a, c)
    BY <1>1, <2>1, <2>2, <2>3, <2>4, <2>5 DEF Covers
  <2> QED
    BY <1>1, <2>6 DEF u
<1> QED
  BY <1>1, <1>2, <1>3, <1>4

\* The first chunk taken off.
LEMMA CoversTail ==
  ASSUME NEW s \in Seq(Chunk), NEW a, NEW b, Covers(s, a, b), s # <<>>
  PROVE  /\ Head(s) \in Chunk /\ Head(s).seq = a
         /\ Tail(s) \in Seq(Chunk) /\ Covers(Tail(s), a + Head(s).len, b)
<1> DEFINE t == Tail(s)
           n == Len(s)
<1>1. n \in Nat /\ n >= 1 /\ Head(s) = s[1] /\ s[1] \in Chunk /\ t \in Seq(Chunk) /\ Len(t) = n - 1
      /\ \A i \in 1 .. n - 1 : t[i] = s[i + 1]
  OBVIOUS
<1>2. s[1].seq = a /\ s[n].seq + s[n].len = b
      /\ \A i \in 1 .. n - 1 : s[i + 1].seq = s[i].seq + s[i].len
  BY DEF Covers
<1>3. CASE n = 1
  <2>1. t = <<>>
    <3>1. Len(t) = 0 /\ t \in Seq(Chunk)
      BY <1>1, <1>3
    <3> HIDE DEF t
    <3> QED
      BY <3>1, EmptySeq
  <2> QED
    BY <1>1, <1>2, <1>3, <2>1 DEF Covers
<1>4. CASE n > 1
  <2>1. t # <<>> /\ t[1] = s[2] /\ t[n - 1] = s[n]
    BY <1>1, <1>4
  <2>2. t[1].seq = a + s[1].len
    BY <2>1, <1>2, <1>4, <1>1
  <2>3. \A i \in 1 .. (n - 1) - 1 : t[i + 1].seq = t[i].seq + t[i].len
    <3> SUFFICES ASSUME NEW i \in 1 .. (n - 1) - 1 PROVE t[i + 1].seq = t[i].seq + t[i].len
      OBVIOUS
    <3>1. t[i] = s[i + 1] /\ t[i + 1] = s[(i + 1) + 1] /\ i + 1 \in 1 .. n - 1
      BY <1>1
    <3> QED
      BY <3>1, <1>2
  <2> HIDE DEF t, n
  <2>4. Covers(t, a + s[1].len, b)
    BY <1>1, <1>2, <2>1, <2>2, <2>3 DEF Covers
  <2> QED
    BY <1>1, <1>2, <2>4 DEF t
<1> QED
  BY <1>1, <1>3, <1>4

-----------------------------------------------------------------------------
\* The recursive functions exist, and are what their definitions say.

\* The walk through any number of segments is a function.
LEMMA WalkExists ==
  ASSUME NEW segs
  PROVE  \A N \in Nat : \E f : f = [n \in 0 .. N |-> IF n = 0 THEN WalkStart(segs) ELSE WalkStep(f[n - 1])]
<1> DEFINE S == {N \in Nat : \E f : f = [n \in 0 .. N |-> IF n = 0 THEN WalkStart(segs) ELSE WalkStep(f[n - 1])]}
<1>1. 0 \in S
  <2> DEFINE g == [n \in 0 .. 0 |-> WalkStart(segs)]
  <2>1. g = [n \in 0 .. 0 |-> IF n = 0 THEN WalkStart(segs) ELSE WalkStep(g[n - 1])]
    OBVIOUS
  <2> HIDE DEF g
  <2> QED
    BY <2>1
<1>2. \A N \in Nat : N \in S => N + 1 \in S
  <2> SUFFICES ASSUME NEW N \in Nat, N \in S PROVE N + 1 \in S
    OBVIOUS
  <2>1. PICK f : f = [n \in 0 .. N |-> IF n = 0 THEN WalkStart(segs) ELSE WalkStep(f[n - 1])]
    OBVIOUS
  <2> DEFINE g == [n \in 0 .. N + 1 |-> IF n = 0 THEN WalkStart(segs) ELSE WalkStep(f[n - 1])]
  <2>2. \A n \in 0 .. N : g[n] = f[n]
    <3> SUFFICES ASSUME NEW n \in 0 .. N PROVE g[n] = f[n]
      OBVIOUS
    <3>1. f[n] = IF n = 0 THEN WalkStart(segs) ELSE WalkStep(f[n - 1])
      BY <2>1
    <3> QED
      BY <3>1
  <2>3. g = [n \in 0 .. N + 1 |-> IF n = 0 THEN WalkStart(segs) ELSE WalkStep(g[n - 1])]
    <3>1. \A n \in 0 .. N + 1 : n # 0 => n - 1 \in 0 .. N
      OBVIOUS
    <3>2. \A n \in 0 .. N + 1 : n # 0 => g[n - 1] = f[n - 1]
      BY <3>1, <2>2
    <3>3. g = [n \in 0 .. N + 1 |-> IF n = 0 THEN WalkStart(segs) ELSE WalkStep(f[n - 1])]
      OBVIOUS
    <3> HIDE DEF g
    <3>4. \A n \in 0 .. N + 1 : (IF n = 0 THEN WalkStart(segs) ELSE WalkStep(f[n - 1]))
                               = (IF n = 0 THEN WalkStart(segs) ELSE WalkStep(g[n - 1]))
      BY <3>2
    <3> QED
      BY <3>3, <3>4
  <2> HIDE DEF g
  <2> QED
    BY <2>3
<1> HIDE DEF S
<1>3. \A N \in Nat : N \in S
  BY <1>1, <1>2, SetInduction
<1> QED
  BY <1>3 DEF S

\* What the walk has found comes step by step from its start.
LEMMA WalkUnfolds ==
  ASSUME NEW segs, Cardinality(segs) \in Nat
  PROVE  \E walk : /\ walk[0] = WalkStart(segs)
                   /\ \A n \in 1 .. Cardinality(segs) : walk[n] = WalkStep(walk[n - 1])
                   /\ Walk(segs) = walk[Cardinality(segs)]
<1> DEFINE N == Cardinality(segs)
           walk[n \in 0 .. N] == IF n = 0 THEN WalkStart(segs) ELSE WalkStep(walk[n - 1])
<1>1. walk = [n \in 0 .. N |-> IF n = 0 THEN WalkStart(segs) ELSE WalkStep(walk[n - 1])]
  BY WalkExists
<1>2. Walk(segs) = walk[N]
  BY DEF Walk
<1> HIDE DEF walk
<1>3. \A n \in 0 .. N : walk[n] = IF n = 0 THEN WalkStart(segs) ELSE WalkStep(walk[n - 1])
  BY <1>1
<1>4. walk[0] = WalkStart(segs) /\ \A n \in 1 .. N : walk[n] = WalkStep(walk[n - 1])
  BY <1>3
<1> QED
  BY <1>2, <1>4

\* The numbers of the stream do not wrap.
NoWrap == StreamEnd + 1 < Half

\* A place in the stream, the FIN left out.
Place(n) == Smaller(n, StreamEnd)

\* A segment is of the stream.
LEMMA SegmentFacts ==
  ASSUME NEW s \in Segments
  PROVE  /\ s.seq \in StreamStart .. StreamEnd + 1 /\ s.seq \in Nat
         /\ s.len \in Nat /\ s.fin \in BOOLEAN /\ s.win \in Nat
         /\ s.len > 0 => s.seq + s.len <= StreamEnd
         /\ s.fin => s.seq + s.len = StreamEnd
<1>1. /\ s.seq \in StreamStart .. StreamEnd + 1
      /\ s.len \in 0 .. MaxLen /\ s.fin \in BOOLEAN /\ s.win \in Windows
      /\ s.seq + s.len <= StreamEnd \/ s.len = 0
      /\ s.fin => s.seq + s.len = StreamEnd
  BY DEF Segments
<1>2. s.seq \in Nat /\ s.len \in Nat /\ s.win \in Nat
  <2>1. s.seq \in Nat
    BY <1>1, RxAssumption
  <2>2. s.len \in Nat
    BY <1>1, RxAssumption
  <2>3. s.win \in Nat
    BY <1>1, RxAssumption
  <2> QED
    BY <2>1, <2>2, <2>3
<1>3. s.len > 0 => s.seq + s.len <= StreamEnd
  BY <1>1, <1>2
<1> QED
  BY <1>1, <1>2, <1>3

\* Int32.compare orders the numbers of such a stream.
LEMMA CompareIsOrder ==
  ASSUME NoWrap, NEW a \in 0 .. StreamEnd + 1, NEW b \in 0 .. StreamEnd + 1
  PROVE  SeqCompare(a, b) = IF a < b THEN -1 ELSE IF a = b THEN 0 ELSE 1
<1>1. ASSUME NEW c \in 0 .. StreamEnd + 1 PROVE Wrap(c) = c
  <2>1. c \in Int /\ -Half <= c /\ c < Half /\ c - (2 * Half) * 0 = c
    BY <1>1, HalfAssumption, RxAssumption DEF NoWrap
  <2> QED
    BY <2>1, WrapUnique
<1> QED
  BY <1>1 DEF SeqCompare, Compare

\* The walk goes on with the segment of the smallest number.
LEMMA LeastIsFirst ==
  ASSUME NoWrap, NEW S \in SUBSET Segments, S # {}
  PROVE  Least(S) \in S /\ \A t \in S : Least(S).seq <= t.seq
<1> DEFINE K == {s.seq : s \in S}
<1>1. K \in SUBSET Nat /\ K # {}
  BY SegmentFacts
<1>2. PICK m \in K : \A k \in K : m <= k
  BY <1>1, LeastNumber
<1>3. PICK s \in S : s.seq = m
  OBVIOUS
<1>4. \A t \in S : s.seq <= t.seq
  BY <1>2, <1>3
<1>5. \A t \in S : t.seq \in 0 .. StreamEnd + 1
  BY SegmentFacts, RxAssumption
<1>6. \A a, b \in S : (SeqCompare(a.seq, b.seq) < 1) <=> (a.seq <= b.seq)
  <2> SUFFICES ASSUME NEW a \in S, NEW b \in S PROVE (SeqCompare(a.seq, b.seq) < 1) <=> (a.seq <= b.seq)
    OBVIOUS
  <2>1. a.seq \in Nat /\ b.seq \in Nat
    BY SegmentFacts
  <2>2. SeqCompare(a.seq, b.seq) = IF a.seq < b.seq THEN -1 ELSE IF a.seq = b.seq THEN 0 ELSE 1
    BY <1>5, CompareIsOrder
  <2> QED
    BY <2>1, <2>2
<1>7. \E x \in S : \A t \in S : SeqCompare(x.seq, t.seq) < 1
  BY <1>3, <1>4, <1>6
<1>8. Least(S) \in S /\ \A t \in S : SeqCompare(Least(S).seq, t.seq) < 1
  BY <1>7 DEF Least
<1> QED
  BY <1>8, <1>6

-----------------------------------------------------------------------------
(* What the walk has found when it has come to some segment. *)

\* Chunks that are not the end of the stream.
Bytes == {c \in Chunk : c.len > 0}

\* A sequence over a set is one over a larger set.
LEMMA SeqMonotone ==
  ASSUME NEW A, NEW B, A \subseteq B, NEW s \in Seq(A)
  PROVE  s \in Seq(B)
  OBVIOUS

WalkState == [nxt : Nat, data : Seq(Bytes), win : Nat, fin : BOOLEAN, waiting : SUBSET Segments,
              force : BOOLEAN, rest : SUBSET Segments]

WalkInv(acc) ==
  /\ acc \in WalkState
  /\ rx_nxt_inseq <= acc.nxt /\ acc.nxt <= StreamEnd + 1
  /\ Covers(acc.data, Place(rx_nxt_inseq), Place(acc.nxt))
  /\ acc.fin => acc.nxt = StreamEnd + 1
  /\ \A s \in acc.waiting : s.seq > acc.nxt /\ \A t \in acc.rest : s.seq <= t.seq

\* A segment that is next joins what is ready (Visit, Ready).
LEMMA ReadySound ==
  ASSUME rx_nxt_inseq \in StreamStart .. StreamEnd + 1, NEW acc, WalkInv(acc),
         NEW seg \in acc.rest, seg.seq = acc.nxt
  PROVE  WalkInv(Ready(acc, seg))
<1>1. seg \in Segments
  BY DEF WalkInv, WalkState
<1>2. /\ seg.seq \in Nat /\ seg.len \in Nat /\ seg.fin \in BOOLEAN /\ seg.win \in Nat
      /\ seg.len > 0 => seg.seq + seg.len <= StreamEnd
      /\ seg.fin => seg.seq + seg.len = StreamEnd
  BY <1>1, SegmentFacts
<1>3. /\ acc \in WalkState /\ acc.nxt \in Nat /\ rx_nxt_inseq <= acc.nxt /\ acc.nxt <= StreamEnd + 1
      /\ acc.data \in Seq(Bytes) /\ Covers(acc.data, Place(rx_nxt_inseq), Place(acc.nxt))
      /\ \A s \in acc.waiting : s.seq > acc.nxt /\ \A t \in acc.rest : s.seq <= t.seq
  BY DEF WalkInv, WalkState
<1>4. acc.waiting = {}
  <2> SUFFICES ASSUME NEW s \in acc.waiting PROVE FALSE
    OBVIOUS
  <2>1. s \in Segments
    BY <1>3 DEF WalkState
  <2>2. s.seq \in Nat
    BY <2>1, SegmentFacts
  <2> QED
    BY <2>2, <1>2, <1>3
<1> DEFINE n == acc.nxt + SegLen(seg)
           c == [seq |-> seg.seq, len |-> seg.len]
           d == IF seg.len > 0 THEN Append(acc.data, c) ELSE acc.data
           r == Ready(acc, seg)
<1>5. r = [acc EXCEPT !.nxt = n, !.win = seg.win, !.fin = seg.fin, !.data = d]
  BY DEF Ready
<1>6. StreamEnd \in Nat /\ StreamStart \in Nat
  BY RxAssumption
<1>7. n \in Nat /\ rx_nxt_inseq <= n /\ n <= StreamEnd + 1 /\ (seg.fin => n = StreamEnd + 1)
  BY <1>2, <1>3, <1>6 DEF SegLen
<1>8. d \in Seq(Bytes) /\ Covers(d, Place(rx_nxt_inseq), Place(n))
  <2>1. CASE seg.len > 0
    <3>1. c \in Chunk /\ c.seq = Place(acc.nxt) /\ c.len = seg.len
      BY <1>2, <1>3, <1>6, <2>1 DEF Chunk, Place, Smaller
    <3>0. c \in Bytes
      BY <2>1, <3>1 DEF Bytes
    <3>3. acc.data \in Seq(Chunk)
      BY <1>3, SeqMonotone DEF Bytes
    <3>2. Place(acc.nxt) + seg.len = Place(n)
      BY <1>2, <1>3, <1>6, <2>1 DEF Place, Smaller, SegLen
    <3> HIDE DEF c, n
    <3>4. Covers(Append(acc.data, c), Place(rx_nxt_inseq), Place(n))
      BY <3>1, <3>2, <3>3, <1>3, CoversAppend
    <3>5. Append(acc.data, c) \in Seq(Bytes)
      BY <1>3, <3>0
    <3> QED
      BY <2>1, <3>4, <3>5
  <2>2. CASE ~(seg.len > 0)
    <3>1. Place(n) = Place(acc.nxt)
      BY <1>2, <1>3, <1>6, <2>2 DEF Place, Smaller, SegLen
    <3> HIDE DEF n
    <3> QED
      BY <1>3, <2>2, <3>1
  <2> QED
    BY <2>1, <2>2
<1> HIDE DEF n, d
<1>9. r \in WalkState
  BY <1>2, <1>3, <1>5, <1>7, <1>8 DEF WalkState
<1>10. r.nxt = n /\ r.data = d /\ r.fin = seg.fin /\ r.waiting = {}
  BY <1>3, <1>4, <1>5 DEF WalkState
<1> HIDE DEF r
<1>11. WalkInv(r)
  BY <1>7, <1>8, <1>9, <1>10 DEF WalkInv
<1> QED
  BY <1>11 DEF r

\* A step of the walk, whatever the segment.
LEMMA WalkStepSound ==
  ASSUME NoWrap, rx_nxt_inseq \in StreamStart .. StreamEnd + 1,
         NEW acc, WalkInv(acc), acc.rest # {}
  PROVE  /\ WalkInv(WalkStep(acc))
         /\ \E seg \in acc.rest : WalkStep(acc).rest = acc.rest \ {seg}
         /\ WalkStep(acc).waiting \subseteq acc.waiting \cup acc.rest
<1> DEFINE seg == Least(acc.rest)
           v == Visit(acc, seg)
<1>1. acc \in WalkState /\ acc.rest \in SUBSET Segments /\ acc.waiting \in SUBSET Segments /\ acc.nxt \in Nat
  BY DEF WalkInv, WalkState
<1>2. seg \in acc.rest /\ \A t \in acc.rest : seg.seq <= t.seq
  BY <1>1, LeastIsFirst
<1> HIDE DEF seg
<1>3. seg.seq \in Nat /\ seg.seq <= StreamEnd + 1 /\ seg \in Segments
  BY <1>1, <1>2, SegmentFacts
<1>4. SeqCompare(seg.seq, acc.nxt) = IF seg.seq < acc.nxt THEN -1 ELSE IF seg.seq = acc.nxt THEN 0 ELSE 1
  <2>1. seg.seq \in 0 .. StreamEnd + 1 /\ acc.nxt \in 0 .. StreamEnd + 1
    BY <1>1, <1>3, RxAssumption DEF WalkInv
  <2> QED
    BY <2>1, CompareIsOrder
<1>5. WalkInv(v) /\ v.rest = acc.rest /\ v.waiting \subseteq acc.waiting \cup {seg}
  <2>1. CASE seg.seq < acc.nxt
    <3>1. v = [acc EXCEPT !.force = TRUE]
      BY <1>4, <2>1, <1>1, <1>3 DEF Visit
    <3> QED
      BY <3>1, <1>1 DEF WalkInv, WalkState
  <2>2. CASE seg.seq = acc.nxt
    <3>1. v = Ready(acc, seg)
      BY <1>4, <2>2, <1>1, <1>3 DEF Visit
    <3>2. WalkInv(v)
      BY <3>1, <1>2, <2>2, ReadySound
    <3>3. v.rest = acc.rest /\ v.waiting = acc.waiting
      BY <3>1, <1>1 DEF Ready, WalkState
    <3> QED
      BY <3>2, <3>3
  <2>3. CASE seg.seq > acc.nxt
    <3>1. v = [acc EXCEPT !.force = TRUE, !.waiting = @ \cup {seg}]
      BY <1>4, <2>3, <1>1, <1>3 DEF Visit
    <3>2. v \in WalkState /\ v.nxt = acc.nxt /\ v.data = acc.data /\ v.fin = acc.fin
          /\ v.waiting = acc.waiting \cup {seg} /\ v.rest = acc.rest
      BY <3>1, <1>1, <1>3 DEF WalkState
    <3>3. \A s \in v.waiting : s.seq > v.nxt /\ \A t \in v.rest : s.seq <= t.seq
      BY <3>2, <1>2, <2>3 DEF WalkInv
    <3> QED
      BY <3>2, <3>3 DEF WalkInv
  <2> QED
    BY <2>1, <2>2, <2>3, <1>1, <1>3
<1> DEFINE w == WalkStep(acc)
<1>6. w = [v EXCEPT !.rest = @ \ {seg}]
  BY DEF WalkStep, seg
<1> HIDE DEF v
<1>7. v \in WalkState
  BY <1>5 DEF WalkInv
<1>8. w \in WalkState /\ w.nxt = v.nxt /\ w.data = v.data /\ w.fin = v.fin /\ w.waiting = v.waiting
      /\ w.rest = acc.rest \ {seg}
  BY <1>5, <1>6, <1>7 DEF WalkState
<1> HIDE DEF w
<1>9. WalkInv(w)
  BY <1>5, <1>8 DEF WalkInv
<1>10. w.waiting \subseteq acc.waiting \cup acc.rest
  BY <1>2, <1>5, <1>8
<1> QED
  BY <1>2, <1>8, <1>9, <1>10 DEF w

\* What Rx.input makes of the segments it has.
LEMMA WalkSound ==
  ASSUME NoWrap, rx_nxt_inseq \in StreamStart .. StreamEnd + 1,
         NEW segs \in SUBSET Segments, IsFiniteSet(segs)
  PROVE  WalkInv(Walk(segs)) /\ Walk(segs).waiting \subseteq segs
<1> DEFINE N == Cardinality(segs)
<1>1. N \in Nat
  BY FS_CardinalityType
<1>2. PICK walk : /\ walk[0] = WalkStart(segs)
                  /\ \A n \in 1 .. N : walk[n] = WalkStep(walk[n - 1])
                  /\ Walk(segs) = walk[N]
  BY <1>1, WalkUnfolds
<1> DEFINE Good(n) == /\ WalkInv(walk[n])
                      /\ walk[n].rest \subseteq segs /\ walk[n].waiting \subseteq segs
                      /\ Cardinality(walk[n].rest) = N - n
           S == {n \in Nat : n <= N => Good(n)}
<1> HIDE DEF N
<1>3. 0 \in S
  <2>1. walk[0] = [nxt |-> rx_nxt_inseq, data |-> <<>>, win |-> 0, fin |-> FALSE,
                    waiting |-> {}, force |-> FALSE, rest |-> segs]
    BY <1>2 DEF WalkStart
  <2>2. walk[0] \in WalkState
    BY <2>1, RxAssumption DEF WalkState
  <2>3. Covers(walk[0].data, Place(rx_nxt_inseq), Place(walk[0].nxt))
    BY <2>1 DEF Covers
  <2>4. walk[0].nxt = rx_nxt_inseq /\ walk[0].fin = FALSE /\ walk[0].waiting = {} /\ walk[0].rest = segs
    BY <2>1
  <2>5. WalkInv(walk[0])
    BY <2>2, <2>3, <2>4, RxAssumption DEF WalkInv
  <2> QED
    BY <1>1, <2>4, <2>5 DEF N
<1>4. \A n \in Nat : n \in S => n + 1 \in S
  <2> SUFFICES ASSUME NEW n \in Nat, n \in S, n + 1 <= N PROVE Good(n + 1)
    OBVIOUS
  <2>1. Good(n)
    BY <1>1
  <2>2. walk[n + 1] = WalkStep(walk[n])
    <3>1. n + 1 \in 1 .. N /\ (n + 1) - 1 = n
      BY <1>1
    <3> QED
      BY <3>1, <1>2
  <2>3. IsFiniteSet(walk[n].rest)
    BY <2>1, FS_Subset
  <2>4. walk[n].rest # {}
    BY <1>1, <2>1, FS_EmptySet
  <2>5. /\ WalkInv(walk[n + 1])
        /\ walk[n + 1].waiting \subseteq walk[n].waiting \cup walk[n].rest
    BY <2>1, <2>2, <2>4, WalkStepSound
  <2>6. PICK seg \in walk[n].rest : walk[n + 1].rest = walk[n].rest \ {seg}
    BY <2>1, <2>2, <2>4, WalkStepSound
  <2>7. Cardinality(walk[n + 1].rest) = Cardinality(walk[n].rest) - 1
    <3> DEFINE R == walk[n].rest
    <3>1. IsFiniteSet(R) /\ seg \in R
      BY <2>3, <2>6
    <3> HIDE DEF R
    <3>2. Cardinality(R \ {seg}) = Cardinality(R) - 1
      BY <3>1, FS_RemoveElement
    <3> QED
      BY <2>6, <3>2 DEF R
  <2>8. Cardinality(walk[n + 1].rest) = N - (n + 1)
    BY <1>1, <2>1, <2>7
  <2> QED
    BY <2>1, <2>5, <2>6, <2>8
<1> HIDE DEF S
<1>5. \A n \in Nat : n \in S
  BY <1>3, <1>4, SetInduction
<1>6. Good(N)
  BY <1>1, <1>5 DEF S
<1> QED
  BY <1>2, <1>6

\* Chunks lead on, never back.
LEMMA CoversGrows ==
  ASSUME NEW s \in Seq(Chunk), NEW a \in Nat, NEW b \in Nat, Covers(s, a, b)
  PROVE  a <= b
<1>1. CASE s = <<>>
  BY <1>1 DEF Covers
<1>2. CASE s # <<>>
  <2> DEFINE S == {n \in Nat : n + 1 <= Len(s) => a <= s[n + 1].seq}
  <2>1. Len(s) \in Nat /\ Len(s) >= 1 /\ \A i \in 1 .. Len(s) : s[i].seq \in Nat /\ s[i].len \in Nat
    BY <1>2 DEF Chunk
  <2>2. /\ s[1].seq = a /\ s[Len(s)].seq + s[Len(s)].len = b
        /\ \A i \in 1 .. Len(s) - 1 : s[i + 1].seq = s[i].seq + s[i].len
    BY <1>2 DEF Covers
  <2>3. 0 \in S
    BY <2>2
  <2>4. \A n \in Nat : n \in S => n + 1 \in S
    <3> SUFFICES ASSUME NEW n \in Nat, n \in S, (n + 1) + 1 <= Len(s) PROVE a <= s[(n + 1) + 1].seq
      OBVIOUS
    <3>1. n + 1 \in 1 .. Len(s) - 1 /\ n + 1 \in 1 .. Len(s) /\ n + 1 <= Len(s)
      BY <2>1
    <3>2. s[(n + 1) + 1].seq = s[n + 1].seq + s[n + 1].len
      BY <2>2, <3>1
    <3>3. a <= s[n + 1].seq
      BY <3>1
    <3>4. s[n + 1].seq \in Nat /\ s[n + 1].len \in Nat
      BY <2>1, <3>1
    <3> HIDE DEF S
    <3> QED
      BY <3>2, <3>3, <3>4
  <2>5. Len(s) - 1 \in S
    <3> HIDE DEF S
    <3> QED
      BY <2>1, <2>3, <2>4, SetInduction
  <2>6. a <= s[Len(s)].seq
    BY <2>1, <2>5
  <2>7. s[Len(s)].seq \in Nat /\ s[Len(s)].len \in Nat
    BY <2>1
  <2> QED
    BY <2>2, <2>6, <2>7
<1> QED
  BY <1>1, <1>2

-----------------------------------------------------------------------------
(* The stream on its way: it is in order from the reader to rx_nxt_inseq,   *)
(* and the parts of it that are put and taken carry the advances of rx_nxt. *)

\* rx_nxt when the item in hand has been acknowledged.
Acked == rx_nxt + IF rx.pc = "got" THEN Larger(rx.adv, 0) ELSE 0

\* mark[i] is what rx_nxt will be after the i-th item that was put.
Marks(mark) ==
  /\ mark \in [0 .. Len(rx_data) -> Nat]
  /\ mark[0] = Acked /\ mark[Len(rx_data)] = rx_nxt_inseq
  /\ \A i \in 0 .. Len(rx_data) : mark[i] <= rx_nxt_inseq
  /\ \A i \in 1 .. Len(rx_data) :
       /\ mark[i] = mark[i - 1] + Larger(rx_data[i].adv, 0)
       /\ Covers(rx_data[i].elems, Place(mark[i - 1]), Place(mark[i]))

\* The user buffer ends at m, and the item in hand goes on from there.
Buffered(m) ==
  /\ m \in Nat
  /\ Covers(q, read_nxt, m)
  /\ Covers(rx.elems, m, Place(Acked))
  /\ cur_size = m - read_nxt + IF rx.pc = "blocked" THEN Head(rx.elems).len ELSE 0

\* What the network side keeps: the segments that wait are ahead.
NetworkInv ==
  /\ rx_nxt_inseq \in StreamStart .. StreamEnd + 1
  /\ waiting \in SUBSET Segments /\ IsFiniteSet(waiting) /\ WaitingAhead
  /\ tx_ack \in Seq([told : Nat, win : Nat])

\* What is put for the receive thread, and the item it has in hand.
ItemsInv ==
  /\ rx_data \in Seq(Item)
  /\ rx \in [pc : {"take", "got", "ack", "queue", "blocked"}, adv : Nat \cup {NoAdvance}, elems : Seq(Chunk)]
  /\ rx.pc = "take" => rx.elems = <<>>
  /\ rx.pc = "blocked" => rx.elems # <<>>
  /\ rx_nxt \in Nat /\ StreamStart <= rx_nxt
  /\ \E mark : Marks(mark)

\* The user buffer and its reader.
BufferInv ==
  /\ q \in Seq(Chunk)
  /\ reader \in BOOLEAN /\ (reader => q = <<>>)
  /\ read_nxt \in Nat /\ StreamStart <= read_nxt
  /\ eof_read \in BOOLEAN /\ (eof_read => ~reader /\ read_nxt = StreamEnd)
  /\ \E m : Buffered(m)

StreamInv == NetworkInv /\ ItemsInv /\ BufferInv

\* rx_nxt only advances.
LEMMA AckedType ==
  ASSUME ItemsInv
  PROVE  Acked \in Nat /\ rx_nxt <= Acked
<1>1. rx_nxt \in Nat /\ rx.adv \in Nat \cup {-1}
  BY DEF ItemsInv, NoAdvance
<1> QED
  BY <1>1 DEF Acked, Larger

\* A place is of the stream.
LEMMA PlaceType ==
  ASSUME NEW n \in Nat
  PROVE  Place(n) \in Nat /\ Place(n) <= StreamEnd /\ Place(n) <= n
  BY RxAssumption DEF Place, Smaller

\* Nothing has been received at first.
LEMMA InitStream == Init => StreamInv
<1> SUFFICES ASSUME Init PROVE StreamInv
  OBVIOUS
<1>1. StreamStart \in Nat /\ StreamEnd \in Nat /\ StreamStart <= StreamEnd
  BY RxAssumption
<1>2. NetworkInv
  BY <1>1, FS_EmptySet DEF Init, NetworkInv, WaitingAhead
<1>3. Acked = StreamStart
  BY <1>1 DEF Init, Acked
<1>4. ItemsInv
  <2>1. Marks([i \in 0 .. 0 |-> StreamStart])
    BY <1>1, <1>3 DEF Init, Marks
  <2>2. rx_data \in Seq(Item) /\ rx.pc = "take" /\ rx.elems = <<>>
        /\ rx \in [pc : {"take", "got", "ack", "queue", "blocked"}, adv : Nat \cup {NoAdvance}, elems : Seq(Chunk)]
    BY DEF Init
  <2> QED
    BY <1>1, <2>1, <2>2 DEF Init, ItemsInv
<1>5. BufferInv
  <2>1. Buffered(StreamStart)
    BY <1>1, <1>3 DEF Init, Buffered, Covers, Place, Smaller
  <2>2. q \in Seq(Chunk) /\ reader = FALSE /\ eof_read = FALSE /\ read_nxt = StreamStart
    BY DEF Init
  <2>3. /\ reader \in BOOLEAN /\ (reader => q = <<>>)
        /\ eof_read \in BOOLEAN /\ (eof_read => ~reader /\ read_nxt = StreamEnd)
    BY <2>2
  <2> QED
    BY <1>1, <2>1, <2>2, <2>3 DEF BufferInv
<1> QED
  BY <1>2, <1>4, <1>5 DEF StreamInv

\* Steps of the transmit side and of the timer.
LEMMA FrameStream ==
  ASSUME StreamInv, UNCHANGED <<rx_nxt_inseq, rx_nxt, waiting, rx_data, rx, buffer>>,
         tx_ack' = tx_ack \/ (tx_ack' = Tail(tx_ack) /\ tx_ack # <<>>)
  PROVE  StreamInv'
<1>1. UNCHANGED <<rx_nxt_inseq, rx_nxt, waiting, rx_data, rx, q, cur_size, reader, read_nxt, eof_read>>
  BY DEF buffer
<1>2. tx_ack' \in Seq([told : Nat, win : Nat])
  <2> DEFINE T == [told : Nat, win : Nat]
  <2>1. tx_ack \in Seq(T)
    BY DEF StreamInv, NetworkInv
  <2> HIDE DEF T
  <2>2. tx_ack # <<>> => Tail(tx_ack) \in Seq(T)
    BY <2>1
  <2>3. tx_ack' \in Seq(T)
    BY <2>1, <2>2
  <2> QED
    BY <2>3 DEF T
<1>3. NetworkInv'
  BY <1>1, <1>2 DEF StreamInv, NetworkInv, WaitingAhead
<1>4. Acked' = Acked
  BY <1>1 DEF Acked
<1>5. ItemsInv'
  <2>1. PICK mark : Marks(mark)
    BY DEF StreamInv, ItemsInv
  <2>2. Marks(mark)'
    BY <1>1, <1>4, <2>1 DEF Marks
  <2> QED
    BY <1>1, <2>2 DEF StreamInv, ItemsInv
<1>6. BufferInv'
  <2>1. PICK m : Buffered(m)
    BY DEF StreamInv, BufferInv
  <2>2. Buffered(m)'
    BY <1>1, <1>4, <2>1 DEF Buffered
  <2> QED
    BY <1>1, <2>2 DEF StreamInv, BufferInv
<1> QED
  BY <1>3, <1>5, <1>6 DEF StreamInv

\* The receive thread.
RxType == [pc : {"take", "got", "ack", "queue", "blocked"}, adv : Nat \cup {NoAdvance}, elems : Seq(Chunk)]

\* A step that leaves the network side alone.
LEMMA NetworkFrame ==
  ASSUME NetworkInv, UNCHANGED <<rx_nxt_inseq, waiting, tx_ack>>
  PROVE  NetworkInv'
  BY DEF NetworkInv, WaitingAhead

\* The items stay with their marks while what is acknowledged is the same.
LEMMA MarksFrame ==
  ASSUME NEW mark, Marks(mark), UNCHANGED <<rx_nxt_inseq, rx_data>>, Acked' = Acked
  PROVE  Marks(mark)'
  BY DEF Marks

\* The thread takes an item: its mark is what is acknowledged next.
LEMMA RxTakeStream == StreamInv /\ RxTake => StreamInv'
<1> SUFFICES ASSUME StreamInv, RxTake PROVE StreamInv'
  OBVIOUS
<1> DEFINE h == Head(rx_data)
<1>1. /\ rx.pc = "take" /\ rx_data # <<>>
      /\ rx' = [pc |-> "got", adv |-> h.adv, elems |-> h.elems]
      /\ rx_data' = Tail(rx_data)
      /\ UNCHANGED <<rx_nxt_inseq, rx_nxt, waiting, tx_ack, q, cur_size, reader, read_nxt, eof_read>>
  BY DEF RxTake, buffer
<1>2. rx_data \in Seq(Item) /\ rx.elems = <<>> /\ rx_nxt \in Nat /\ StreamStart <= rx_nxt
  BY <1>1 DEF StreamInv, ItemsInv
<1>3. PICK mark : Marks(mark)
  BY DEF StreamInv, ItemsInv
<1>4. PICK m : Buffered(m)
  BY DEF StreamInv, BufferInv
<1> DEFINE n == Len(rx_data)
<1>5. n \in Nat /\ n >= 1 /\ h = rx_data[1] /\ h \in Item /\ rx_data' \in Seq(Item) /\ Len(rx_data') = n - 1
      /\ \A i \in 1 .. n - 1 : rx_data'[i] = rx_data[i + 1]
  BY <1>1, <1>2
<1>6. h.adv \in Nat \cup {NoAdvance} /\ h.elems \in Seq(Chunk)
  BY <1>5 DEF Item
<1> HIDE DEF h, n
<1>7. Acked = mark[0] /\ rx_nxt = mark[0]
  <2>1. mark[0] = Acked
    BY <1>3 DEF Marks
  <2> QED
    BY <2>1, <1>1, <1>2 DEF Acked
<1>8. mark[1] = mark[0] + Larger(h.adv, 0) /\ Covers(h.elems, Place(mark[0]), Place(mark[1]))
  <2>1. 1 \in 1 .. n /\ 1 - 1 = 0
    BY <1>5
  <2> QED
    BY <2>1, <1>3, <1>5 DEF Marks, n
<1>9. Acked' = mark[1]
  BY <1>1, <1>7, <1>8 DEF Acked
<1>10. NetworkInv'
  BY <1>1, NetworkFrame DEF StreamInv
<1>11. ItemsInv'
  <2>0. PICK new : new = [i \in 0 .. n - 1 |-> mark[i + 1]]
    OBVIOUS
  <2>1. mark \in [0 .. n -> Nat] /\ mark[n] = rx_nxt_inseq /\ \A i \in 0 .. n : mark[i] <= rx_nxt_inseq
    BY <1>3 DEF Marks, n
  <2>2. new \in [0 .. n - 1 -> Nat]
    BY <1>5, <2>0, <2>1
  <2>3. new[0] = Acked' /\ new[n - 1] = rx_nxt_inseq'
    BY <1>1, <1>5, <1>9, <2>0, <2>1
  <2>4. \A i \in 0 .. n - 1 : new[i] <= rx_nxt_inseq'
    BY <1>1, <1>5, <2>0, <2>1
  <2>5. \A i \in 1 .. n - 1 : /\ new[i] = new[i - 1] + Larger(rx_data'[i].adv, 0)
                              /\ Covers(rx_data'[i].elems, Place(new[i - 1]), Place(new[i]))
    <3> SUFFICES ASSUME NEW i \in 1 .. n - 1
                 PROVE  /\ new[i] = new[i - 1] + Larger(rx_data'[i].adv, 0)
                        /\ Covers(rx_data'[i].elems, Place(new[i - 1]), Place(new[i]))
      OBVIOUS
    <3>1. i + 1 \in 1 .. n /\ (i + 1) - 1 = i /\ new[i] = mark[i + 1] /\ new[i - 1] = mark[i]
          /\ rx_data'[i] = rx_data[i + 1]
      BY <1>5, <2>0
    <3>2. /\ mark[i + 1] = mark[(i + 1) - 1] + Larger(rx_data[i + 1].adv, 0)
          /\ Covers(rx_data[i + 1].elems, Place(mark[(i + 1) - 1]), Place(mark[i + 1]))
      BY <1>3, <3>1 DEF Marks, n
    <3> QED
      BY <3>1, <3>2
  <2>6. Marks(new)'
    BY <1>5, <2>2, <2>3, <2>4, <2>5 DEF Marks
  <2>7. rx' \in RxType /\ rx'.pc = "got"
    BY <1>1, <1>6 DEF RxType
  <2> QED
    BY <1>1, <1>2, <1>5, <2>6, <2>7 DEF ItemsInv, RxType
<1>12. BufferInv'
  <2>1. m = Place(mark[0]) /\ cur_size = m - read_nxt + 0
    BY <1>1, <1>2, <1>4, <1>7 DEF Buffered, Covers
  <2>2. Buffered(m)'
    BY <1>1, <1>4, <1>8, <1>9, <2>1 DEF Buffered
  <2> QED
    BY <1>1, <2>2 DEF StreamInv, BufferInv
<1> QED
  BY <1>10, <1>11, <1>12 DEF StreamInv

\* Steps of the receive thread that change neither items nor buffer.
LEMMA RxThreadFrame ==
  ASSUME StreamInv, UNCHANGED <<rx_nxt_inseq, waiting, tx_ack, rx_data, q, cur_size, reader, read_nxt, eof_read>>,
         NEW pc \in {"take", "ack", "queue"}, rx'.pc = pc, rx' \in RxType,
         rx'.elems = rx.elems, rx.pc # "blocked", pc = "take" => rx.elems = <<>>,
         rx_nxt' \in Nat, rx_nxt <= rx_nxt', Acked' = Acked
  PROVE  StreamInv'
<1>1. NetworkInv'
  BY NetworkFrame DEF StreamInv
<1>2. ItemsInv'
  <2>1. PICK mark : Marks(mark)
    BY DEF StreamInv, ItemsInv
  <2>2. Marks(mark)'
    BY <2>1, MarksFrame
  <2>3. rx_data' \in Seq(Item) /\ StreamStart <= rx_nxt'
    BY RxAssumption DEF StreamInv, ItemsInv
  <2> QED
    BY <2>2, <2>3 DEF ItemsInv, RxType
<1>3. BufferInv'
  <2>1. PICK m : Buffered(m)
    BY DEF StreamInv, BufferInv
  <2>2. Buffered(m)'
    BY <2>1 DEF Buffered
  <2> QED
    BY <2>2 DEF StreamInv, BufferInv
<1> QED
  BY <1>1, <1>2, <1>3 DEF StreamInv

\* The ACK number advances, the item stays in hand.
LEMMA RxAckStream == StreamInv /\ RxAck => StreamInv'
<1> SUFFICES ASSUME StreamInv, RxAck PROVE StreamInv'
  OBVIOUS
<1> DEFINE pc == IF send_ack' > send_ack THEN "ack" ELSE "queue"
<1>1. /\ rx.pc = "got" /\ rx_nxt' = rx_nxt + Larger(rx.adv, 0)
      /\ rx' = [rx EXCEPT !.pc = pc]
      /\ UNCHANGED <<rx_nxt_inseq, waiting, rx_data, tx_ack, q, cur_size, reader, read_nxt, eof_read>>
  BY DEF RxAck, buffer
<1>2. rx \in RxType /\ rx_nxt \in Nat
  BY DEF StreamInv, ItemsInv, RxType
<1>3. pc \in {"ack", "queue"}
  OBVIOUS
<1> HIDE DEF pc
<1>4. rx' \in RxType /\ rx'.pc = pc /\ rx'.elems = rx.elems
  BY <1>1, <1>2, <1>3 DEF RxType
<1>5. rx_nxt' \in Nat /\ rx_nxt <= rx_nxt' /\ Acked' = Acked
  <2>1. rx.adv \in Nat \cup {-1}
    BY <1>2 DEF RxType, NoAdvance
  <2>2. rx_nxt' \in Nat /\ rx_nxt <= rx_nxt'
    BY <1>1, <1>2, <2>1 DEF Larger
  <2>3. Acked = rx_nxt' /\ Acked' = rx_nxt'
    BY <1>1, <1>3, <1>4, <2>2 DEF Acked
  <2> QED
    BY <2>2, <2>3
<1> QED
  BY <1>1, <1>3, <1>4, <1>5, RxThreadFrame

\* The thread goes on to queue, or to the next item.
LEMMA RxAckedStream == StreamInv /\ (RxAcked \/ RxAgain) => StreamInv'
<1> SUFFICES ASSUME StreamInv, RxAcked \/ RxAgain PROVE StreamInv'
  OBVIOUS
<1>1. rx \in RxType /\ rx_nxt \in Nat
  BY DEF StreamInv, ItemsInv, RxType
<1>2. CASE RxAcked
  <2>1. rx.pc = "ack" /\ rx' = [rx EXCEPT !.pc = "queue"]
        /\ UNCHANGED <<rx_nxt_inseq, rx_nxt, waiting, rx_data, tx_ack, q, cur_size, reader, read_nxt, eof_read>>
    BY <1>2 DEF RxAcked, buffer
  <2>2. rx' \in RxType /\ rx'.pc = "queue" /\ rx'.elems = rx.elems
    BY <1>1, <2>1 DEF RxType
  <2>3. Acked' = Acked
    BY <2>1, <2>2 DEF Acked
  <2> QED
    BY <1>1, <2>1, <2>2, <2>3, RxThreadFrame
<1>3. CASE RxAgain
  <2>1. rx.pc = "queue" /\ rx.elems = <<>> /\ rx' = [pc |-> "take", adv |-> NoAdvance, elems |-> <<>>]
        /\ UNCHANGED <<rx_nxt_inseq, rx_nxt, waiting, rx_data, tx_ack, q, cur_size, reader, read_nxt, eof_read>>
    BY <1>3 DEF RxAgain, buffer
  <2>2. rx' \in RxType /\ rx'.pc = "take" /\ rx'.elems = rx.elems
    BY <2>1 DEF RxType
  <2>3. Acked' = Acked
    BY <2>1, <2>2 DEF Acked
  <2> QED
    BY <1>1, <2>1, <2>2, <2>3, RxThreadFrame
<1> QED
  BY <1>2, <1>3

\* A step of the receive thread from "queue" or the application that leaves
\* the items and what is acknowledged alone.
LEMMA BufferFrame ==
  ASSUME StreamInv, UNCHANGED <<rx_nxt_inseq, waiting, tx_ack, rx_data, rx_nxt>>,
         rx.pc # "got", rx'.pc # "got", rx' \in RxType, rx'.pc # "take", rx'.pc = "blocked" => rx'.elems # <<>>,
         BufferInv'
  PROVE  StreamInv'
<1>1. NetworkInv'
  BY NetworkFrame DEF StreamInv
<1>2. Acked' = Acked
  BY DEF Acked
<1>3. ItemsInv'
  <2>1. PICK mark : Marks(mark)
    BY DEF StreamInv, ItemsInv
  <2>2. Marks(mark)'
    BY <1>2, <2>1, MarksFrame
  <2> QED
    BY <2>2 DEF StreamInv, ItemsInv, RxType
<1> QED
  BY <1>1, <1>3 DEF StreamInv

\* What the receive thread is about to add to the user buffer.
LEMMA ChunkInHand ==
  ASSUME StreamInv, rx.elems # <<>>, NEW m, Buffered(m)
  PROVE  /\ Head(rx.elems) \in Chunk /\ Head(rx.elems).seq = m
         /\ Head(rx.elems).len \in Nat /\ (Head(rx.elems).len = 0 => m = StreamEnd)
         /\ Tail(rx.elems) \in Seq(Chunk)
         /\ Covers(Tail(rx.elems), m + Head(rx.elems).len, Place(Acked))
<1>1. rx.elems \in Seq(Chunk) /\ Covers(rx.elems, m, Place(Acked))
  BY DEF StreamInv, ItemsInv, Buffered
<1>2. /\ Head(rx.elems) \in Chunk /\ Head(rx.elems).seq = m
      /\ Tail(rx.elems) \in Seq(Chunk) /\ Covers(Tail(rx.elems), m + Head(rx.elems).len, Place(Acked))
  BY <1>1, CoversTail
<1> QED
  BY <1>2 DEF Chunk

\* The chunk in hand goes to the reader.
LEMMA AddToReaderStream == StreamInv /\ AddToReader => StreamInv'
<1> SUFFICES ASSUME StreamInv, AddToReader PROVE StreamInv'
  OBVIOUS
<1> DEFINE c == Head(rx.elems)
<1>1. /\ rx.pc = "queue" /\ rx.elems # <<>> /\ reader /\ reader' = FALSE
      /\ read_nxt' = read_nxt + c.len /\ eof_read' = (eof_read \/ c.len = 0)
      /\ rx' = [rx EXCEPT !.elems = Tail(@)]
      /\ UNCHANGED <<rx_nxt_inseq, rx_nxt, waiting, rx_data, tx_ack, q, cur_size>>
  BY DEF AddToReader, Got
<1>2. rx \in RxType /\ q = <<>> /\ read_nxt \in Nat /\ StreamStart <= read_nxt /\ ~eof_read
  BY <1>1 DEF StreamInv, ItemsInv, BufferInv, RxType
<1>3. PICK m : Buffered(m)
  BY DEF StreamInv, BufferInv
<1>4. m \in Nat /\ m = read_nxt /\ cur_size = 0
  BY <1>1, <1>2, <1>3 DEF Buffered, Covers
<1>5. /\ c.len \in Nat /\ (c.len = 0 => m = StreamEnd)
      /\ Tail(rx.elems) \in Seq(Chunk) /\ Covers(Tail(rx.elems), m + c.len, Place(Acked))
  BY <1>1, <1>3, ChunkInHand
<1> HIDE DEF c
<1>6. rx' \in RxType /\ rx'.pc = "queue" /\ rx'.elems = Tail(rx.elems)
  BY <1>1, <1>2, <1>5 DEF RxType
<1>7. Acked' = Acked
  BY <1>1, <1>6 DEF Acked
<1>8. PICK k : k = m + c.len
  OBVIOUS
<1>9. Buffered(k)'
  <2>1. k \in Nat /\ read_nxt' = k /\ cur_size' = k - read_nxt' + 0
    BY <1>1, <1>4, <1>5, <1>8
  <2>2. Covers(q', read_nxt', k)
    BY <1>1, <1>2, <2>1 DEF Covers
  <2>3. Covers(rx'.elems, k, Place(Acked)')
    BY <1>5, <1>6, <1>7, <1>8 DEF Place
  <2> QED
    BY <1>6, <2>1, <2>2, <2>3 DEF Buffered
<1>10. BufferInv'
  <2>1. eof_read' \in BOOLEAN /\ (eof_read' => read_nxt' = StreamEnd)
    <3>1. eof_read' \in BOOLEAN /\ (eof_read' => c.len = 0)
      BY <1>1, <1>2, Zenon
    <3>2. c.len = 0 => read_nxt' = StreamEnd
      BY <1>1, <1>2, <1>4, <1>5
    <3> QED
      BY <3>1, <3>2, Zenon
  <2>2. read_nxt' \in Nat /\ StreamStart <= read_nxt'
    BY <1>1, <1>2, <1>5, RxAssumption
  <2>3. q' \in Seq(Chunk) /\ reader' \in BOOLEAN /\ ~reader'
    <3>1. q' \in Seq(Chunk)
      BY <1>1, <1>2
    <3> QED
      BY <1>1, <3>1, Zenon
  <2> QED
    BY <1>9, <2>1, <2>2, <2>3 DEF BufferInv
<1> QED
  BY <1>1, <1>6, <1>10, BufferFrame

\* The chunk in hand goes to the user buffer.
LEMMA AddToQueueStream == StreamInv /\ AddToQueue => StreamInv'
<1> SUFFICES ASSUME StreamInv, AddToQueue PROVE StreamInv'
  OBVIOUS
<1> DEFINE c == Head(rx.elems)
<1>1. /\ rx.pc = "queue" /\ rx.elems # <<>> /\ ~reader
      /\ cur_size' = cur_size + c.len /\ q' = Append(q, c)
      /\ rx' = [rx EXCEPT !.elems = Tail(@)]
      /\ UNCHANGED <<rx_nxt_inseq, rx_nxt, waiting, rx_data, tx_ack, reader, read_nxt, eof_read>>
  BY DEF AddToQueue
<1>2. rx \in RxType /\ q \in Seq(Chunk) /\ read_nxt \in Nat
  BY DEF StreamInv, ItemsInv, BufferInv, RxType
<1>3. PICK m : Buffered(m)
  BY DEF StreamInv, BufferInv
<1>4. m \in Nat /\ Covers(q, read_nxt, m) /\ cur_size = m - read_nxt + 0
  BY <1>1, <1>3 DEF Buffered
<1>5. /\ c \in Chunk /\ c.seq = m /\ c.len \in Nat
      /\ Tail(rx.elems) \in Seq(Chunk) /\ Covers(Tail(rx.elems), m + c.len, Place(Acked))
  BY <1>1, <1>3, ChunkInHand
<1> HIDE DEF c
<1>6. rx' \in RxType /\ rx'.pc = "queue" /\ rx'.elems = Tail(rx.elems)
  BY <1>1, <1>2, <1>5 DEF RxType
<1>7. Acked' = Acked
  BY <1>1, <1>6 DEF Acked
<1>8. PICK k : k = m + c.len
  OBVIOUS
<1>9. q' \in Seq(Chunk) /\ Covers(q', read_nxt, k)
  BY <1>1, <1>2, <1>4, <1>5, <1>8, CoversAppend
<1>10. Buffered(k)'
  <2>1. k \in Nat /\ cur_size' = k - read_nxt' + 0
    BY <1>1, <1>2, <1>4, <1>5, <1>8
  <2>2. Covers(rx'.elems, k, Place(Acked)')
    BY <1>5, <1>6, <1>7, <1>8 DEF Place
  <2> QED
    BY <1>1, <1>6, <1>9, <2>1, <2>2 DEF Buffered
<1>11. BufferInv'
  BY <1>1, <1>9, <1>10 DEF StreamInv, BufferInv
<1> QED
  BY <1>1, <1>6, <1>11, BufferFrame

\* The thread blocks, its chunk counted.
LEMMA AddBlocksStream == StreamInv /\ AddBlocks => StreamInv'
<1> SUFFICES ASSUME StreamInv, AddBlocks PROVE StreamInv'
  OBVIOUS
<1>1. /\ rx.pc = "queue" /\ rx.elems # <<>>
      /\ cur_size' = cur_size + Head(rx.elems).len
      /\ rx' = [rx EXCEPT !.pc = "blocked"]
      /\ UNCHANGED <<rx_nxt_inseq, rx_nxt, waiting, rx_data, tx_ack, q, reader, read_nxt, eof_read>>
  BY DEF AddBlocks
<1>2. rx \in RxType /\ read_nxt \in Nat
  BY DEF StreamInv, ItemsInv, BufferInv, RxType
<1>3. PICK m : Buffered(m)
  BY DEF StreamInv, BufferInv
<1>4. m \in Nat /\ cur_size = m - read_nxt + 0 /\ Head(rx.elems).len \in Nat
  BY <1>1, <1>3, ChunkInHand DEF Buffered
<1>5. rx' \in RxType /\ rx'.pc = "blocked" /\ rx'.elems = rx.elems
  BY <1>1, <1>2 DEF RxType
<1>6. Acked' = Acked
  BY <1>1, <1>5 DEF Acked
<1>7. Buffered(m)'
  <2>1. cur_size' = m - read_nxt' + Head(rx'.elems).len
    BY <1>1, <1>2, <1>4, <1>5
  <2>2. Covers(q', read_nxt', m) /\ Covers(rx'.elems, m, Place(Acked)')
    BY <1>1, <1>3, <1>5, <1>6 DEF Buffered, Place
  <2> QED
    BY <1>4, <1>5, <2>1, <2>2 DEF Buffered
<1>8. BufferInv'
  BY <1>1, <1>7 DEF StreamInv, BufferInv
<1> QED
  BY <1>1, <1>5, <1>8, BufferFrame

\* The application takes the chunk at the head of the user buffer.
LEMMA ReadStream == StreamInv /\ Read => StreamInv'
<1> SUFFICES ASSUME StreamInv, Read PROVE StreamInv'
  OBVIOUS
<1> DEFINE h == Head(q)
           c == Head(rx.elems)
           wakes == cur_size' < MaxRxWnd /\ rx.pc = "blocked"
<1>1. /\ ~eof_read /\ ~reader /\ q # <<>>
      /\ read_nxt' = read_nxt + h.len /\ eof_read' = (eof_read \/ h.len = 0)
      /\ cur_size' = cur_size - h.len
      /\ IF wakes THEN q' = Append(Tail(q), c) /\ rx' = [rx EXCEPT !.pc = "queue", !.elems = Tail(@)]
         ELSE q' = Tail(q) /\ UNCHANGED rx
      /\ UNCHANGED <<rx_nxt_inseq, rx_nxt, waiting, rx_data, tx_ack, reader>>
  BY DEF Read, Got
<1>2. rx \in RxType /\ q \in Seq(Chunk) /\ read_nxt \in Nat /\ StreamStart <= read_nxt
      /\ (rx.pc = "blocked" => rx.elems # <<>>)
  BY DEF StreamInv, ItemsInv, BufferInv, RxType
<1>3. PICK m : Buffered(m)
  BY DEF StreamInv, BufferInv
<1>4. m \in Nat /\ Covers(q, read_nxt, m)
      /\ cur_size = m - read_nxt + IF rx.pc = "blocked" THEN c.len ELSE 0
  BY <1>3 DEF Buffered
<1>5. h \in Chunk /\ h.seq = read_nxt /\ Tail(q) \in Seq(Chunk) /\ Covers(Tail(q), read_nxt + h.len, m)
  BY <1>1, <1>2, <1>4, CoversTail
<1>6. h.len \in Nat /\ (h.len = 0 => read_nxt = StreamEnd)
  BY <1>5 DEF Chunk
<1>7. /\ read_nxt' \in Nat /\ StreamStart <= read_nxt' /\ eof_read' \in BOOLEAN
      /\ (eof_read' => read_nxt' = StreamEnd) /\ ~reader' /\ reader' \in BOOLEAN
  <2>1. eof_read' \in BOOLEAN /\ (eof_read' => h.len = 0) /\ ~reader'
    BY <1>1, Zenon
  <2>2. h.len = 0 => read_nxt' = StreamEnd
    BY <1>1, <1>2, <1>6
  <2>3. read_nxt' \in Nat /\ StreamStart <= read_nxt'
    BY <1>1, <1>2, <1>6, RxAssumption
  <2>4. reader' \in BOOLEAN
    BY <1>1 DEF StreamInv, BufferInv
  <2> QED
    BY <2>1, <2>2, <2>3, <2>4, Zenon
<1> HIDE DEF h
<1>8. CASE wakes
  <2>1. /\ c \in Chunk /\ c.seq = m /\ c.len \in Nat
        /\ Tail(rx.elems) \in Seq(Chunk) /\ Covers(Tail(rx.elems), m + c.len, Place(Acked))
    BY <1>2, <1>3, <1>8, ChunkInHand
  <2>2. q' = Append(Tail(q), c) /\ rx' = [rx EXCEPT !.pc = "queue", !.elems = Tail(@)] /\ rx.pc = "blocked"
    BY <1>1, <1>8
  <2> HIDE DEF c
  <2>3. rx' \in RxType /\ rx'.pc = "queue" /\ rx'.elems = Tail(rx.elems)
    BY <1>2, <2>1, <2>2 DEF RxType
  <2>4. Acked' = Acked
    BY <1>1, <2>2, <2>3 DEF Acked
  <2>5. PICK k : k = m + c.len
    OBVIOUS
  <2>6. q' \in Seq(Chunk) /\ Covers(q', read_nxt', k)
    BY <1>1, <1>5, <2>1, <2>2, <2>5, CoversAppend
  <2>7. Buffered(k)'
    <3>1. k \in Nat /\ cur_size' = k - read_nxt' + 0
      BY <1>1, <1>2, <1>4, <1>6, <2>1, <2>2, <2>5 DEF c
    <3>2. Covers(rx'.elems, k, Place(Acked)')
      BY <2>1, <2>3, <2>4, <2>5 DEF Place
    <3> QED
      BY <2>3, <2>6, <3>1, <3>2 DEF Buffered
  <2>8. BufferInv'
    BY <1>7, <2>6, <2>7 DEF BufferInv
  <2> QED
    BY <1>1, <2>2, <2>3, <2>8, BufferFrame
<1>9. CASE ~wakes
  <2>1. q' = Tail(q) /\ rx' = rx
    BY <1>1, <1>9
  <2>2. Acked' = Acked
    BY <1>1, <2>1 DEF Acked
  <2>3. Buffered(m)'
    <3>1. cur_size' = m - read_nxt' + IF rx'.pc = "blocked" THEN Head(rx'.elems).len ELSE 0
      <4>1. CASE rx.pc = "blocked"
        <5>1. c.len \in Nat
          BY <1>2, <1>3, <4>1, ChunkInHand
        <5> QED
          BY <4>1, <5>1, <1>1, <1>2, <1>4, <1>6, <2>1
      <4>2. CASE rx.pc # "blocked"
        BY <4>2, <1>1, <1>2, <1>4, <1>6, <2>1
      <4> QED
        BY <4>1, <4>2
    <3>2. Covers(q', read_nxt', m) /\ Covers(rx'.elems, m, Place(Acked)')
      BY <1>1, <1>3, <1>5, <2>1, <2>2 DEF Buffered, Place
    <3> QED
      BY <1>4, <3>1, <3>2 DEF Buffered
  <2>4. BufferInv'
    BY <1>5, <1>7, <2>1, <2>3 DEF BufferInv
  <2>5. NetworkInv'
    BY <1>1, NetworkFrame DEF StreamInv
  <2>6. ItemsInv'
    <3>1. PICK mark : Marks(mark)
      BY DEF StreamInv, ItemsInv
    <3>2. Marks(mark)'
      BY <1>1, <2>2, <3>1, MarksFrame
    <3> QED
      BY <1>1, <2>1, <3>2 DEF StreamInv, ItemsInv
  <2> QED
    BY <2>4, <2>5, <2>6 DEF StreamInv
<1> QED
  BY <1>8, <1>9

\* The application waits on an empty buffer.
LEMMA ReadWaitsStream == StreamInv /\ ReadWaits => StreamInv'
<1> SUFFICES ASSUME StreamInv, ReadWaits PROVE StreamInv'
  OBVIOUS
<1>1. /\ ~eof_read /\ q = <<>> /\ reader' = TRUE
      /\ UNCHANGED <<rx_nxt_inseq, rx_nxt, waiting, rx_data, tx_ack, rx, q, cur_size, read_nxt, eof_read>>
  BY DEF ReadWaits
<1>2. NetworkInv'
  BY <1>1, NetworkFrame DEF StreamInv
<1>3. Acked' = Acked
  BY <1>1 DEF Acked
<1>4. ItemsInv'
  <2>1. PICK mark : Marks(mark)
    BY DEF StreamInv, ItemsInv
  <2>2. Marks(mark)'
    BY <1>1, <1>3, <2>1, MarksFrame
  <2> QED
    BY <1>1, <2>2 DEF StreamInv, ItemsInv
<1>5. BufferInv'
  <2>1. PICK m : Buffered(m)
    BY DEF StreamInv, BufferInv
  <2>2. Buffered(m)'
    BY <1>1, <1>3, <2>1 DEF Buffered
  <2>3. reader' \in BOOLEAN /\ (reader' => q' = <<>>) /\ ~eof_read'
    BY <1>1
  <2> QED
    BY <1>1, <2>2, <2>3 DEF StreamInv, BufferInv
<1> QED
  BY <1>2, <1>4, <1>5 DEF StreamInv

\* Marks of any sequence of items, up to b.
MarkedTo(mark, s, b) ==
  /\ mark \in [0 .. Len(s) -> Nat]
  /\ mark[Len(s)] = b
  /\ \A i \in 0 .. Len(s) : mark[i] <= b
  /\ \A i \in 1 .. Len(s) :
       /\ mark[i] = mark[i - 1] + Larger(s[i].adv, 0)
       /\ Covers(s[i].elems, Place(mark[i - 1]), Place(mark[i]))

\* One more item, and the mark after it.
LEMMA MarksExtend ==
  ASSUME NEW s \in Seq(Item), NEW b \in Nat, NEW mark, MarkedTo(mark, s, b),
         NEW item \in Item, NEW e \in Nat, e = b + Larger(item.adv, 0),
         Covers(item.elems, Place(b), Place(e))
  PROVE  /\ Append(s, item) \in Seq(Item)
         /\ \E new : MarkedTo(new, Append(s, item), e) /\ new[0] = mark[0]
<1> DEFINE n == Len(s)
           t == Append(s, item)
           new == [i \in 0 .. n + 1 |-> IF i = n + 1 THEN e ELSE mark[i]]
<1>1. n \in Nat /\ t \in Seq(Item) /\ Len(t) = n + 1 /\ t[n + 1] = item /\ \A i \in 1 .. n : t[i] = s[i]
  OBVIOUS
<1> HIDE DEF t
<1>2. /\ mark \in [0 .. n -> Nat] /\ mark[n] = b /\ \A i \in 0 .. n : mark[i] <= b
      /\ \A i \in 1 .. n : /\ mark[i] = mark[i - 1] + Larger(s[i].adv, 0)
                           /\ Covers(s[i].elems, Place(mark[i - 1]), Place(mark[i]))
  BY DEF MarkedTo
<1> HIDE DEF n
<1>3. b <= e
  <2>1. item.adv \in Nat \cup {-1}
    BY DEF Item, NoAdvance
  <2> QED
    BY <2>1 DEF Larger
<1>4. new \in [0 .. n + 1 -> Nat] /\ new[n + 1] = e /\ new[n] = b /\ new[0] = mark[0]
  BY <1>1, <1>2
<1>5. \A i \in 0 .. n : new[i] = mark[i]
  BY <1>1
<1> HIDE DEF new
<1>6. \A i \in 0 .. n + 1 : new[i] <= e
  <2> SUFFICES ASSUME NEW i \in 0 .. n + 1 PROVE new[i] <= e
    OBVIOUS
  <2>1. CASE i = n + 1
    BY <1>4, <2>1
  <2>2. CASE i # n + 1
    <3>1. i \in 0 .. n
      BY <1>1, <2>2
    <3>2. new[i] \in Nat /\ new[i] <= b
      BY <1>2, <1>5, <3>1
    <3> QED
      BY <1>3, <3>2
  <2> QED
    BY <2>1, <2>2
<1>7. \A i \in 1 .. n + 1 : /\ new[i] = new[i - 1] + Larger(t[i].adv, 0)
                            /\ Covers(t[i].elems, Place(new[i - 1]), Place(new[i]))
  <2> SUFFICES ASSUME NEW i \in 1 .. n + 1
               PROVE  /\ new[i] = new[i - 1] + Larger(t[i].adv, 0)
                      /\ Covers(t[i].elems, Place(new[i - 1]), Place(new[i]))
    OBVIOUS
  <2>1. CASE i = n + 1
    <3>1. i - 1 = n
      BY <1>1, <2>1
    <3>2. t[i] = item /\ new[i] = e /\ new[i - 1] = b
      BY <1>1, <1>4, <2>1, <3>1
    <3> QED
      BY <3>2
  <2>2. CASE i # n + 1
    <3>1. i \in 1 .. n /\ i \in 0 .. n /\ i - 1 \in 0 .. n
      BY <1>1, <2>2
    <3>2. t[i] = s[i] /\ new[i] = mark[i] /\ new[i - 1] = mark[i - 1]
      BY <1>1, <1>5, <3>1
    <3> QED
      BY <1>2, <3>1, <3>2
  <2> QED
    BY <2>1, <2>2
<1>8. MarkedTo(new, t, e)
  BY <1>1, <1>4, <1>6, <1>7 DEF MarkedTo
<1> QED
  BY <1>1, <1>4, <1>8 DEF t

\* A segment comes in: its walk covers what rx_nxt_inseq advances by.
LEMMA InputStream ==
  ASSUME NoWrap, StreamInv, NEW seg \in Segments, Input(seg)
  PROVE  StreamInv'
<1> DEFINE segs == SetAdd(seg, waiting)
           w == Walk(segs)
<1>1. /\ rx_nxt_inseq' = w.nxt /\ waiting' = w.waiting
      /\ tx_ack' = Append(tx_ack, [told |-> w.win, win |-> seg.win])
      /\ rx_data' = rx_data \o Items(w)
      /\ UNCHANGED <<rx_nxt, rx, q, cur_size, reader, read_nxt, eof_read>>
  BY DEF Input, buffer
<1>2. /\ rx_nxt_inseq \in StreamStart .. StreamEnd + 1 /\ rx_nxt_inseq \in Nat
      /\ waiting \in SUBSET Segments /\ IsFiniteSet(waiting) /\ tx_ack \in Seq([told : Nat, win : Nat])
  BY RxAssumption DEF StreamInv, NetworkInv
<1>3. segs \in SUBSET Segments /\ IsFiniteSet(segs)
  <2>1. IsFiniteSet(waiting \cup {seg})
    BY <1>2, FS_AddElement
  <2> QED
    BY <1>2, <2>1 DEF SetAdd
<1> HIDE DEF segs
<1>4. WalkInv(w) /\ w.waiting \subseteq segs
  BY <1>2, <1>3, WalkSound
<1> HIDE DEF w
<1>5. /\ w \in WalkState /\ w.nxt \in Nat /\ w.win \in Nat /\ w.fin \in BOOLEAN /\ w.data \in Seq(Chunk)
      /\ rx_nxt_inseq <= w.nxt /\ w.nxt <= StreamEnd + 1
      /\ Covers(w.data, Place(rx_nxt_inseq), Place(w.nxt))
      /\ (w.fin => w.nxt = StreamEnd + 1)
      /\ \A s \in w.waiting : s.seq > w.nxt
  BY <1>4, SeqMonotone DEF WalkInv, WalkState, Bytes
<1>6. NetworkInv'
  <2>1. rx_nxt_inseq' \in StreamStart .. StreamEnd + 1
    BY <1>1, <1>2, <1>5, RxAssumption
  <2>2. waiting' \in SUBSET Segments /\ IsFiniteSet(waiting') /\ WaitingAhead'
    <3>1. IsFiniteSet(w.waiting)
      BY <1>3, <1>4, FS_Subset
    <3> QED
      BY <1>1, <1>3, <1>4, <1>5, <3>1 DEF WaitingAhead
  <2>3. tx_ack' \in Seq([told : Nat, win : Nat])
    <3> DEFINE T == [told : Nat, win : Nat]
               x == [told |-> w.win, win |-> seg.win]
    <3>1. x \in T /\ tx_ack \in Seq(T)
      BY <1>2, <1>5, SegmentFacts
    <3> HIDE DEF T, x
    <3>2. Append(tx_ack, x) \in Seq(T)
      BY <3>1
    <3> QED
      BY <1>1, <3>2 DEF T, x
  <2> QED
    BY <2>1, <2>2, <2>3 DEF NetworkInv, Segments
<1>7. Acked' = Acked
  BY <1>1 DEF Acked
<1>8. ItemsInv'
  <2> DEFINE d == w.nxt - rx_nxt_inseq
             item == [adv |-> IF w.force \/ d > 0 THEN d ELSE NoAdvance, elems |-> w.data]
             eof == [adv |-> 0, elems |-> <<Eof>>]
  <2>1. Items(w) = IF w.fin THEN <<item, eof>> ELSE <<item>>
    BY DEF Items
  <2>2. item \in Item /\ w.nxt = rx_nxt_inseq + Larger(item.adv, 0) /\ item.elems = w.data
    <3>1. d \in Nat
      BY <1>2, <1>5
    <3>2. item.adv = d \/ (item.adv = -1 /\ d = 0)
      BY <3>1 DEF NoAdvance
    <3>3. Larger(item.adv, 0) = d /\ item.adv \in Nat \cup {NoAdvance}
      BY <3>1, <3>2 DEF Larger, NoAdvance
    <3>4. rx_nxt_inseq + d = w.nxt
      BY <1>2, <1>5
    <3> QED
      BY <1>5, <3>3, <3>4 DEF Item
  <2>3. eof \in Item /\ eof.adv = 0
        /\ (w.fin => Covers(eof.elems, Place(w.nxt), Place(w.nxt)))
    <3>1. Eof \in Chunk /\ Eof.seq = StreamEnd /\ Eof.len = 0
      BY RxAssumption DEF Eof, Chunk
    <3>2. <<Eof>> \in Seq(Chunk) /\ <<Eof>> # <<>> /\ Len(<<Eof>>) = 1 /\ <<Eof>>[1] = Eof
      BY <3>1
    <3>3. eof \in Item /\ eof.adv = 0 /\ eof.elems = <<Eof>>
      BY <3>2 DEF Item
    <3>4. ASSUME w.fin PROVE Covers(<<Eof>>, Place(w.nxt), Place(w.nxt))
      <4>1. Place(w.nxt) = StreamEnd /\ StreamEnd \in Nat
        BY <1>5, <3>4, RxAssumption DEF Place, Smaller
      <4> QED
        BY <3>1, <3>2, <4>1 DEF Covers
    <3> QED
      BY <3>3, <3>4
  <2> HIDE DEF item, eof
  <2>4. rx_data \in Seq(Item)
    BY DEF StreamInv, ItemsInv
  <2>5. PICK mark : Marks(mark)
    BY DEF StreamInv, ItemsInv
  <2>6. MarkedTo(mark, rx_data, rx_nxt_inseq) /\ mark[0] = Acked
    BY <2>5 DEF Marks, MarkedTo
  <2>7. PICK one : one = Append(rx_data, item)
    OBVIOUS
  <2>8. one \in Seq(Item) /\ \E new : MarkedTo(new, one, w.nxt) /\ new[0] = mark[0]
    BY <1>2, <1>5, <2>2, <2>4, <2>6, <2>7, MarksExtend
  <2>9. rx_data' \in Seq(Item) /\ \E new : MarkedTo(new, rx_data', w.nxt) /\ new[0] = mark[0]
    <3>1. CASE w.fin
      <4>1. PICK new : MarkedTo(new, one, w.nxt) /\ new[0] = mark[0]
        BY <2>8
      <4>2. w.nxt = w.nxt + Larger(eof.adv, 0)
        BY <1>5, <2>3 DEF Larger
      <4>3. Append(one, eof) \in Seq(Item)
            /\ \E nw : MarkedTo(nw, Append(one, eof), w.nxt) /\ nw[0] = new[0]
        BY <1>5, <2>3, <2>8, <3>1, <4>1, <4>2, MarksExtend
      <4>4. rx_data' = Append(one, eof)
        <5>1. rx_data' = rx_data \o <<item, eof>>
          BY <1>1, <2>1, <3>1
        <5>2. rx_data \o <<item, eof>> = Append(Append(rx_data, item), eof)
          BY <2>2, <2>3, <2>4
        <5> QED
          BY <2>7, <5>1, <5>2
      <4> QED
        BY <4>1, <4>3, <4>4
    <3>2. CASE ~w.fin
      <4>1. rx_data' = rx_data \o <<item>>
        BY <1>1, <2>1, <3>2
      <4>2. rx_data \o <<item>> = Append(rx_data, item)
        BY <2>2, <2>4
      <4> QED
        BY <2>7, <2>8, <4>1, <4>2
    <3> QED
      BY <3>1, <3>2
  <2>10. PICK new : MarkedTo(new, rx_data', w.nxt) /\ new[0] = mark[0]
    BY <2>9
  <2>11. Marks(new)'
    BY <1>1, <1>7, <2>6, <2>10 DEF Marks, MarkedTo, Place
  <2> QED
    BY <1>1, <2>9, <2>11 DEF StreamInv, ItemsInv
<1>9. BufferInv'
  <2>1. PICK m : Buffered(m)
    BY DEF StreamInv, BufferInv
  <2>2. Buffered(m)'
    BY <1>1, <1>7, <2>1 DEF Buffered, Place
  <2> QED
    BY <1>1, <2>2 DEF StreamInv, BufferInv
<1> QED
  BY <1>6, <1>8, <1>9 DEF StreamInv

\* What is on the way, up to any item, is a function.
LEMMA PipelineExists ==
  \A N \in Nat : \E f : f = [n \in 0 .. N |-> IF n = 0 THEN q \o rx.elems ELSE f[n - 1] \o rx_data[n].elems]
<1> DEFINE S == {N \in Nat : \E f : f = [n \in 0 .. N |-> IF n = 0 THEN q \o rx.elems ELSE f[n - 1] \o rx_data[n].elems]}
<1>1. 0 \in S
  <2> DEFINE g == [n \in 0 .. 0 |-> q \o rx.elems]
  <2>1. g = [n \in 0 .. 0 |-> IF n = 0 THEN q \o rx.elems ELSE g[n - 1] \o rx_data[n].elems]
    OBVIOUS
  <2> HIDE DEF g
  <2> QED
    BY <2>1
<1>2. \A N \in Nat : N \in S => N + 1 \in S
  <2> SUFFICES ASSUME NEW N \in Nat, N \in S PROVE N + 1 \in S
    OBVIOUS
  <2>1. PICK f : f = [n \in 0 .. N |-> IF n = 0 THEN q \o rx.elems ELSE f[n - 1] \o rx_data[n].elems]
    OBVIOUS
  <2> DEFINE g == [n \in 0 .. N + 1 |-> IF n = 0 THEN q \o rx.elems ELSE f[n - 1] \o rx_data[n].elems]
  <2>2. \A n \in 0 .. N : g[n] = f[n]
    <3> SUFFICES ASSUME NEW n \in 0 .. N PROVE g[n] = f[n]
      OBVIOUS
    <3>1. f[n] = IF n = 0 THEN q \o rx.elems ELSE f[n - 1] \o rx_data[n].elems
      BY <2>1
    <3> QED
      BY <3>1
  <2>3. g = [n \in 0 .. N + 1 |-> IF n = 0 THEN q \o rx.elems ELSE g[n - 1] \o rx_data[n].elems]
    <3>1. \A n \in 0 .. N + 1 : n # 0 => n - 1 \in 0 .. N
      OBVIOUS
    <3>2. \A n \in 0 .. N + 1 : n # 0 => g[n - 1] = f[n - 1]
      BY <3>1, <2>2
    <3>3. g = [n \in 0 .. N + 1 |-> IF n = 0 THEN q \o rx.elems ELSE f[n - 1] \o rx_data[n].elems]
      OBVIOUS
    <3> HIDE DEF g
    <3>4. \A n \in 0 .. N + 1 : (IF n = 0 THEN q \o rx.elems ELSE f[n - 1] \o rx_data[n].elems)
                               = (IF n = 0 THEN q \o rx.elems ELSE g[n - 1] \o rx_data[n].elems)
      BY <3>2
    <3> QED
      BY <3>3, <3>4
  <2> HIDE DEF g
  <2> QED
    BY <2>3
<1> HIDE DEF S
<1>3. \A N \in Nat : N \in S
  BY <1>1, <1>2, SetInduction
<1> QED
  BY <1>3 DEF S

\* So is the sum of the lengths.
LEMMA SumExists ==
  ASSUME NEW s
  PROVE  \A N \in Nat : \E f : f = [n \in 0 .. N |-> IF n = 0 THEN 0 ELSE f[n - 1] + s[n].len]
<1> DEFINE S == {N \in Nat : \E f : f = [n \in 0 .. N |-> IF n = 0 THEN 0 ELSE f[n - 1] + s[n].len]}
<1>1. 0 \in S
  <2> DEFINE g == [n \in 0 .. 0 |-> 0]
  <2>1. g = [n \in 0 .. 0 |-> IF n = 0 THEN 0 ELSE g[n - 1] + s[n].len]
    OBVIOUS
  <2> HIDE DEF g
  <2> QED
    BY <2>1
<1>2. \A N \in Nat : N \in S => N + 1 \in S
  <2> SUFFICES ASSUME NEW N \in Nat, N \in S PROVE N + 1 \in S
    OBVIOUS
  <2>1. PICK f : f = [n \in 0 .. N |-> IF n = 0 THEN 0 ELSE f[n - 1] + s[n].len]
    OBVIOUS
  <2> DEFINE g == [n \in 0 .. N + 1 |-> IF n = 0 THEN 0 ELSE f[n - 1] + s[n].len]
  <2>2. \A n \in 0 .. N : g[n] = f[n]
    <3> SUFFICES ASSUME NEW n \in 0 .. N PROVE g[n] = f[n]
      OBVIOUS
    <3>1. f[n] = IF n = 0 THEN 0 ELSE f[n - 1] + s[n].len
      BY <2>1
    <3> QED
      BY <3>1
  <2>3. g = [n \in 0 .. N + 1 |-> IF n = 0 THEN 0 ELSE g[n - 1] + s[n].len]
    <3>1. \A n \in 0 .. N + 1 : n # 0 => n - 1 \in 0 .. N
      OBVIOUS
    <3>2. \A n \in 0 .. N + 1 : n # 0 => g[n - 1] = f[n - 1]
      BY <3>1, <2>2
    <3>3. g = [n \in 0 .. N + 1 |-> IF n = 0 THEN 0 ELSE f[n - 1] + s[n].len]
      OBVIOUS
    <3> HIDE DEF g
    <3>4. \A n \in 0 .. N + 1 : (IF n = 0 THEN 0 ELSE f[n - 1] + s[n].len)
                               = (IF n = 0 THEN 0 ELSE g[n - 1] + s[n].len)
      BY <3>2
    <3> QED
      BY <3>3, <3>4
  <2> HIDE DEF g
  <2> QED
    BY <2>3
<1> HIDE DEF S
<1>3. \A N \in Nat : N \in S
  BY <1>1, <1>2, SetInduction
<1> QED
  BY <1>3 DEF S

\* The lengths of chunks without a gap add up to the distance.
LEMMA SumIsDistance ==
  ASSUME NEW s \in Seq(Chunk), NEW a \in Nat, NEW b \in Nat, Covers(s, a, b)
  PROVE  SumLen(s) = b - a
<1> DEFINE N == Len(s)
           sum[n \in 0 .. N] == IF n = 0 THEN 0 ELSE sum[n - 1] + s[n].len
<1>1. N \in Nat /\ \A i \in 1 .. N : s[i].seq \in Nat /\ s[i].len \in Nat
  BY DEF Chunk
<1>2. sum = [n \in 0 .. N |-> IF n = 0 THEN 0 ELSE sum[n - 1] + s[n].len]
  BY <1>1, SumExists
<1>3. SumLen(s) = sum[N]
  BY DEF SumLen
<1> HIDE DEF sum, N
<1>4. sum[0] = 0 /\ \A n \in 1 .. N : sum[n] = sum[n - 1] + s[n].len
  <2>1. \A n \in 0 .. N : sum[n] = IF n = 0 THEN 0 ELSE sum[n - 1] + s[n].len
    BY <1>2
  <2> QED
    BY <1>1, <2>1
<1>5. CASE s = <<>>
  <2>1. N = 0 /\ a = b
    BY <1>5 DEF Covers, N
  <2> QED
    BY <1>3, <1>4, <2>1
<1>6. CASE s # <<>>
  <2>1. /\ N >= 1 /\ s[1].seq = a /\ s[N].seq + s[N].len = b
        /\ \A i \in 1 .. N - 1 : s[i + 1].seq = s[i].seq + s[i].len
    BY <1>1, <1>6 DEF Covers, N
  <2> DEFINE S == {n \in Nat : n + 1 <= N => sum[n + 1] = s[n + 1].seq + s[n + 1].len - a}
  <2>2. 0 \in S
    <3>1. sum[1] = sum[1 - 1] + s[1].len /\ 1 - 1 = 0
      BY <1>4, <2>1, <1>1
    <3>2. s[1].len \in Nat
      BY <1>1, <2>1
    <3> QED
      BY <1>4, <2>1, <3>1, <3>2
  <2>3. \A n \in Nat : n \in S => n + 1 \in S
    <3> SUFFICES ASSUME NEW n \in Nat, n \in S, (n + 1) + 1 <= N
                 PROVE  sum[(n + 1) + 1] = s[(n + 1) + 1].seq + s[(n + 1) + 1].len - a
      OBVIOUS
    <3>1. n + 1 \in 1 .. N - 1 /\ n + 1 \in 1 .. N /\ (n + 1) + 1 \in 1 .. N /\ ((n + 1) + 1) - 1 = n + 1
          /\ n + 1 <= N
      BY <1>1
    <3>2. sum[n + 1] = s[n + 1].seq + s[n + 1].len - a
      BY <3>1
    <3>3. sum[(n + 1) + 1] = sum[n + 1] + s[(n + 1) + 1].len
      BY <1>4, <3>1
    <3>4. s[(n + 1) + 1].seq = s[n + 1].seq + s[n + 1].len
      BY <2>1, <3>1
    <3>5. s[n + 1].seq \in Nat /\ s[n + 1].len \in Nat /\ s[(n + 1) + 1].len \in Nat
      BY <1>1, <3>1
    <3> DEFINE x == s[n + 1].seq
               y == s[n + 1].len
               z == s[(n + 1) + 1].len
    <3>6. x \in Nat /\ y \in Nat /\ z \in Nat /\ sum[n + 1] = x + y - a
          /\ s[(n + 1) + 1].seq = x + y /\ sum[(n + 1) + 1] = sum[n + 1] + z
      BY <3>2, <3>3, <3>4, <3>5
    <3>7. s[(n + 1) + 1].seq + z - a = sum[(n + 1) + 1]
      <4> HIDE DEF x, y, z, S
      <4> QED
        BY <3>6
    <3> HIDE DEF S
    <3> QED
      BY <3>7
  <2>4. \A n \in Nat : n \in S
    <3> HIDE DEF S
    <3> QED
      BY <2>2, <2>3, SetInduction
  <2>5. sum[N] = s[N].seq + s[N].len - a
    <3>1. N - 1 \in Nat /\ (N - 1) + 1 = N
      BY <1>1, <2>1
    <3> QED
      BY <2>4, <3>1
  <2>6. s[N].seq + s[N].len = b
    BY <2>1
  <2> QED
    <3>1. N \in 1 .. N
      BY <1>1, <2>1
    <3>2. s[N].seq \in Nat /\ s[N].len \in Nat
      BY <1>1, <3>1
    <3>3. sum[N] = b - a
      <4> DEFINE x == s[N].seq
                 y == s[N].len
      <4>1. x \in Nat /\ y \in Nat /\ sum[N] = x + y - a /\ x + y = b
        BY <2>5, <2>6, <3>2
      <4> HIDE DEF x, y, S
      <4> QED
        BY <4>1
    <3> QED
      BY <1>3, <3>3
<1> QED
  BY <1>5, <1>6

\* The parts put together: user buffer, item in hand, items put.
LEMMA StreamInvIntact == StreamInv => StreamIntact
<1> SUFFICES ASSUME StreamInv PROVE StreamIntact
  OBVIOUS
<1> DEFINE N == Len(rx_data)
           base == q \o rx.elems
           upto[n \in 0 .. N] == IF n = 0 THEN base ELSE upto[n - 1] \o rx_data[n].elems
<1>1. /\ rx_data \in Seq(Item) /\ rx.elems \in Seq(Chunk) /\ q \in Seq(Chunk)
  BY DEF StreamInv, ItemsInv, BufferInv
<1>2. N \in Nat /\ \A i \in 1 .. N : rx_data[i].elems \in Seq(Chunk)
  <2>1. N \in Nat /\ \A i \in 1 .. N : rx_data[i] \in Item
    BY <1>1
  <2> QED
    BY <2>1 DEF Item
<1>3. upto = [n \in 0 .. N |-> IF n = 0 THEN base ELSE upto[n - 1] \o rx_data[n].elems]
  BY <1>2, PipelineExists
<1>4. Pipeline = upto[N]
  BY DEF Pipeline
<1> HIDE DEF upto
<1>5. upto[0] = base /\ \A n \in 1 .. N : upto[n] = upto[n - 1] \o rx_data[n].elems
  <2>1. \A n \in 0 .. N : upto[n] = IF n = 0 THEN base ELSE upto[n - 1] \o rx_data[n].elems
    BY <1>3
  <2>2. 0 \in 0 .. N /\ \A n \in 1 .. N : n \in 0 .. N /\ n # 0
    BY <1>2
  <2> QED
    BY <2>1, <2>2
<1>6. PICK mark : Marks(mark)
  BY DEF StreamInv, ItemsInv
<1>7. PICK m : Buffered(m)
  BY DEF StreamInv, BufferInv
<1> HIDE DEF N
<1>8. /\ mark[0] = Acked /\ mark[N] = rx_nxt_inseq
      /\ \A i \in 1 .. N : Covers(rx_data[i].elems, Place(mark[i - 1]), Place(mark[i]))
  BY <1>6 DEF Marks, N
<1> DEFINE S == {n \in Nat : n <= N => upto[n] \in Seq(Chunk) /\ Covers(upto[n], read_nxt, Place(mark[n]))}
<1>9. 0 \in S
  <2>1. Covers(q, read_nxt, m) /\ Covers(rx.elems, m, Place(mark[0]))
    BY <1>7, <1>8 DEF Buffered
  <2>2. base \in Seq(Chunk) /\ Covers(base, read_nxt, Place(mark[0]))
    BY <1>1, <2>1, CoversConcat
  <2> HIDE DEF base
  <2> QED
    BY <1>5, <2>2
<1>10. \A n \in Nat : n \in S => n + 1 \in S
  <2> SUFFICES ASSUME NEW n \in Nat, n \in S, n + 1 <= N
               PROVE  upto[n + 1] \in Seq(Chunk) /\ Covers(upto[n + 1], read_nxt, Place(mark[n + 1]))
    OBVIOUS
  <2>1. n + 1 \in 1 .. N /\ (n + 1) - 1 = n /\ n <= N
    BY <1>2
  <2>2. upto[n] \in Seq(Chunk) /\ Covers(upto[n], read_nxt, Place(mark[n]))
    BY <2>1
  <2>3. upto[n + 1] = upto[n] \o rx_data[n + 1].elems
    BY <1>5, <2>1
  <2>4. rx_data[n + 1].elems \in Seq(Chunk) /\ Covers(rx_data[n + 1].elems, Place(mark[n]), Place(mark[n + 1]))
    BY <1>2, <1>8, <2>1
  <2> HIDE DEF S
  <2> QED
    BY <2>2, <2>3, <2>4, CoversConcat
<1>11. N \in S
  <2> HIDE DEF S
  <2> QED
    BY <1>2, <1>9, <1>10, SetInduction
<1>12. Covers(Pipeline, read_nxt, Place(rx_nxt_inseq))
  BY <1>2, <1>4, <1>8, <1>11
<1> QED
  BY <1>12 DEF StreamIntact, Covers, Place

\* The order of the places in the stream.
LEMMA PlacesInOrder ==
  ASSUME StreamInv
  PROVE  /\ rx_nxt \in StreamStart .. StreamEnd + 1
         /\ read_nxt \in StreamStart .. StreamEnd
         /\ read_nxt <= Place(rx_nxt_inseq)
         /\ cur_size \in Nat
<1>1. PICK mark : Marks(mark)
  BY DEF StreamInv, ItemsInv
<1>2. PICK m : Buffered(m)
  BY DEF StreamInv, BufferInv
<1>3. /\ rx_data \in Seq(Item) /\ rx.elems \in Seq(Chunk) /\ q \in Seq(Chunk) /\ read_nxt \in Nat /\ rx_nxt \in Nat
      /\ StreamStart <= read_nxt /\ StreamStart <= rx_nxt /\ rx_nxt_inseq \in StreamStart .. StreamEnd + 1
      /\ (rx.pc = "blocked" => rx.elems # <<>>)
  BY DEF StreamInv, ItemsInv, BufferInv, NetworkInv
<1>4. Acked \in Nat /\ rx_nxt <= Acked
  BY AckedType DEF StreamInv
<1>5. Acked <= rx_nxt_inseq
  <2>1. 0 \in 0 .. Len(rx_data)
    BY <1>3
  <2> QED
    BY <1>1, <2>1 DEF Marks
<1>6. Place(Acked) \in Nat /\ Place(Acked) <= StreamEnd /\ Place(Acked) <= Place(rx_nxt_inseq)
  BY <1>3, <1>4, <1>5, RxAssumption DEF Place, Smaller
<1>7. m \in Nat /\ Covers(q, read_nxt, m) /\ Covers(rx.elems, m, Place(Acked))
      /\ cur_size = m - read_nxt + IF rx.pc = "blocked" THEN Head(rx.elems).len ELSE 0
  BY <1>2 DEF Buffered
<1>8. read_nxt <= m /\ m <= Place(Acked)
  BY <1>3, <1>6, <1>7, CoversGrows
<1>9. cur_size \in Nat
  <2>1. CASE rx.pc = "blocked"
    <3>1. Head(rx.elems).len \in Nat
      BY <1>2, <1>3, <2>1, ChunkInHand
    <3> QED
      BY <1>3, <1>7, <1>8, <2>1, <3>1
  <2>2. CASE rx.pc # "blocked"
    BY <1>3, <1>7, <1>8, <2>2
  <2> QED
    BY <2>1, <2>2
<1>10. Place(rx_nxt_inseq) \in Nat /\ Place(rx_nxt_inseq) <= StreamEnd
  <2>1. rx_nxt_inseq \in Nat
    BY <1>3, RxAssumption
  <2> QED
    BY <2>1, PlaceType
<1>11. rx_nxt \in StreamStart .. StreamEnd + 1
  BY <1>3, <1>4, <1>5, RxAssumption
<1>12. read_nxt <= Place(rx_nxt_inseq)
  BY <1>3, <1>6, <1>7, <1>8, <1>10
<1>13. read_nxt \in StreamStart .. StreamEnd
  BY <1>3, <1>10, <1>12, RxAssumption
<1> QED
  BY <1>9, <1>11, <1>12, <1>13

-----------------------------------------------------------------------------
(* The end of the stream is on its way only when the FIN was received. *)

\* Chunks that may be on their way: the end only when it was received.
Known == {c \in Chunk : c.len = 0 => rx_nxt_inseq = StreamEnd + 1}

\* Every chunk on its way is known.
FinInv ==
  /\ q \in Seq(Known) /\ rx.elems \in Seq(Known)
  /\ \A i \in 1 .. Len(rx_data) : rx_data[i].elems \in Seq(Known)

\* The head of one sequence goes to the end of another.
LEMMA SeqMoves ==
  ASSUME NEW A, NEW s \in Seq(A), NEW t \in Seq(A), s # <<>>
  PROVE  Tail(s) \in Seq(A) /\ Append(t, Head(s)) \in Seq(A)
<1>1. Head(s) \in A /\ Tail(s) \in Seq(A)
  OBVIOUS
<1> QED
  BY <1>1

\* Steps that only take chunks from one place to the next.
LEMMA FinFrame ==
  ASSUME FinInv, UNCHANGED <<rx_nxt_inseq, rx_data>>,
         q' \in Seq(Known), rx'.elems \in Seq(Known)
  PROVE  FinInv'
<1>1. Known' = Known
  BY DEF Known
<1> QED
  BY <1>1 DEF FinInv

\* No chunk is on its way at first.
LEMMA InitFin == Init => FinInv
  BY DEF Init, FinInv

\* The receive thread and the application only move chunks on.
LEMMA FinSteps ==
  ASSUME StreamInv, FinInv,
         RxTake \/ RxAck \/ RxAcked \/ RxAgain \/ AddToReader \/ AddToQueue \/ AddBlocks \/ Read \/ ReadWaits
  PROVE  FinInv'
<1>1. /\ q \in Seq(Known) /\ rx.elems \in Seq(Known) /\ rx_data \in Seq(Item) /\ rx \in RxType
      /\ (rx.pc = "blocked" => rx.elems # <<>>)
  BY DEF FinInv, StreamInv, ItemsInv, RxType
<1>2. CASE RxTake
  <2>1. /\ rx_data # <<>> /\ rx'.elems = Head(rx_data).elems /\ rx_data' = Tail(rx_data)
        /\ UNCHANGED <<rx_nxt_inseq, q>>
    BY <1>2 DEF RxTake, buffer
  <2>2. /\ Len(rx_data) \in Nat /\ Len(rx_data) >= 1 /\ Head(rx_data) = rx_data[1] /\ Len(rx_data') = Len(rx_data) - 1
        /\ \A i \in 1 .. Len(rx_data) - 1 : rx_data'[i] = rx_data[i + 1] /\ i + 1 \in 1 .. Len(rx_data)
    BY <1>1, <2>1
  <2>3. rx'.elems \in Seq(Known) /\ \A i \in 1 .. Len(rx_data') : rx_data'[i].elems \in Seq(Known)
    BY <2>1, <2>2 DEF FinInv
  <2>4. Known' = Known
    BY <2>1 DEF Known
  <2> QED
    BY <1>1, <2>1, <2>3, <2>4 DEF FinInv
<1>3. CASE RxAck \/ RxAcked \/ RxAgain \/ AddBlocks \/ ReadWaits
  <2>1. UNCHANGED <<rx_nxt_inseq, rx_data, q>> /\ (rx'.elems = rx.elems \/ rx'.elems = <<>>)
    BY <1>1, <1>3 DEF RxAck, RxAcked, RxAgain, AddBlocks, ReadWaits, buffer, RxType
  <2>2. <<>> \in Seq(Known)
    OBVIOUS
  <2>3. q' \in Seq(Known) /\ rx'.elems \in Seq(Known)
    BY <1>1, <2>1, <2>2, Zenon
  <2> QED
    BY <2>1, <2>3, FinFrame
<1>4. CASE AddToReader \/ AddToQueue
  <2>1. /\ rx.elems # <<>> /\ UNCHANGED <<rx_nxt_inseq, rx_data>> /\ rx'.elems = Tail(rx.elems)
        /\ (q' = q \/ q' = Append(q, Head(rx.elems)))
    BY <1>1, <1>4 DEF AddToReader, AddToQueue, RxType
  <2>2. q' \in Seq(Known) /\ rx'.elems \in Seq(Known)
    BY <1>1, <2>1, SeqMoves, Zenon
  <2> QED
    BY <2>1, <2>2, FinFrame
<1>5. CASE Read
  <2>1. /\ q # <<>> /\ UNCHANGED <<rx_nxt_inseq, rx_data>>
        /\ \/ rx.pc = "blocked" /\ q' = Append(Tail(q), Head(rx.elems)) /\ rx'.elems = Tail(rx.elems)
           \/ q' = Tail(q) /\ rx'.elems = rx.elems
    BY <1>1, <1>5 DEF Read, RxType
  <2>2. Tail(q) \in Seq(Known)
    BY <1>1, <2>1, SeqMoves
  <2>3. q' \in Seq(Known) /\ rx'.elems \in Seq(Known)
    BY <1>1, <2>1, <2>2, SeqMoves, Zenon
  <2> QED
    BY <2>1, <2>3, FinFrame
<1> QED
  BY <1>2, <1>3, <1>4, <1>5

\* Rx.input puts the end of the stream after a FIN, and only then.
LEMMA InputFin ==
  ASSUME NoWrap, StreamInv, FinInv, NEW seg \in Segments, Input(seg)
  PROVE  FinInv'
<1> DEFINE segs == SetAdd(seg, waiting)
           w == Walk(segs)
<1>1. rx_nxt_inseq' = w.nxt /\ rx_data' = rx_data \o Items(w) /\ UNCHANGED <<rx, q>>
  BY DEF Input, buffer
<1>2. rx_nxt_inseq \in StreamStart .. StreamEnd + 1 /\ waiting \in SUBSET Segments /\ IsFiniteSet(waiting)
  BY DEF StreamInv, NetworkInv
<1>3. segs \in SUBSET Segments /\ IsFiniteSet(segs)
  <2>1. IsFiniteSet(waiting \cup {seg})
    BY <1>2, FS_AddElement
  <2> QED
    BY <1>2, <2>1 DEF SetAdd
<1> HIDE DEF segs
<1>4. WalkInv(w)
  BY <1>2, <1>3, WalkSound
<1> HIDE DEF w
<1>5. /\ w.nxt \in Nat /\ rx_nxt_inseq <= w.nxt /\ w.nxt <= StreamEnd + 1 /\ w.data \in Seq(Bytes)
      /\ w.fin \in BOOLEAN /\ (w.fin => w.nxt = StreamEnd + 1)
  BY <1>4 DEF WalkInv, WalkState
<1>6. Known' = {c \in Chunk : c.len = 0 => w.nxt = StreamEnd + 1}
  BY <1>1 DEF Known
<1>7. Known \subseteq Known' /\ Bytes \subseteq Known'
  <2>1. rx_nxt_inseq = StreamEnd + 1 => w.nxt = StreamEnd + 1
    BY <1>2, <1>5, RxAssumption
  <2> QED
    BY <1>6, <2>1 DEF Known, Bytes
<1> DEFINE d == w.nxt - rx_nxt_inseq
           item == [adv |-> IF w.force \/ d > 0 THEN d ELSE NoAdvance, elems |-> w.data]
           eof == [adv |-> 0, elems |-> <<Eof>>]
           new == Items(w)
           K == Known'
<1>8. new = IF w.fin THEN <<item, eof>> ELSE <<item>>
  BY DEF Items
<1>9. item.elems \in Seq(K) /\ (w.fin => eof.elems \in Seq(K))
  <2>1. w.data \in Seq(K)
    BY <1>5, <1>7, SeqMonotone
  <2>2. w.fin => Eof \in K
    BY <1>5, <1>6, RxAssumption DEF Eof, Chunk
  <2> HIDE DEF K
  <2> QED
    BY <2>1, <2>2
<1> HIDE DEF item, eof, K
<1>10. new \in Seq({item, eof}) /\ \A i \in 1 .. Len(new) : new[i].elems \in Seq(K)
  <2> HIDE DEF new
  <2>1. CASE w.fin
    <3>1. new = <<item, eof>>
      BY <1>8, <2>1
    <3>2. new \in Seq({item, eof}) /\ Len(new) = 2 /\ new[1] = item /\ new[2] = eof
      BY <3>1
    <3> QED
      BY <1>9, <2>1, <3>2
  <2>2. CASE ~w.fin
    <3>1. new = <<item>>
      BY <1>8, <2>2
    <3>2. new \in Seq({item, eof}) /\ Len(new) = 1 /\ new[1] = item
      BY <3>1
    <3> QED
      BY <1>9, <3>2
  <2> QED
    BY <2>1, <2>2
<1> HIDE DEF new
<1>11. \A i \in 1 .. Len(rx_data') : rx_data'[i].elems \in Seq(K)
  <2>1. rx_data \in Seq(Item) /\ \A i \in 1 .. Len(rx_data) : rx_data[i].elems \in Seq(Known)
    BY DEF FinInv, StreamInv, ItemsInv
  <2>2. \A i \in 1 .. Len(rx_data) : rx_data[i].elems \in Seq(K)
    <3> SUFFICES ASSUME NEW i \in 1 .. Len(rx_data) PROVE rx_data[i].elems \in Seq(K)
      OBVIOUS
    <3>1. rx_data[i].elems \in Seq(Known) /\ Known \subseteq K
      BY <1>7, <2>1 DEF K
    <3> QED
      BY <3>1, SeqMonotone
  <2>3. rx_data' = rx_data \o new
    BY <1>1 DEF new
  <2> SUFFICES ASSUME NEW i \in 1 .. Len(rx_data') PROVE rx_data'[i].elems \in Seq(K)
    OBVIOUS
  <2>4. /\ Len(rx_data) \in Nat /\ Len(new) \in Nat /\ Len(rx_data') = Len(rx_data) + Len(new)
        /\ rx_data'[i] = IF i <= Len(rx_data) THEN rx_data[i] ELSE new[i - Len(rx_data)]
    BY <1>10, <2>1, <2>3
  <2>5. CASE i <= Len(rx_data)
    BY <2>2, <2>4, <2>5
  <2>6. CASE i > Len(rx_data)
    <3>1. i - Len(rx_data) \in 1 .. Len(new) /\ rx_data'[i] = new[i - Len(rx_data)]
      BY <2>4, <2>6
    <3> QED
      BY <1>10, <3>1
  <2> QED
    BY <2>4, <2>5, <2>6
<1>12. q' \in Seq(K) /\ rx'.elems \in Seq(K)
  <2>1. q \in Seq(Known) /\ rx.elems \in Seq(Known) /\ Known \subseteq K
    BY <1>7 DEF FinInv, K
  <2>2. q \in Seq(K) /\ rx.elems \in Seq(K)
    BY <2>1, SeqMonotone
  <2> QED
    BY <1>1, <2>2
<1> QED
  BY <1>11, <1>12 DEF FinInv, K

-----------------------------------------------------------------------------
\* The steps that belong to acknowledging alone.
AckStep == AckTimer \/ SendEmptyAck \/ OutputWithAck \/ Notify

\* They do not touch the stream.
LEMMA AckStepFrame ==
  ASSUME AckStep \/ TxTake \/ (\E seg \in Segments : InputInvalid(seg)) \/ UNCHANGED vars
  PROVE  /\ UNCHANGED <<rx_nxt_inseq, rx_nxt, waiting, rx_data, rx, buffer>>
         /\ tx_ack' = tx_ack \/ (tx_ack' = Tail(tx_ack) /\ tx_ack # <<>>)
<1>1. CASE AckStep
  BY <1>1 DEF AckStep, AckTimer, SendEmptyAck, OutputWithAck, Notify
<1>2. CASE TxTake
  BY <1>2 DEF TxTake
<1>3. CASE (\E seg \in Segments : InputInvalid(seg)) \/ UNCHANGED vars
  BY <1>3 DEF InputInvalid, vars
<1> QED
  BY <1>1, <1>2, <1>3

\* The inductive invariant.
IInv == StreamInv /\ FinInv

\* Every step of the receive half.
LEMMA NextStream ==
  ASSUME NoWrap, IInv, [Next]_vars
  PROVE  IInv'
<1>1. StreamInv /\ FinInv
  BY DEF IInv
<1>2. CASE \E seg \in Segments : Input(seg)
  BY <1>1, <1>2, InputStream, InputFin DEF IInv
<1>3. CASE AckStep \/ TxTake \/ (\E seg \in Segments : InputInvalid(seg)) \/ UNCHANGED vars
  <2>1. /\ UNCHANGED <<rx_nxt_inseq, rx_nxt, waiting, rx_data, rx, buffer>>
        /\ tx_ack' = tx_ack \/ (tx_ack' = Tail(tx_ack) /\ tx_ack # <<>>)
    BY <1>3, AckStepFrame
  <2>2. StreamInv'
    BY <1>1, <2>1, FrameStream
  <2>3. q' \in Seq(Known) /\ rx'.elems \in Seq(Known) /\ UNCHANGED <<rx_nxt_inseq, rx_data>>
    BY <1>1, <2>1 DEF FinInv, buffer
  <2> QED
    BY <1>1, <2>2, <2>3, FinFrame DEF IInv
<1>4. CASE RxThread \/ Application
  <2>1. StreamInv'
    BY <1>1, <1>4, RxTakeStream, RxAckStream, RxAckedStream, AddToReaderStream, AddToQueueStream,
       AddBlocksStream, ReadStream, ReadWaitsStream DEF RxThread, Application
  <2>2. FinInv'
    BY <1>1, <1>4, FinSteps DEF RxThread, Application
  <2> QED
    BY <2>1, <2>2 DEF IInv
<1> QED
  BY <1>2, <1>3, <1>4 DEF Next, AckStep

(***************************************************************************)
(* The invariant that the others follow from. The walk of Rx.input         *)
(* (segment.ml) decides by Int32.compare what comes next, so the stream    *)
(* must not cross the sign of the numbers: a segment of the past that      *)
(* waits across it is no longer behind.                                    *)
(***************************************************************************)
THEOREM SpecIInv ==
  ASSUME NoWrap
  PROVE  Spec => []IInv
<1>1. Init => IInv
  BY InitStream, InitFin DEF IInv
<1>2. IInv /\ [Next]_vars => IInv'
  BY NextStream
<1> QED
  BY <1>1, <1>2, PTL DEF Spec

(***************************************************************************)
(* No byte is lost, doubled or reordered between Segment.Rx.input and the  *)
(* application, however segments, ACKs, the receive thread and the reads   *)
(* interleave (segment.ml:110-166, pcb.ml:145-170, user_buffer.ml:55-92).  *)
(***************************************************************************)
THEOREM SpecStreamIntact ==
  ASSUME NoWrap
  PROVE  Spec => []StreamIntact
<1>1. IInv => StreamIntact
  BY StreamInvIntact DEF IInv
<1> QED
  BY <1>1, SpecIInv, PTL

\* The window as notify_size_watcher computes it, at any time.
WindowFollowsCount == rx_wnd = Larger(0, MaxRxWnd - cur_size)

\* A timer is whether it runs, and its number.
TimerIsRecord == \E b \in BOOLEAN : \E n : ack_timer = [running |-> b, seq |-> n]

-----------------------------------------------------------------------------
(* What a step does to the two pieces of state: the steps that do not      *)
(* touch one leave it alone.                                               *)

LEMMA NetworkSteps ==
  ASSUME \/ \E seg \in Segments : Input(seg) \/ InputInvalid(seg)
         \/ TxTake \/ RxTake \/ RxAcked \/ RxAgain
  PROVE  UNCHANGED <<buffer, acks>>
  BY DEF Input, InputInvalid, TxTake, RxTake, RxAcked, RxAgain, vars

LEMMA AckSteps ==
  ASSUME AckTimer \/ SendEmptyAck \/ OutputWithAck \/ Notify \/ RxAck
  PROVE  UNCHANGED buffer
  BY DEF AckTimer, SendEmptyAck, OutputWithAck, Notify, RxAck

LEMMA BufferSteps ==
  ASSUME AddToReader \/ AddToQueue \/ AddBlocks \/ Read \/ ReadWaits
  PROVE  UNCHANGED acks
  BY DEF AddToReader, AddToQueue, AddBlocks, Read, ReadWaits

-----------------------------------------------------------------------------
(***************************************************************************)
(* A delayed ACK has its timer (ack.ml, Delayed.receive, ontimer and       *)
(* transmit): the ACKs that go out with data, the prompts and the timer    *)
(* interleave in any order with the segments.                              *)
(***************************************************************************)
THEOREM SpecDelayedIsTimed == Spec => []DelayedIsTimed
  <1> DEFINE I == TimerIsRecord /\ DelayedIsTimed
  <1>1. Init => I
    BY DEF Init, Stopped, TimerIsRecord, DelayedIsTimed
  <1>2. I /\ [Next]_vars => I'
    <2> SUFFICES ASSUME TimerIsRecord, DelayedIsTimed, [Next]_vars PROVE I'
      OBVIOUS
    <2> USE DEF TimerIsRecord
    <2>1. CASE UNCHANGED acks
      BY <2>1 DEF DelayedIsTimed, acks
    <2>2. CASE AckTimer
      <3>1. CASE ~delayed
        <4>1. delayed' = delayed /\ ack_timer' = Stopped
          BY <2>2, <3>1 DEF AckTimer
        <4>2. TimerIsRecord'
          BY <4>1 DEF Stopped
        <4> QED
          BY <3>1, <4>1, <4>2 DEF DelayedIsTimed
      <3>2. CASE delayed /\ delayedack # ack_timer.seq
        <4>1. ack_timer.running /\ ack_timer' = [ack_timer EXCEPT !.seq = delayedack]
          BY <2>2, <3>2 DEF AckTimer
        <4>2. ack_timer'.running = ack_timer.running /\ TimerIsRecord'
          BY <4>1
        <4> QED
          BY <4>1, <4>2 DEF DelayedIsTimed
      <3>3. CASE delayed /\ delayedack = ack_timer.seq
        BY <2>2, <3>3 DEF AckTimer, Stopped, DelayedIsTimed
      <3> QED
        BY <3>1, <3>2, <3>3
    <2>3. CASE SendEmptyAck \/ Notify
      BY <2>3 DEF SendEmptyAck, Notify, Transmit, DelayedIsTimed
    <2>4. CASE OutputWithAck
      BY <2>4 DEF OutputWithAck, DelayedIsTimed
    <2>5. CASE RxAck
      <3>1. \/ UNCHANGED acks
            \/ \E n : Receive(n)
            \/ PushAck
        BY <2>5 DEF RxAck
      <3>2. ASSUME NEW n, Receive(n) PROVE I'
        <4>1. CASE delayed
          BY <3>2, <4>1 DEF Receive, DelayedIsTimed
        <4>2. CASE ~delayed
          <5>1. ack_timer' = IF ack_timer.running THEN ack_timer
                             ELSE [running |-> TRUE, seq |-> n]
            BY <3>2, <4>2 DEF Receive
          <5>2. CASE ack_timer.running
            BY <5>1, <5>2 DEF DelayedIsTimed
          <5>3. CASE ~ack_timer.running
            <6>1. ack_timer' = [running |-> TRUE, seq |-> n]
              BY <5>1, <5>3
            <6> QED
              BY <6>1 DEF DelayedIsTimed
          <5> QED
            BY <5>2, <5>3
        <4> QED
          BY <4>1, <4>2
      <3>3. CASE PushAck
        BY <3>3 DEF PushAck, DelayedIsTimed
      <3> QED
        BY <2>1, <3>1, <3>2, <3>3
    <2> QED
      BY <2>1, <2>2, <2>3, <2>4, <2>5, NetworkSteps, BufferSteps
         DEF Next, RxThread, Application, vars
  <1>3. I => DelayedIsTimed
    OBVIOUS
  <1> QED
    BY <1>1, <1>2, <1>3, PTL DEF Spec

(***************************************************************************)
(* The window advertised is what the count of the user buffer leaves free, *)
(* also while a thread is blocked (user_buffer.ml, add_r and take_l).      *)
(***************************************************************************)
THEOREM SpecWindowFollowsCount == Spec => []WindowFollowsCount
  <1>1. Init => WindowFollowsCount
    BY RxAssumption DEF Init, WindowFollowsCount, Larger
  <1>2. WindowFollowsCount /\ [Next]_vars => WindowFollowsCount'
    <2> SUFFICES ASSUME WindowFollowsCount, [Next]_vars PROVE WindowFollowsCount'
      OBVIOUS
    <2>1. CASE UNCHANGED buffer
      BY <2>1 DEF WindowFollowsCount, buffer
    <2>2. CASE AddToReader \/ ReadWaits
      BY <2>2 DEF AddToReader, ReadWaits, WindowFollowsCount
    <2>3. CASE AddToQueue \/ AddBlocks \/ Read
      BY <2>3 DEF AddToQueue, AddBlocks, Read, SetRxWnd, WindowFollowsCount
    <2> QED
      BY <2>1, <2>2, <2>3, NetworkSteps, AckSteps DEF Next, RxThread, Application, vars
  <1> QED
    BY <1>1, <1>2, PTL DEF Spec


-----------------------------------------------------------------------------
(* The timer and the counters of Ack.Delayed                               *)

AckType ==
  /\ delayed \in BOOLEAN /\ pushpending \in BOOLEAN
  /\ delayedack \in Nat
  /\ ack_timer \in [running : BOOLEAN, seq : Nat]
  /\ send_ack \in Nat /\ rx_ack \in Nat

\* A prompt is put at most once.
LEMMA TransmitAckType ==
  ASSUME AckType, TransmitAck
  PROVE  pushpending' \in BOOLEAN /\ send_ack' \in Nat
<1>1. CASE pushpending
  BY <1>1 DEF AckType, TransmitAck
<1>2. CASE ~pushpending
  <2>1. pushpending' = TRUE /\ send_ack' = send_ack + 1
    BY <1>2 DEF TransmitAck
  <2> QED
    BY <2>1 DEF AckType
<1> QED
  BY <1>1, <1>2

\* Every step of Ack.Delayed.
LEMMA AckTypeSteps ==
  ASSUME AckType, AckStep \/ UNCHANGED acks \/ (RxAck /\ rx_nxt' \in Nat)
  PROVE  AckType'
<1>1. CASE UNCHANGED acks
  BY <1>1 DEF AckType, acks
<1>2. CASE SendEmptyAck \/ Notify \/ OutputWithAck
  <2>1. /\ send_ack' \in Nat /\ rx_ack' \in Nat
        /\ UNCHANGED <<delayedack, ack_timer>>
    BY <1>2 DEF SendEmptyAck, Notify, OutputWithAck, AckType
  <2>2. delayed' \in BOOLEAN /\ pushpending' \in BOOLEAN
    BY <1>2, Zenon DEF SendEmptyAck, Notify, OutputWithAck, AckType, Transmit
  <2> QED
    BY <2>1, <2>2 DEF AckType
<1>3. CASE AckTimer
  <2>1. UNCHANGED <<delayedack, rx_ack>>
    BY <1>3 DEF AckTimer
  <2>2. Stopped \in [running : BOOLEAN, seq : Nat]
    BY RxAssumption DEF Stopped
  <2>3. ack_timer' = Stopped \/ ack_timer' = [ack_timer EXCEPT !.seq = delayedack]
    BY <1>3 DEF AckTimer
  <2>4. ack_timer' \in [running : BOOLEAN, seq : Nat]
    BY <2>2, <2>3 DEF AckType
  <2>5. (UNCHANGED <<delayed, pushpending, send_ack>>) \/ (delayed' = FALSE /\ TransmitAck)
    BY <1>3, Zenon DEF AckTimer
  <2>6. delayed' \in BOOLEAN /\ pushpending' \in BOOLEAN /\ send_ack' \in Nat
    <3>1. CASE UNCHANGED <<delayed, pushpending, send_ack>>
      BY <3>1 DEF AckType
    <3>2. CASE delayed' = FALSE /\ TransmitAck
      BY <3>2, TransmitAckType
    <3> QED
      BY <2>5, <3>1, <3>2
  <2> QED
    BY <2>1, <2>4, <2>6 DEF AckType
<1>4. CASE RxAck /\ rx_nxt' \in Nat
  <2>1. UNCHANGED acks \/ Receive(rx_nxt') \/ PushAck
    BY <1>4 DEF RxAck
  <2>2. CASE Receive(rx_nxt')
    <3>1. delayed' \in BOOLEAN /\ rx_ack' = rx_ack
      BY <2>2 DEF Receive, AckType
    <3>2. CASE delayed
      <4>1. TransmitAck /\ UNCHANGED <<delayedack, ack_timer>>
        BY <2>2, <3>2 DEF Receive
      <4>2. pushpending' \in BOOLEAN /\ send_ack' \in Nat
        BY <4>1, TransmitAckType
      <4> QED
        BY <3>1, <4>1, <4>2 DEF AckType
    <3>3. CASE ~delayed
      <4>1. /\ delayedack' = rx_nxt' /\ UNCHANGED <<pushpending, send_ack>>
            /\ ack_timer' = IF ack_timer.running THEN ack_timer ELSE [running |-> TRUE, seq |-> rx_nxt']
        BY <2>2, <3>3 DEF Receive
      <4>2. ack_timer' \in [running : BOOLEAN, seq : Nat]
        BY <1>4, <4>1 DEF AckType
      <4> QED
        BY <1>4, <3>1, <4>1, <4>2 DEF AckType
    <3> QED
      BY <3>2, <3>3
  <2>3. CASE PushAck
    BY <2>3 DEF PushAck, AckType
  <2> QED
    BY <1>1, <2>1, <2>2, <2>3
<1> QED
  BY <1>1, <1>2, <1>3, <1>4 DEF AckStep

(***************************************************************************)
(* The counters and the timer of Ack.Delayed (ack.ml) keep their types: no *)
(* prompt is taken that was not put.                                       *)
(***************************************************************************)
THEOREM SpecAckType ==
  ASSUME NoWrap
  PROVE  Spec => []AckType
<1>1. Init => AckType
  <2> SUFFICES ASSUME Init PROVE AckType
    OBVIOUS
  <2>1. delayed = FALSE /\ pushpending = FALSE /\ delayedack = StreamStart /\ send_ack = 0 /\ rx_ack = 0
        /\ ack_timer = [running |-> FALSE, seq |-> StreamStart]
    BY DEF Init, Stopped
  <2>2. delayedack \in Nat /\ ack_timer \in [running : BOOLEAN, seq : Nat]
    BY <2>1, RxAssumption
  <2>3. delayed \in BOOLEAN /\ pushpending \in BOOLEAN
    BY <2>1, Zenon
  <2> QED
    BY <2>1, <2>2, <2>3 DEF AckType
<1>2. AckType /\ IInv' /\ [Next]_vars => AckType'
  <2> SUFFICES ASSUME AckType, IInv', [Next]_vars PROVE AckType'
    OBVIOUS
  <2>1. rx_nxt' \in Nat
    BY DEF IInv, StreamInv, ItemsInv
  <2>2. UNCHANGED acks \/ AckStep \/ RxAck
    BY NetworkSteps, BufferSteps DEF Next, RxThread, Application, vars, AckStep
  <2> QED
    BY <2>1, <2>2, AckTypeSteps
<1> QED
  BY <1>1, <1>2, SpecIInv, PTL DEF Spec

(***************************************************************************)
(* Segments wait only for what is before them, a delayed ACK has its       *)
(* timer, and the numbers stay within the stream and the buffer            *)
(* (segment.ml:120-136, ack.ml:93-128, user_buffer.ml:44-62).              *)
(***************************************************************************)
THEOREM SpecNothingIsForgotten ==
  ASSUME NoWrap
  PROVE  Spec => []NothingIsForgotten
<1>1. IInv /\ AckType /\ WindowFollowsCount /\ DelayedIsTimed => NothingIsForgotten
  <2> SUFFICES ASSUME IInv, AckType, WindowFollowsCount, DelayedIsTimed PROVE NothingIsForgotten
    OBVIOUS
  <2>1. StreamInv
    BY DEF IInv
  <2>2. /\ rx_nxt \in StreamStart .. StreamEnd + 1
        /\ read_nxt \in StreamStart .. StreamEnd
        /\ cur_size \in Nat
    BY <2>1, PlacesInOrder
  <2>3. rx_wnd \in 0 .. MaxRxWnd
    BY <2>2, RxAssumption DEF WindowFollowsCount, Larger
  <2>4. TypeOK
    BY <2>1, <2>2, <2>3 DEF StreamInv, NetworkInv, ItemsInv, BufferInv, AckType, TypeOK
  <2> QED
    BY <2>1, <2>4 DEF NothingIsForgotten, StreamInv, NetworkInv
<1> QED
  BY <1>1, SpecIInv, SpecAckType, SpecWindowFollowsCount, SpecDelayedIsTimed, PTL

(***************************************************************************)
(* The window advertised is what the chunks in the user buffer leave free, *)
(* the chunk of a blocked thread counted as in it: the count kept by add_r *)
(* and take_l is the sum of the lengths (user_buffer.ml:44-92).            *)
(***************************************************************************)
THEOREM SpecWindowIsFreeSpace ==
  ASSUME NoWrap
  PROVE  Spec => []WindowIsFreeSpace
<1>1. IInv /\ WindowFollowsCount => WindowIsFreeSpace
  <2> SUFFICES ASSUME IInv, WindowFollowsCount PROVE WindowIsFreeSpace
    OBVIOUS
  <2>1. q \in Seq(Chunk) /\ read_nxt \in Nat
    BY DEF IInv, StreamInv, BufferInv
  <2>2. PICK m : Buffered(m)
    BY DEF IInv, StreamInv, BufferInv
  <2>3. m \in Nat /\ Covers(q, read_nxt, m)
        /\ cur_size = m - read_nxt + IF rx.pc = "blocked" THEN Head(rx.elems).len ELSE 0
    BY <2>2 DEF Buffered
  <2>4. SumLen(q) = m - read_nxt
    BY <2>1, <2>3, SumIsDistance
  <2> QED
    BY <2>3, <2>4 DEF WindowFollowsCount, WindowIsFreeSpace
<1> QED
  BY <1>1, SpecIInv, SpecWindowFollowsCount, PTL

-----------------------------------------------------------------------------
\* A chunk the application gets is a step of the abstract stream.
LEMMA GotIsStep ==
  ASSUME IInv, IInv', NEW c \in Known, Got(c), ~eof_read, rx_nxt_inseq' = rx_nxt_inseq
  PROVE  Stream!Next
<1>1. read_nxt \in Nat /\ rx_nxt_inseq \in Nat /\ c.len \in Nat
      /\ (c.len = 0 => rx_nxt_inseq = StreamEnd + 1)
  BY RxAssumption DEF IInv, StreamInv, NetworkInv, BufferInv, Known, Chunk
<1>2. read_nxt' = read_nxt + c.len /\ eof_read' = (c.len = 0)
  BY DEF Got
<1>3. StreamInv' /\ StreamInv
  BY DEF IInv
<1>4. read_nxt' \in StreamStart .. StreamEnd /\ read_nxt' <= rx_nxt_inseq
  <2>1. (read_nxt \in StreamStart .. StreamEnd /\ read_nxt <= Place(rx_nxt_inseq))'
    BY <1>3, PlacesInOrder, PTL
  <2>2. Place(rx_nxt_inseq)' = Place(rx_nxt_inseq)
    BY DEF Place
  <2>3. Place(rx_nxt_inseq) \in Nat /\ Place(rx_nxt_inseq) <= rx_nxt_inseq
    BY <1>1, PlaceType
  <2> QED
    BY <1>1, <2>1, <2>2, <2>3, RxAssumption
<1>5. CASE c.len = 0
  <2>1. eof_read' = TRUE /\ read_nxt' = read_nxt
    <3>1. eof_read' = TRUE
      BY <1>2, <1>5, Zenon
    <3>2. read_nxt' = read_nxt
      BY <1>1, <1>2, <1>5
    <3> QED
      BY <3>1, <3>2
  <2>2. read_nxt = StreamEnd
    BY <1>3, <2>1 DEF StreamInv, BufferInv
  <2> QED
    BY <1>1, <1>5, <2>1, <2>2 DEF Stream!Next, Stream!Finish
<1>6. CASE c.len > 0
  <2>1. eof_read' = FALSE /\ eof_read = FALSE
    <3>1. eof_read \in BOOLEAN /\ c.len # 0
      BY <1>1, <1>3, <1>6 DEF StreamInv, BufferInv
    <3> QED
      BY <1>2, <3>1
  <2>2. read_nxt' \in read_nxt + 1 .. StreamEnd
    BY <1>1, <1>2, <1>4, <1>6, RxAssumption
  <2> QED
    BY <1>4, <2>1, <2>2 DEF Stream!Next, Stream!Read
<1> QED
  BY <1>1, <1>5, <1>6

\* rx_nxt_inseq never goes back.
LEMMA InputAdvances ==
  ASSUME NoWrap, IInv, NEW seg \in Segments, Input(seg)
  PROVE  rx_nxt_inseq <= rx_nxt_inseq'
<1> DEFINE segs == SetAdd(seg, waiting)
           w == Walk(segs)
<1>1. rx_nxt_inseq' = w.nxt
  BY DEF Input
<1>2. rx_nxt_inseq \in StreamStart .. StreamEnd + 1 /\ waiting \in SUBSET Segments /\ IsFiniteSet(waiting)
  BY DEF IInv, StreamInv, NetworkInv
<1>3. segs \in SUBSET Segments /\ IsFiniteSet(segs)
  <2>1. IsFiniteSet(waiting \cup {seg})
    BY <1>2, FS_AddElement
  <2> QED
    BY <1>2, <2>1 DEF SetAdd
<1> HIDE DEF segs
<1>4. WalkInv(w)
  BY <1>2, <1>3, WalkSound
<1> QED
  BY <1>1, <1>4 DEF WalkInv

(***************************************************************************)
(* The receive half implements a stream of bytes: a segment of the network *)
(* is an arrival or nothing, a chunk given to the application is a read of *)
(* what arrived, the end is told once, after the last byte and when the    *)
(* FIN was received, and all other steps show nothing to the application   *)
(* (segment.ml:110-166, user_buffer.ml:55-94).                             *)
(***************************************************************************)
THEOREM SpecIsByteStream ==
  ASSUME NoWrap
  PROVE  Spec => IsByteStream
<1>1. Init => Stream!Init
  BY DEF Init, Stream!Init
<1>2. IInv /\ IInv' /\ [Next]_vars => [Stream!Next]_(Stream!stream)
  <2> SUFFICES ASSUME IInv, IInv', [Next]_vars PROVE Stream!Next \/ UNCHANGED Stream!stream
    OBVIOUS
  <2> USE DEF Stream!stream
  <2>1. CASE \E seg \in Segments : Input(seg)
    <3>1. PICK seg \in Segments : Input(seg)
      BY <2>1
    <3>2. UNCHANGED <<read_nxt, eof_read>> /\ rx_nxt_inseq <= rx_nxt_inseq'
      BY <3>1, InputAdvances DEF Input, buffer
    <3>3. rx_nxt_inseq \in Nat /\ rx_nxt_inseq' \in Nat /\ rx_nxt_inseq' <= StreamEnd + 1
      BY RxAssumption DEF IInv, StreamInv, NetworkInv
    <3>4. CASE rx_nxt_inseq' = rx_nxt_inseq
      BY <3>2, <3>4
    <3>5. CASE rx_nxt_inseq' # rx_nxt_inseq
      <4>1. rx_nxt_inseq' \in rx_nxt_inseq + 1 .. StreamEnd + 1
        BY <3>2, <3>3, <3>5, RxAssumption
      <4> QED
        BY <3>2, <4>1 DEF Stream!Next, Stream!Arrive
    <3> QED
      BY <3>4, <3>5
  <2>2. CASE AddToReader
    <3>1. rx.elems # <<>> /\ Got(Head(rx.elems)) /\ reader /\ rx_nxt_inseq' = rx_nxt_inseq
      BY <2>2 DEF AddToReader
    <3>2. ~eof_read /\ rx.elems \in Seq(Known)
      BY <3>1 DEF IInv, StreamInv, BufferInv, FinInv
    <3>3. Head(rx.elems) \in Known
      BY <3>1, <3>2
    <3> QED
      BY <3>1, <3>2, <3>3, GotIsStep
  <2>3. CASE Read
    <3>1. q # <<>> /\ Got(Head(q)) /\ ~eof_read /\ rx_nxt_inseq' = rx_nxt_inseq
      BY <2>3 DEF Read
    <3>2. q \in Seq(Known)
      BY DEF IInv, FinInv
    <3>3. Head(q) \in Known
      BY <3>1, <3>2
    <3> QED
      BY <3>1, <3>3, GotIsStep
  <2>4. CASE AckStep \/ TxTake \/ (\E seg \in Segments : InputInvalid(seg)) \/ UNCHANGED vars
    BY <2>4, AckStepFrame DEF buffer
  <2>5. CASE RxTake \/ RxAck \/ RxAcked \/ RxAgain \/ AddToQueue \/ AddBlocks \/ ReadWaits
    BY <2>5 DEF RxTake, RxAck, RxAcked, RxAgain, AddToQueue, AddBlocks, ReadWaits, buffer
  <2> QED
    BY <2>1, <2>2, <2>3, <2>4, <2>5 DEF Next, RxThread, Application, AckStep
<1> QED
  BY <1>1, <1>2, SpecIInv, PTL DEF Spec, IsByteStream, Stream!Spec

=============================================================================
