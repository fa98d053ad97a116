--------------------------- MODULE HeapListProofs ---------------------------
(***************************************************************************)
(* The free list of the major heap (module Heap) and every operation on    *)
(* it: both searches, the cut of a block with the repair of the table of   *)
(* the first-fit policy, the insertion of a chunk, and the merging of the  *)
(* sweeper.  Each is shown to keep what HeapProofs needs of the list, for  *)
(* any number of words, any blocks and any size of the table:              *)
(*                                                                         *)
(*   IsFl     the record has its types;                                    *)
(*   Threaded Next leads through the blue blocks in the order of their     *)
(*            addresses, the size counts their words, and the two places   *)
(*            kept in the list are in it;                                  *)
(*   Tabled   the entries of the table are such places too, in order, each *)
(*            before the block it leads to.                                *)
(*                                                                         *)
(* Sums over blocks and the walk along the list are recursive functions;   *)
(* that they exist is shown by an induction over sets of numbers.          *)
(***************************************************************************)
EXTENDS Heap, FiniteSetTheorems, SequenceTheorems, WellFoundedInduction, TLAPS

-----------------------------------------------------------------------------

Spot == Addr \cup {FlHead}

\* The record of the free list, with its types.
IsFl(f) ==
  /\ f \in [hd : [DOMAIN f.hd -> Block], next : [Spot -> Addr \cup {Null}],
            policy : {"next fit", "first fit"}, prev : Spot, merge : Spot,
            fragment : Addr \cup {Null}, size : Int, flp : Seq(Spot), beyond : Addr \cup {Null}]
  /\ DOMAIN f.hd \in SUBSET Addr
  /\ Len(f.flp) <= FLP_MAX

\* A free block has room for its link; a header alone is white.
Sound(hd) == \A b \in DOMAIN hd : /\ hd[b].color = "blue" => hd[b].wosize > 0
                                  /\ hd[b].wosize = 0 => hd[b].color = "white"

Blue(f) == {b \in DOMAIN f.hd : f.hd[b].color = "blue"}

\* The blocks B after the node a of the list.
After(B, a) == {b \in B : a = FlHead \/ a < b}

\* Next leads from every node to the one after it.
Linked(next, B) ==
  /\ \A a \in B \cup {FlHead} :
       \/ next[a] = Null /\ After(B, a) = {}
       \/ next[a] \in After(B, a) /\ \A b \in After(B, a) : next[a] <= b
  /\ \A a \in Addr \ B : next[a] = Null

\* The entries of the table have a block to lead to, and are in order.
Entries(B, s) ==
  /\ \A k \in 1..Len(s) : s[k] \in B \cup {FlHead} /\ After(B, s[k]) # {}
  /\ \A k, l \in 1..Len(s) : k < l => s[l] \in After(B, s[k])

\* The block b comes after every entry.
Beyond(B, s, b) == b # Null => b \in B /\ \A k \in 1..Len(s) : b \in After(B, s[k])

\* What holds of the free list between any two operations on it.
Threaded(f) ==
  /\ Linked(f.next, Blue(f)) /\ f.size = WordsOf(f, Blue(f))
  /\ f.merge \in Blue(f) \cup {FlHead}
  /\ f.policy = "next fit" => f.prev \in Blue(f) \cup {FlHead}

\* What holds of the table of the first-fit policy.
Tabled(f) == f.policy = "first fit" => Entries(Blue(f), f.flp) /\ Beyond(Blue(f), f.flp, f.beyond)

Stop(hd, b) == b + hd[b].wosize + 1

\* m is the last node before p.
LastBefore(B, m, p) ==
  /\ m \in B \cup {FlHead} /\ (m = FlHead \/ m < p)
  /\ \A b \in B : b < p => m # FlHead /\ b <= m

\* The fragment noted lies before p, and is still one if it ends at p.
FragmentAt(f, p) ==
  f.fragment # Null =>
    /\ f.fragment < p
    /\ f.fragment + 1 = p =>
         f.fragment \in DOMAIN f.hd /\ f.hd[f.fragment] = [wosize |-> 0, color |-> "white"]

-----------------------------------------------------------------------------
(* Numbers and sums *)

\* Induction over the naturals, for a set.
LEMMA SetInduction ==
  ASSUME NEW S, 0 \in S, \A n \in Nat : n \in S => n + 1 \in S
  PROVE  \A n \in Nat : n \in S
<1> DEFINE less == {p \in Nat \X Nat : p[1] < p[2]}
           T == Nat \ S
<1> SUFFICES ASSUME T # {} PROVE FALSE
  OBVIOUS
<1>1. IsWellFoundedOn(less, Nat)
  <2>1. less = OpToRel(<, Nat)
    BY DEF OpToRel
  <2> QED
    BY <2>1, NatLessThanWellFounded
<1>2. PICK m \in T : \A k \in T : <<k, m>> \notin less
  BY <1>1, WFMin
<1>3. m \in Nat /\ m # 0 /\ m - 1 \in Nat
  OBVIOUS
<1>4. <<m - 1, m>> \in less
  BY <1>3
<1>5. m - 1 \in S
  BY <1>2, <1>3, <1>4
<1> QED
  BY <1>3, <1>5

\* The least number of a set.
LEMMA LeastNumber ==
  ASSUME NEW S \in SUBSET Nat, S # {}
  PROVE  \E m \in S : \A k \in S : m <= k
<1> DEFINE less == {p \in Nat \X Nat : p[1] < p[2]}
<1>1. IsWellFoundedOn(less, Nat)
  <2>1. less = OpToRel(<, Nat)
    BY DEF OpToRel
  <2> QED
    BY <2>1, NatLessThanWellFounded
<1>2. PICK m \in S : \A k \in S : <<k, m>> \notin less
  BY <1>1, WFMin
<1>3. \A k \in S : ~ (k < m)
  BY <1>2
<1> QED
  BY <1>2, <1>3

\* The greatest number of a set.
LEMMA GreatestNumber ==
  ASSUME NEW S \in SUBSET Nat, S # {}, NEW N \in Nat, \A k \in S : k <= N
  PROVE  \E m \in S : \A k \in S : k <= m
<1> DEFINE T == {N - k : k \in S}
<1>1. T \in SUBSET Nat /\ T # {}
  <2>1. \A k \in S : N - k \in Nat
    OBVIOUS
  <2>2. T \subseteq Nat
    BY <2>1
  <2>3. PICK k \in S : TRUE
    OBVIOUS
  <2>4. N - k \in T
    BY <2>3
  <2> QED
    BY <2>2, <2>4
<1>2. PICK t \in T : \A u \in T : t <= u
  <2> HIDE DEF T
  <2> QED
    BY <1>1, LeastNumber
<1>3. PICK m \in S : t = N - m
  BY <1>2
<1>4. \A k \in S : N - k \in T
  OBVIOUS
<1>5. \A k \in S : N - m <= N - k
  <2> HIDE DEF T
  <2> QED
    BY <1>2, <1>3, <1>4
<1> QED
  BY <1>3, <1>5

\* Min is the least number of a set.
LEMMA MinIs ==
  ASSUME NEW S \in SUBSET Nat, S # {}
  PROVE  Min(S) \in S /\ \A k \in S : Min(S) <= k
BY LeastNumber DEF Min

\* Max is the greatest number of a bounded set.
LEMMA MaxIs ==
  ASSUME NEW S \in SUBSET Nat, S # {}, NEW N \in Nat, \A k \in S : k <= N
  PROVE  Max(S) \in S /\ \A k \in S : k <= Max(S)
<1>1. \E m \in S : \A k \in S : m >= k
  <2>1. PICK m \in S : \A k \in S : k <= m
    BY GreatestNumber
  <2> QED
    BY <2>1
<1>2. Max(S) \in S /\ \A k \in S : Max(S) >= k
  BY <1>1 DEF Max
<1> QED
  BY <1>2

\* One step of a sum, by an arbitrary element.
SumStep(g, it, s) == IF s = {} THEN 0 ELSE g[CHOOSE x \in s : TRUE] + it[s \ {CHOOSE x \in s : TRUE}]

\* The sums over the subsets of a finite set, as a function.
LEMMA SumExists ==
  ASSUME NEW g, NEW S, IsFiniteSet(S)
  PROVE  \E it : it = [s \in SUBSET S |-> SumStep(g, it, s)]
<1> DEFINE Sub(n) == {u \in SUBSET S : Cardinality(u) <= n}
           P == {n \in Nat : \E it : it = [s \in Sub(n) |-> SumStep(g, it, s)]}
<1>0. \A u \in SUBSET S : IsFiniteSet(u) /\ Cardinality(u) \in Nat /\ Cardinality(u) <= Cardinality(S)
  BY FS_Subset, FS_CardinalityType
<1>1. 0 \in P
  <2> DEFINE it == [s \in Sub(0) |-> 0]
  <2>1. \A s \in Sub(0) : s = {}
    BY <1>0, FS_EmptySet
  <2>2. \A s \in Sub(0) : SumStep(g, it, s) = 0
    BY <2>1 DEF SumStep
  <2>3. it = [s \in Sub(0) |-> SumStep(g, it, s)]
    <3> HIDE DEF Sub
    <3>1. it = [s \in Sub(0) |-> 0]
      OBVIOUS
    <3> HIDE DEF it
    <3> QED
      BY <2>2, <3>1
  <2> HIDE DEF it
  <2> QED
    BY <2>3
<1>2. ASSUME NEW n \in Nat, n \in P PROVE n + 1 \in P
  <2>1. PICK it : it = [s \in Sub(n) |-> SumStep(g, it, s)]
    BY <1>2
  <2> DEFINE j == [s \in Sub(n + 1) |-> SumStep(g, it, s)]
  <2>2. \A s \in Sub(n) : s \in Sub(n + 1) /\ it[s] = SumStep(g, it, s)
    <3>1. Sub(n) \subseteq Sub(n + 1)
      BY <1>0
    <3> HIDE DEF Sub
    <3> QED
      BY <2>1, <3>1
  <2>3. \A s \in Sub(n) : j[s] = it[s]
    <3> HIDE DEF Sub
    <3> QED
      BY <2>2
  <2>4. \A s \in Sub(n + 1) : s # {} => s \ {CHOOSE x \in s : TRUE} \in Sub(n)
    <3> SUFFICES ASSUME NEW s \in Sub(n + 1), s # {} PROVE s \ {CHOOSE x \in s : TRUE} \in Sub(n)
      OBVIOUS
    <3> DEFINE x == CHOOSE x \in s : TRUE
    <3>1. x \in s
      OBVIOUS
    <3> HIDE DEF x
    <3>2. Cardinality(s \ {x}) = Cardinality(s) - 1 /\ Cardinality(s) \in Nat
      BY <1>0, <3>1, FS_RemoveElement
    <3>3. s \ {x} \in Sub(n)
      BY <1>0, <3>2
    <3> QED
      BY <3>3 DEF x
  <2>5. \A s \in Sub(n + 1) : SumStep(g, it, s) = SumStep(g, j, s)
    <3> HIDE DEF Sub, j
    <3> QED
      BY <2>3, <2>4 DEF SumStep
  <2>6. j = [s \in Sub(n + 1) |-> SumStep(g, j, s)]
    <3>1. j = [s \in Sub(n + 1) |-> SumStep(g, it, s)]
      OBVIOUS
    <3> HIDE DEF Sub, j
    <3> QED
      BY <2>5, <3>1
  <2> HIDE DEF j
  <2> QED
    BY <2>6
<1>3. Cardinality(S) \in P
  <2> HIDE DEF P
  <2>1. \A n \in Nat : n \in P
    BY <1>1, <1>2, SetInduction
  <2> QED
    BY <2>1, FS_CardinalityType
<1>4. Sub(Cardinality(S)) = SUBSET S
  BY <1>0
<1> QED
  BY <1>3, <1>4

\* The sum of the values of g over S.
LEMMA SumUnfolds ==
  ASSUME NEW g, NEW S, IsFiniteSet(S)
  PROVE  \E it : it = [s \in SUBSET S |-> SumStep(g, it, s)] /\ SumFunctionOnSet(g, S) = it[S]
<1> DEFINE it == CHOOSE it : it = [s \in SUBSET S |-> SumStep(g, it, s)]
<1>1. it = [s \in SUBSET S |-> SumStep(g, it, s)]
  BY SumExists
<1>2. SumFunctionOnSet(g, S) = it[S]
  BY DEF SumFunctionOnSet, FoldFunctionOnSet, MapThenFoldSet, SumStep
<1> HIDE DEF it
<1> QED
  BY <1>1, <1>2

\* A set without one of its elements has one element less.
LEMMA RemoveOne ==
  ASSUME NEW n \in Nat, NEW s, IsFiniteSet(s), Cardinality(s) = n + 1, NEW x \in s
  PROVE  Cardinality(s \ {x}) = n
<1>1. Cardinality(s \ {x}) = Cardinality(s) - 1
  BY FS_RemoveElement
<1> QED
  BY <1>1

\* A function that gives each set its sum step by step gives the sum.
LEMMA SumUnique ==
  ASSUME NEW g, NEW S, IsFiniteSet(S), NEW T \in SUBSET S,
         NEW it, it = [s \in SUBSET S |-> SumStep(g, it, s)]
  PROVE  SumFunctionOnSet(g, T) = it[T]
<1>1. PICK j : j = [s \in SUBSET T |-> SumStep(g, j, s)] /\ SumFunctionOnSet(g, T) = j[T]
  BY SumUnfolds, FS_Subset
<1> DEFINE P == {n \in Nat : \A s \in SUBSET T : Cardinality(s) = n => j[s] = it[s]}
<1>0. \A u \in SUBSET T : IsFiniteSet(u) /\ Cardinality(u) \in Nat
  BY FS_Subset, FS_CardinalityType
<1>2. \A s \in SUBSET T : j[s] = SumStep(g, j, s)
  BY <1>1
<1>3. \A s \in SUBSET T : it[s] = SumStep(g, it, s)
  <2>1. \A s \in SUBSET S : it[s] = SumStep(g, it, s)
    OBVIOUS
  <2> QED
    BY <2>1
<1>4. 0 \in P
  <2>1. \A s \in SUBSET T : Cardinality(s) = 0 => s = {}
    BY <1>0, FS_EmptySet
  <2> QED
    BY <1>2, <1>3, <2>1 DEF SumStep
<1>5. ASSUME NEW n \in Nat, n \in P PROVE n + 1 \in P
  <2>0. ASSUME NEW s \in SUBSET T, Cardinality(s) = n + 1 PROVE j[s] = it[s]
    <3>1. s # {}
      BY <2>0, FS_EmptySet
    <3> DEFINE x == CHOOSE x \in s : TRUE
    <3>2. x \in s
      BY <3>1
    <3> HIDE DEF x
    <3>3. Cardinality(s \ {x}) = n
      BY <1>0, <2>0, <3>2, RemoveOne
    <3>4. j[s \ {x}] = it[s \ {x}]
      BY <1>5, <3>3
    <3>5. j[s] = g[x] + j[s \ {x}] /\ it[s] = g[x] + it[s \ {x}]
      BY <1>2, <1>3, <3>1 DEF SumStep, x
    <3> QED
      BY <3>4, <3>5
  <2>1. \A s \in SUBSET T : Cardinality(s) = n + 1 => j[s] = it[s]
    BY <2>0
  <2>2. n + 1 \in Nat
    OBVIOUS
  <2> QED
    BY <2>1, <2>2, Zenon
<1>6. \A n \in Nat : n \in P
  <2> HIDE DEF P
  <2> QED
    BY <1>4, <1>5, SetInduction
<1>7. j[T] = it[T]
  BY <1>0, <1>6
<1> QED
  BY <1>1, <1>7

\* Some element is taken from the sum first.
LEMMA SumSome ==
  ASSUME NEW g, NEW S, IsFiniteSet(S), S # {}
  PROVE  \E x \in S : SumFunctionOnSet(g, S) = g[x] + SumFunctionOnSet(g, S \ {x})
<1>1. PICK it : it = [s \in SUBSET S |-> SumStep(g, it, s)] /\ SumFunctionOnSet(g, S) = it[S]
  BY SumUnfolds
<1> DEFINE x == CHOOSE x \in S : TRUE
<1>2. x \in S
  OBVIOUS
<1>3. it[S] = SumStep(g, it, S)
  BY <1>1
<1>4. it[S] = g[x] + it[S \ {x}]
  BY <1>3 DEF SumStep
<1> HIDE DEF x
<1>5. SumFunctionOnSet(g, S \ {x}) = it[S \ {x}]
  <2>1. it = [s \in SUBSET S |-> SumStep(g, it, s)] /\ S \ {x} \in SUBSET S
    BY <1>1
  <2> HIDE <1>1
  <2> QED
    BY <2>1, SumUnique
<1> QED
  BY <1>1, <1>2, <1>4, <1>5

\* The sum over nothing is zero.
LEMMA SumEmpty ==
  ASSUME NEW g
  PROVE  SumFunctionOnSet(g, {}) = 0
<1>1. PICK it : it = [s \in SUBSET {} |-> SumStep(g, it, s)] /\ SumFunctionOnSet(g, {}) = it[{}]
  BY SumUnfolds, FS_EmptySet
<1>2. it[{}] = SumStep(g, it, {})
  BY <1>1
<1> QED
  BY <1>1, <1>2 DEF SumStep

\* A statement about all finite sets, by the number of their elements.
LEMMA SumType ==
  ASSUME NEW g, NEW S, IsFiniteSet(S), \A x \in S : g[x] \in Int
  PROVE  SumFunctionOnSet(g, S) \in Int
<1> DEFINE P == {n \in Nat : \A s \in SUBSET S : Cardinality(s) = n => SumFunctionOnSet(g, s) \in Int}
<1>0. \A u \in SUBSET S : IsFiniteSet(u) /\ Cardinality(u) \in Nat
  BY FS_Subset, FS_CardinalityType
<1>1. 0 \in P
  <2>1. \A s \in SUBSET S : Cardinality(s) = 0 => s = {}
    BY <1>0, FS_EmptySet
  <2> QED
    BY <2>1, SumEmpty
<1>2. ASSUME NEW n \in Nat, n \in P PROVE n + 1 \in P
  <2> SUFFICES ASSUME NEW s \in SUBSET S, Cardinality(s) = n + 1 PROVE SumFunctionOnSet(g, s) \in Int
    OBVIOUS
  <2>1. s # {} /\ IsFiniteSet(s)
    BY <1>0, FS_EmptySet
  <2>2. PICK x \in s : SumFunctionOnSet(g, s) = g[x] + SumFunctionOnSet(g, s \ {x})
    BY <2>1, SumSome
  <2>3. Cardinality(s \ {x}) = n
    BY <2>1, RemoveOne
  <2>4. SumFunctionOnSet(g, s \ {x}) \in Int
    BY <1>2, <2>3
  <2> QED
    BY <2>2, <2>4
<1>3. \A n \in Nat : n \in P
  <2> HIDE DEF P
  <2> QED
    BY <1>1, <1>2, SetInduction
<1> QED
  BY <1>0, <1>3

\* Any element may be taken first.
LEMMA SumRemove ==
  ASSUME NEW g, NEW S, IsFiniteSet(S), \A x \in S : g[x] \in Int
  PROVE  \A x \in S : SumFunctionOnSet(g, S) = g[x] + SumFunctionOnSet(g, S \ {x})
<1> DEFINE P == {n \in Nat : \A s \in SUBSET S : Cardinality(s) = n =>
                    \A x \in s : SumFunctionOnSet(g, s) = g[x] + SumFunctionOnSet(g, s \ {x})}
<1>0. \A u \in SUBSET S : IsFiniteSet(u) /\ Cardinality(u) \in Nat
  BY FS_Subset, FS_CardinalityType
<1>1. 0 \in P
  <2>1. \A s \in SUBSET S : Cardinality(s) = 0 => s = {}
    BY <1>0, FS_EmptySet
  <2> QED
    BY <2>1
<1>2. ASSUME NEW n \in Nat, n \in P PROVE n + 1 \in P
  <2> SUFFICES ASSUME NEW s \in SUBSET S, Cardinality(s) = n + 1, NEW x \in s
               PROVE  SumFunctionOnSet(g, s) = g[x] + SumFunctionOnSet(g, s \ {x})
    OBVIOUS
  <2>1. IsFiniteSet(s)
    BY <1>0
  <2>2. PICK c \in s : SumFunctionOnSet(g, s) = g[c] + SumFunctionOnSet(g, s \ {c})
    BY <2>1, SumSome
  <2>3. CASE c = x
    BY <2>2, <2>3
  <2>4. CASE c # x
    <3>1. Cardinality(s \ {c}) = n /\ Cardinality(s \ {x}) = n
      BY <2>1, RemoveOne
    <3>2. SumFunctionOnSet(g, s \ {c}) = g[x] + SumFunctionOnSet(g, (s \ {c}) \ {x})
      BY <1>2, <2>4, <3>1
    <3>3. SumFunctionOnSet(g, s \ {x}) = g[c] + SumFunctionOnSet(g, (s \ {x}) \ {c})
      BY <1>2, <2>4, <3>1
    <3>4. (s \ {c}) \ {x} = (s \ {x}) \ {c}
      OBVIOUS
    <3> DEFINE rest == SumFunctionOnSet(g, (s \ {x}) \ {c})
    <3>5. rest \in Int /\ g[x] \in Int /\ g[c] \in Int
      BY <1>0, SumType
    <3>6. SumFunctionOnSet(g, s) = g[c] + (g[x] + rest)
      BY <2>2, <3>2, <3>4
    <3>7. SumFunctionOnSet(g, s \ {x}) = g[c] + rest
      BY <3>3
    <3> HIDE DEF rest
    <3> QED
      BY <3>5, <3>6, <3>7
  <2> QED
    BY <2>3, <2>4
<1>3. \A n \in Nat : n \in P
  <2> HIDE DEF P
  <2> QED
    BY <1>1, <1>2, SetInduction
<1> QED
  BY <1>0, <1>3

\* The sum depends on the values over the set only.
LEMMA SumSame ==
  ASSUME NEW g, NEW h, NEW S, IsFiniteSet(S), \A x \in S : g[x] = h[x]
  PROVE  SumFunctionOnSet(g, S) = SumFunctionOnSet(h, S)
<1>1. PICK it : it = [s \in SUBSET S |-> SumStep(g, it, s)] /\ SumFunctionOnSet(g, S) = it[S]
  BY SumUnfolds
<1>2. \A s \in SUBSET S : SumStep(g, it, s) = SumStep(h, it, s)
  BY DEF SumStep
<1>3. it = [s \in SUBSET S |-> SumStep(h, it, s)]
  BY <1>1, <1>2
<1> QED
  BY <1>1, <1>3, SumUnique

\* The sum over two sets that have nothing in common.
LEMMA SumSplit ==
  ASSUME NEW g, NEW S, NEW T, IsFiniteSet(S), IsFiniteSet(T), S \cap T = {},
         \A x \in S \cup T : g[x] \in Int
  PROVE  SumFunctionOnSet(g, S \cup T) = SumFunctionOnSet(g, S) + SumFunctionOnSet(g, T)
<1> DEFINE P == {n \in Nat : \A t \in SUBSET T : Cardinality(t) = n =>
                    SumFunctionOnSet(g, S \cup t) = SumFunctionOnSet(g, S) + SumFunctionOnSet(g, t)}
<1>0. \A u \in SUBSET T : IsFiniteSet(u) /\ Cardinality(u) \in Nat /\ IsFiniteSet(S \cup u)
  BY FS_Subset, FS_CardinalityType, FS_Union
<1>00. SumFunctionOnSet(g, S) \in Int
  BY SumType
<1>1. 0 \in P
  <2>1. \A s \in SUBSET T : Cardinality(s) = 0 => s = {}
    BY <1>0, FS_EmptySet
  <2>2. SumFunctionOnSet(g, S \cup {}) = SumFunctionOnSet(g, S) + SumFunctionOnSet(g, {})
    <3>1. S \cup {} = S
      OBVIOUS
    <3>2. SumFunctionOnSet(g, S) = SumFunctionOnSet(g, S) + 0
      BY <1>00
    <3> QED
      BY <3>1, <3>2, SumEmpty
  <2> QED
    BY <2>1, <2>2
<1>2. ASSUME NEW n \in Nat, n \in P PROVE n + 1 \in P
  <2> SUFFICES ASSUME NEW t \in SUBSET T, Cardinality(t) = n + 1
               PROVE  SumFunctionOnSet(g, S \cup t) = SumFunctionOnSet(g, S) + SumFunctionOnSet(g, t)
    OBVIOUS
  <2>1. t # {} /\ IsFiniteSet(t) /\ IsFiniteSet(S \cup t)
    BY <1>0, FS_EmptySet
  <2>2. PICK x \in t : SumFunctionOnSet(g, t) = g[x] + SumFunctionOnSet(g, t \ {x})
    BY <2>1, SumSome
  <2>3. Cardinality(t \ {x}) = n
    BY <2>1, RemoveOne
  <2>4. (S \cup t) \ {x} = S \cup (t \ {x})
    OBVIOUS
  <2>5. SumFunctionOnSet(g, S \cup t) = g[x] + SumFunctionOnSet(g, S \cup (t \ {x}))
    BY <2>1, <2>4, SumRemove
  <2>6. SumFunctionOnSet(g, S \cup (t \ {x})) = SumFunctionOnSet(g, S) + SumFunctionOnSet(g, t \ {x})
    BY <1>2, <2>3
  <2>7. SumFunctionOnSet(g, t \ {x}) \in Int /\ g[x] \in Int
    BY <1>0, SumType
  <2> QED
    BY <1>00, <2>2, <2>5, <2>6, <2>7
<1>3. \A n \in Nat : n \in P
  <2> HIDE DEF P
  <2> QED
    BY <1>1, <1>2, SetInduction
<1> QED
  BY <1>0, <1>3

\* A sum of ones.
LEMMA SumOnes ==
  ASSUME NEW g, NEW S, IsFiniteSet(S), \A x \in S : g[x] = 1
  PROVE  SumFunctionOnSet(g, S) = Cardinality(S)
<1> DEFINE P == {n \in Nat : \A s \in SUBSET S : Cardinality(s) = n => SumFunctionOnSet(g, s) = n}
<1>0. \A u \in SUBSET S : IsFiniteSet(u) /\ Cardinality(u) \in Nat
  BY FS_Subset, FS_CardinalityType
<1>1. 0 \in P
  <2>1. \A s \in SUBSET S : Cardinality(s) = 0 => s = {}
    BY <1>0, FS_EmptySet
  <2> QED
    BY <2>1, SumEmpty
<1>2. ASSUME NEW n \in Nat, n \in P PROVE n + 1 \in P
  <2> SUFFICES ASSUME NEW s \in SUBSET S, Cardinality(s) = n + 1 PROVE SumFunctionOnSet(g, s) = n + 1
    OBVIOUS
  <2>1. s # {} /\ IsFiniteSet(s)
    BY <1>0, FS_EmptySet
  <2>2. PICK x \in s : SumFunctionOnSet(g, s) = g[x] + SumFunctionOnSet(g, s \ {x})
    BY <2>1, SumSome
  <2>3. Cardinality(s \ {x}) = n
    BY <2>1, RemoveOne
  <2>4. SumFunctionOnSet(g, s \ {x}) = n
    BY <1>2, <2>3
  <2>5. g[x] = 1
    OBVIOUS
  <2> QED
    BY <2>2, <2>4, <2>5
<1>3. \A n \in Nat : n \in P
  <2> HIDE DEF P
  <2> QED
    BY <1>1, <1>2, SetInduction
<1> QED
  BY <1>0, <1>3

-----------------------------------------------------------------------------
(* Sets in order *)

Increasing(s) == \A i, j \in DOMAIN s : i < j => s[i] < s[j]

\* A finite set of numbers has a bound.
LEMMA FiniteBound ==
  ASSUME NEW S \in SUBSET Nat, IsFiniteSet(S)
  PROVE  \E N \in Nat : \A k \in S : k <= N
<1> DEFINE Q == {k \in Nat : \A U \in SUBSET S : Cardinality(U) = k => \E N \in Nat : \A u \in U : u <= N}
<1>0. \A u \in SUBSET S : IsFiniteSet(u) /\ Cardinality(u) \in Nat
  BY FS_Subset, FS_CardinalityType
<1>1. 0 \in Q
  <2>1. \A U \in SUBSET S : Cardinality(U) = 0 => U = {}
    BY <1>0, FS_EmptySet
  <2>2. \A U \in SUBSET S : Cardinality(U) = 0 => \E N \in Nat : \A u \in U : u <= N
    BY <2>1
  <2> QED
    BY <2>2
<1>2. ASSUME NEW k \in Nat, k \in Q PROVE k + 1 \in Q
  <2>1. ASSUME NEW U \in SUBSET S, Cardinality(U) = k + 1 PROVE \E N \in Nat : \A u \in U : u <= N
    <3>1. U # {}
      <4> SUFFICES ASSUME U = {} PROVE FALSE
        OBVIOUS
      <4>1. Cardinality(U) = 0
        BY FS_EmptySet
      <4> QED
        BY <2>1, <4>1
    <3>2. PICK x \in U : TRUE
      BY <3>1
    <3>3. Cardinality(U \ {x}) = k
      BY <1>0, <2>1, RemoveOne
    <3>4. PICK N \in Nat : \A u \in U \ {x} : u <= N
      BY <1>2, <3>3
    <3>5. x \in Nat /\ N + x \in Nat
      OBVIOUS
    <3>6. ASSUME NEW u \in U PROVE u <= N + x
      <4>1. u \in Nat /\ (u = x \/ u <= N)
        BY <3>4
      <4> QED
        BY <3>5, <4>1
    <3> QED
      BY <3>5, <3>6
  <2>2. \A U \in SUBSET S : Cardinality(U) = k + 1 => \E N \in Nat : \A u \in U : u <= N
    BY <2>1
  <2>3. k + 1 \in Nat
    OBVIOUS
  <2> QED
    BY <2>2, <2>3, Zenon
<1>3. \A k \in Nat : k \in Q
  <2> HIDE DEF Q
  <2> QED
    BY <1>1, <1>2, SetInduction
<1> QED
  BY <1>0, <1>3

\* A finite set of numbers can be put in order.
LEMMA OrderExists ==
  ASSUME NEW S \in SUBSET Nat, IsFiniteSet(S)
  PROVE  \E s \in [1..Cardinality(S) -> S] : Increasing(s)
<1> DEFINE P == {n \in Nat : \A T \in SUBSET S : Cardinality(T) = n => \E s \in [1..n -> T] : Increasing(s)}
<1>0. \A u \in SUBSET S : IsFiniteSet(u) /\ Cardinality(u) \in Nat
  BY FS_Subset, FS_CardinalityType
<1>1. 0 \in P
  <2> SUFFICES ASSUME NEW T \in SUBSET S, Cardinality(T) = 0 PROVE \E s \in [1..0 -> T] : Increasing(s)
    OBVIOUS
  <2>1. << >> \in [1..0 -> T] /\ Increasing(<< >>)
    BY DEF Increasing
  <2> QED
    BY <2>1
<1>2. ASSUME NEW n \in Nat, n \in P PROVE n + 1 \in P
  <2> SUFFICES ASSUME NEW T \in SUBSET S, Cardinality(T) = n + 1 PROVE \E s \in [1..n + 1 -> T] : Increasing(s)
    OBVIOUS
  <2>1. IsFiniteSet(T) /\ T # {} /\ T \in SUBSET Nat
    BY <1>0, FS_EmptySet
  <2>2. \E N \in Nat : \A k \in T : k <= N
    BY <2>1, FiniteBound
  <2>3. PICK m \in T : \A k \in T : k <= m
    BY <2>1, <2>2, GreatestNumber
  <2>4. Cardinality(T \ {m}) = n
    BY <2>1, RemoveOne
  <2>5. PICK s \in [1..n -> T \ {m}] : Increasing(s)
    BY <1>2, <2>4
  <2> DEFINE r == [i \in 1..n + 1 |-> IF i = n + 1 THEN m ELSE s[i]]
  <2>6. r \in [1..n + 1 -> T]
    <3>1. \A i \in 1..n + 1 : i # n + 1 => i \in 1..n
      OBVIOUS
    <3> QED
      BY <3>1
  <2>7. Increasing(r)
    <3> SUFFICES ASSUME NEW i \in 1..n + 1, NEW j \in 1..n + 1, i < j PROVE r[i] < r[j]
      BY DEF Increasing
    <3>1. i \in 1..n /\ r[i] = s[i] /\ s[i] \in T \ {m}
      OBVIOUS
    <3>2. CASE j = n + 1
      <4>1. r[j] = m /\ s[i] <= m /\ s[i] # m
        BY <2>3, <3>1, <3>2
      <4>2. s[i] \in Nat /\ m \in Nat
        BY <2>1, <3>1
      <4> QED
        BY <3>1, <4>1, <4>2
    <3>3. CASE j # n + 1
      <4>1. j \in 1..n /\ r[j] = s[j]
        BY <3>3
      <4> QED
        BY <2>5, <3>1, <4>1 DEF Increasing
    <3> QED
      BY <3>2, <3>3
  <2> HIDE DEF r
  <2> QED
    BY <2>6, <2>7
<1>3. \A n \in Nat : n \in P
  <2> HIDE DEF P
  <2> QED
    BY <1>1, <1>2, SetInduction
<1> QED
  BY <1>0, <1>3

\* InOrder lists the numbers of a set in order, each of them once.
LEMMA InOrderIs ==
  ASSUME NEW S \in SUBSET Nat, IsFiniteSet(S)
  PROVE  /\ Cardinality(S) \in Nat
         /\ InOrder(S) \in [1..Cardinality(S) -> S]
         /\ Increasing(InOrder(S))
         /\ \A x \in S : \E i \in 1..Cardinality(S) : InOrder(S)[i] = x
<1> DEFINE s == InOrder(S)
           n == Cardinality(S)
<1>1. n \in Nat
  BY FS_CardinalityType
<1>2. s \in [1..n -> S] /\ Increasing(s)
  <2>1. \E r \in [1..n -> S] : \A i, j \in DOMAIN r : i < j => r[i] < r[j]
    BY OrderExists DEF Increasing
  <2> QED
    BY <2>1 DEF InOrder, Increasing
<1>3. s \in Injection(1..n, S)
  <2> SUFFICES ASSUME NEW i \in 1..n, NEW j \in 1..n, s[i] = s[j] PROVE i = j
    BY <1>2 DEF Injection, IsInjective
  <2>1. s[i] \in Nat /\ s[j] \in Nat
    BY <1>2
  <2>2. ~ (i < j) /\ ~ (j < i)
    BY <1>2, <2>1 DEF Increasing
  <2> QED
    BY <1>1, <2>2
<1>4. Cardinality(1..n) = n
  BY <1>1, FS_Interval
<1>5. s \in Surjection(1..n, S)
  <2> HIDE DEF s
  <2> QED
    BY <1>3, <1>4, FS_Injection
<1> QED
  BY <1>1, <1>2, <1>5 DEF Surjection

-----------------------------------------------------------------------------
(* The free list *)

\* The addresses are numbers; Fl_head lies above them, and Null below.
LEMMA Spots ==
  /\ Words \in Nat /\ FlHead \in Nat /\ FlHead > Words + 1 /\ Null = 0
  /\ \A a : a \in Addr <=> a \in Nat /\ 1 <= a /\ a <= Words
  /\ FlHead \notin Addr /\ Null \notin Addr /\ FlHead # Null
<1>1. Words \in Nat /\ FlHead \in Nat /\ FlHead > Words + 1 /\ Null = 0
  BY HeapAssumption DEF Null
<1>2. \A a : a \in Addr <=> a \in Nat /\ 1 <= a /\ a <= Words
  BY <1>1 DEF Addr
<1> QED
  BY <1>1, <1>2

Longer(f, s) == IF f.next[Last(s)] = Null THEN s ELSE Append(s, f.next[Last(s)])

\* The walk along the list from Fl_head, one link after another.
LEMMA WalkExists ==
  ASSUME NEW f
  PROVE  \A N \in Nat : \E w : w = [k \in 0..N |-> IF k = 0 THEN <<FlHead>> ELSE Longer(f, w[k - 1])]
<1> DEFINE S == {N \in Nat : \E w : w = [k \in 0..N |-> IF k = 0 THEN <<FlHead>> ELSE Longer(f, w[k - 1])]}
<1>1. 0 \in S
  <2> DEFINE g == [n \in 0 .. 0 |-> <<FlHead>>]
  <2>1. g = [n \in 0 .. 0 |-> IF n = 0 THEN <<FlHead>> ELSE Longer(f, g[n - 1])]
    OBVIOUS
  <2> HIDE DEF g
  <2> QED
    BY <2>1
<1>2. \A N \in Nat : N \in S => N + 1 \in S
  <2> SUFFICES ASSUME NEW N \in Nat, N \in S PROVE N + 1 \in S
    OBVIOUS
  <2>1. PICK w : w = [n \in 0 .. N |-> IF n = 0 THEN <<FlHead>> ELSE Longer(f, w[n - 1])]
    OBVIOUS
  <2> DEFINE g == [n \in 0 .. N + 1 |-> IF n = 0 THEN <<FlHead>> ELSE Longer(f, w[n - 1])]
  <2>2. \A n \in 0 .. N : g[n] = w[n]
    <3> SUFFICES ASSUME NEW n \in 0 .. N PROVE g[n] = w[n]
      OBVIOUS
    <3>1. w[n] = IF n = 0 THEN <<FlHead>> ELSE Longer(f, w[n - 1])
      BY <2>1
    <3> QED
      BY <3>1
  <2>3. g = [n \in 0 .. N + 1 |-> IF n = 0 THEN <<FlHead>> ELSE Longer(f, g[n - 1])]
    <3>1. \A n \in 0 .. N + 1 : n # 0 => n - 1 \in 0 .. N
      OBVIOUS
    <3>2. \A n \in 0 .. N + 1 : n # 0 => g[n - 1] = w[n - 1]
      BY <3>1, <2>2
    <3>3. g = [n \in 0 .. N + 1 |-> IF n = 0 THEN <<FlHead>> ELSE Longer(f, w[n - 1])]
      OBVIOUS
    <3> HIDE DEF g
    <3>4. \A n \in 0 .. N + 1 : (IF n = 0 THEN <<FlHead>> ELSE Longer(f, w[n - 1]))
                               = (IF n = 0 THEN <<FlHead>> ELSE Longer(f, g[n - 1]))
      BY <3>2
    <3> QED
      BY <3>3, <3>4
  <2> HIDE DEF g
  <2> QED
    BY <2>3
<1> HIDE DEF S
<1>3. \A N \in Nat : N \in S
  BY <1>1, <1>2, SetInduction
<1> QED
  BY <1>3 DEF S

\* List(f) is what the walk has found after as many links as there are words.
LEMMA ListWalks ==
  ASSUME NEW f
  PROVE  \E w : /\ w = [k \in 0..Words |-> IF k = 0 THEN <<FlHead>> ELSE Longer(f, w[k - 1])]
                /\ List(f) = w[Words]
<1> DEFINE w == CHOOSE w : w = [k \in 0..Words |-> IF k = 0 THEN <<FlHead>> ELSE Longer(f, w[k - 1])]
<1>1. w = [k \in 0..Words |-> IF k = 0 THEN <<FlHead>> ELSE Longer(f, w[k - 1])]
  BY WalkExists, Spots
<1>2. List(f) = w[Words]
  BY DEF List, Longer
<1> HIDE DEF w
<1> QED
  BY <1>1, <1>2

\* What the free list f is as a sequence.
IsList(f, L) ==
  /\ L \in Seq(Spot) /\ Len(L) \in Nat \ {0} /\ L[1] = FlHead
  /\ \A i \in 2..Len(L) : L[i] \in Blue(f)
  /\ \A i, j \in 2..Len(L) : i < j => L[i] < L[j]
  /\ \A i \in 1..Len(L) - 1 : f.next[L[i]] = L[i + 1]

\* A link that is followed adds the next node to the list found so far.
LEMMA Grows ==
  ASSUME NEW f, IsFl(f), Linked(f.next, Blue(f)), NEW s, IsList(f, s), \A i \in 2..Len(s) : s[i] >= i - 1
  PROVE  LET r == Longer(f, s)
         IN  /\ IsList(f, r) /\ \A i \in 2..Len(r) : r[i] >= i - 1
             /\ IF f.next[Last(s)] = Null THEN r = s ELSE Len(r) = Len(s) + 1
<1> DEFINE n == f.next[Last(s)]
           k == Len(s)
<1>1. s \in Seq(Spot) /\ k \in Nat \ {0} /\ Last(s) = s[k] /\ s[k] \in Spot
  BY DEF IsList, Last
<1>2. s[k] \in Blue(f) \cup {FlHead}
  BY <1>1 DEF IsList
<1>3. CASE n = Null
  BY <1>3 DEF Longer
<1>4. CASE n # Null
  <2>1. n \in Blue(f) /\ (s[k] = FlHead \/ s[k] < n) /\ n \in Addr
    BY <1>1, <1>2, <1>4 DEF Linked, After, Blue, IsFl
  <2> DEFINE r == Append(s, n)
  <2>2. /\ r \in Seq(Spot) /\ Len(r) = k + 1 /\ r[k + 1] = n /\ Longer(f, s) = r
        /\ \A i \in 1..k : r[i] = s[i]
    BY <1>1, <1>4, <2>1 DEF Longer, Spot
  <2> HIDE DEF r
  <2>3. \A i \in 2..k : s[i] \in Blue(f) /\ s[i] \in Addr /\ s[i] # FlHead
    BY Spots DEF IsList, Blue, IsFl
  <2>4. \A i \in 2..k : s[i] < n
    <3> SUFFICES ASSUME NEW i \in 2..k PROVE s[i] < n
      OBVIOUS
    <3>1. k \in 2..k /\ s[k] # FlHead
      BY <1>1, <2>3
    <3>2. s[k] < n
      BY <2>1, <3>1
    <3>3. i = k \/ (i < k /\ s[i] < s[k])
      BY <1>1, <3>1 DEF IsList
    <3>4. s[i] \in Nat /\ s[k] \in Nat /\ n \in Nat
      BY <2>1, <2>3, <3>1, Spots
    <3> QED
      BY <3>2, <3>3, <3>4
  <2>5. n >= k
    <3>1. CASE k = 1
      BY <2>1, <3>1, Spots
    <3>2. CASE k # 1
      <4>1. k \in 2..k
        <5>1. \A x \in Nat \ {0} : x # 1 => x \in 2..x
          OBVIOUS
        <5>2. k \in Nat \ {0}
          BY <1>1
        <5> HIDE DEF k
        <5> QED
          BY <3>2, <5>1, <5>2
      <4>2. s[k] >= k - 1 /\ s[k] < n
        BY <2>4, <4>1
      <4>3. s[k] \in Nat /\ n \in Nat
        BY <2>1, <2>3, <4>1, Spots
      <4> QED
        BY <1>1, <4>2, <4>3
    <3> QED
      BY <3>1, <3>2
  <2>6. \A i \in 2..k + 1 : r[i] \in Blue(f) /\ r[i] >= i - 1
    <3> SUFFICES ASSUME NEW i \in 2..k + 1 PROVE r[i] \in Blue(f) /\ r[i] >= i - 1
      OBVIOUS
    <3>1. i = k + 1 \/ i \in 2..k
      BY <1>1
    <3> QED
      BY <1>1, <2>1, <2>2, <2>3, <2>5, <3>1
  <2>7. ASSUME NEW i \in 2..k + 1, NEW j \in 2..k + 1, i < j PROVE r[i] < r[j]
    <3>1. i \in 2..k /\ (j = k + 1 \/ j \in 2..k)
      BY <1>1, <2>7
    <3>2. 2..k \subseteq 1..k
      BY <1>1
    <3>3. r[i] = s[i] /\ (j \in 2..k => r[j] = s[j])
      BY <2>2, <3>1, <3>2
    <3> QED
      BY <2>2, <2>4, <2>7, <3>1, <3>3 DEF IsList
  <2>8. ASSUME NEW i \in 1..k PROVE f.next[r[i]] = r[i + 1]
    <3>1. CASE i = k
      BY <1>1, <2>2, <3>1
    <3>2. CASE i # k
      <4>1. i \in 1..k - 1 /\ i + 1 \in 1..k
        BY <1>1, <3>2
      <4> QED
        BY <2>2, <4>1 DEF IsList
    <3> QED
      BY <3>1, <3>2
  <2>9. r[1] = FlHead
    BY <1>1, <2>2 DEF IsList
  <2>10. IsList(f, r)
    BY <1>1, <2>2, <2>6, <2>7, <2>8, <2>9 DEF IsList
  <2> QED
    BY <1>4, <2>2, <2>6, <2>10
<1> QED
  BY <1>3, <1>4

\* List(f) holds the nodes, in order, and Next leads from each to the next.
LEMMA ListIs ==
  ASSUME NEW f, IsFl(f), Linked(f.next, Blue(f))
  PROVE  /\ IsList(f, List(f))
         /\ f.next[List(f)[Len(List(f))]] = Null
         /\ \A a \in Blue(f) \cup {FlHead} : \E i \in 1..Len(List(f)) : List(f)[i] = a
<1> DEFINE L == List(f)
<1>1. PICK w : /\ w = [k \in 0..Words |-> IF k = 0 THEN <<FlHead>> ELSE Longer(f, w[k - 1])]
               /\ L = w[Words]
  BY ListWalks
<1> DEFINE P(k) == /\ IsList(f, w[k]) /\ \A i \in 2..Len(w[k]) : w[k][i] >= i - 1
                   /\ f.next[Last(w[k])] = Null \/ Len(w[k]) = k + 1
           S == {k \in Nat : k <= Words => P(k)}
<1>2. 0 \in S
  <2>1. w[0] = <<FlHead>>
    BY <1>1, Spots
  <2>2. IsList(f, <<FlHead>>)
    BY DEF IsList, Spot
  <2> QED
    BY <2>1, <2>2
<1>3. ASSUME NEW k \in Nat, k \in S PROVE k + 1 \in S
  <2>1. ASSUME k + 1 <= Words PROVE P(k + 1)
    <3>1. w[k + 1] = Longer(f, w[k])
      BY <1>1, <2>1, Spots
    <3>2. k <= Words
      BY <2>1, Spots
    <3>3. P(k)
      BY <1>3, <3>2
    <3>4. /\ IsList(f, w[k + 1]) /\ \A i \in 2..Len(w[k + 1]) : w[k + 1][i] >= i - 1
          /\ IF f.next[Last(w[k])] = Null THEN w[k + 1] = w[k] ELSE Len(w[k + 1]) = Len(w[k]) + 1
      BY <3>1, <3>3, Grows
    <3> QED
      BY <3>3, <3>4
  <2> HIDE DEF P
  <2> QED
    BY <2>1
<1>4. P(Words)
  <2> HIDE DEF P
  <2>1. \A k \in Nat : k \in S
    <3> HIDE DEF S
    <3> QED
      BY <1>2, <1>3, SetInduction
  <2> QED
    BY <2>1, Spots
<1>5. /\ IsList(f, L) /\ \A i \in 2..Len(L) : L[i] >= i - 1
      /\ f.next[Last(L)] = Null \/ Len(L) = Words + 1
  BY <1>1, <1>4
<1> HIDE DEF L, S
<1> DEFINE n == Len(L)
<1>6. n \in Nat \ {0} /\ Last(L) = L[n] /\ L[n] \in Blue(f) \cup {FlHead}
  <2>1. n \in Nat \ {0} /\ Last(L) = L[n]
    BY <1>5 DEF IsList, Last
  <2>2. n = 1 \/ n \in 2..n
    BY <2>1
  <2> QED
    BY <1>5, <2>1, <2>2 DEF IsList
<1>7. f.next[L[n]] = Null
  <2> SUFFICES ASSUME f.next[L[n]] # Null PROVE FALSE
    OBVIOUS
  <2>0. Blue(f) \subseteq Addr
    BY DEF Blue, IsFl
  <2> DEFINE x == f.next[L[n]]
  <2>1. n = Words + 1 /\ x \in Addr /\ (L[n] = FlHead \/ L[n] < x)
    BY <1>5, <1>6, <2>0 DEF Linked, After
  <2>2. x \in Nat /\ x <= Words /\ x >= 1
    BY <2>1, Spots
  <2>3. n \in 2..n
    <3>1. Words >= 1 /\ Words \in Nat
      BY <2>2, Spots
    <3> QED
      BY <2>1, <3>1
  <2>4. L[n] \in Addr /\ L[n] >= n - 1
    BY <1>5, <2>0, <2>3 DEF IsList
  <2>5. L[n] \in Nat /\ L[n] # FlHead
    BY <2>4, Spots
  <2> QED
    BY <2>1, <2>2, <2>4, <2>5, Spots
<1>8. ASSUME NEW a \in Blue(f) \cup {FlHead} PROVE \E i \in 1..n : L[i] = a
  <2>1. CASE a = FlHead
    BY <1>5, <1>6, <2>1 DEF IsList
  <2>2. CASE a # FlHead
    <3>0. a \in Blue(f) /\ a \in Nat /\ Blue(f) \subseteq Addr
      BY <2>2, Spots DEF Blue, IsFl
    <3> SUFFICES ASSUME \A i \in 1..n : L[i] # a PROVE FALSE
      OBVIOUS
    <3> DEFINE I == {i \in 1..n : L[i] = FlHead \/ L[i] < a}
    <3>1. I \in SUBSET Nat /\ I # {} /\ \A i \in I : i <= n
      <4>1. 1 \in I
        BY <1>5, <1>6 DEF IsList
      <4> QED
        BY <4>1
    <3>2. PICK i \in I : \A j \in I : j <= i
      <4> HIDE DEF I
      <4> QED
        BY <1>6, <3>1, GreatestNumber
    <3>3. i \in 1..n /\ L[i] \in Blue(f) \cup {FlHead} /\ a \in After(Blue(f), L[i])
      <4>1. i \in 1..n /\ (L[i] = FlHead \/ L[i] < a)
        BY <3>2
      <4>2. L[i] \in Blue(f) \cup {FlHead}
        <5>1. CASE i = 1
          BY <1>5, <5>1 DEF IsList
        <5>2. CASE i # 1
          <6>1. i \in 2..n
            BY <1>6, <4>1, <5>2
          <6> QED
            BY <1>5, <6>1 DEF IsList
        <5> QED
          BY <5>1, <5>2
      <4> QED
        BY <3>0, <4>1, <4>2 DEF After
    <3>4. i # n
      BY <1>7, <3>3, <3>0, Spots DEF Linked, After
    <3>5. i + 1 \in 1..n /\ i \in 1..n - 1
      BY <1>6, <3>3, <3>4
    <3>6. f.next[L[i]] = L[i + 1]
      BY <1>5, <3>5 DEF IsList
    <3>7. L[i + 1] \in Addr
      BY <1>5, <1>6, <3>0, <3>5 DEF IsList
    <3>8. L[i + 1] <= a
      BY <3>3, <3>6, <3>7, Spots DEF Linked, After
    <3>9. L[i + 1] < a
      BY <3>0, <3>5, <3>7, <3>8, Spots
    <3>10. i + 1 \in I
      BY <3>5, <3>9
    <3> QED
      BY <3>2, <3>3, <3>10
  <2> QED
    BY <2>1, <2>2
<1> QED
  BY <1>5, <1>7, <1>8 DEF L

-----------------------------------------------------------------------------
(* The nodes and their order *)

\* What the list of the nodes is, in the order of the addresses.
IsChain(f, L) ==
  /\ L \in Seq(Spot) /\ Len(L) \in Nat \ {0} /\ L[1] = FlHead /\ Last(L) = L[Len(L)]
  /\ f.next[L[Len(L)]] = Null
  /\ \A i \in 1..Len(L) : L[i] \in Blue(f) \cup {FlHead} /\ (i # 1 => L[i] \in Blue(f))
  /\ \A i, j \in 1..Len(L) : i < j => L[j] \in After(Blue(f), L[i])
  /\ \A i, j \in 1..Len(L) : L[j] \in After(Blue(f), L[i]) => i < j
  /\ \A i \in 1..Len(L) - 1 : f.next[L[i]] = L[i + 1]
  /\ \A a \in Blue(f) \cup {FlHead} : Place(L, a) \in 1..Len(L) /\ L[Place(L, a)] = a
  /\ \A i \in 1..Len(L) : Place(L, L[i]) = i

\* A free block is a block of the heap.
LEMMA BlueIs ==
  ASSUME NEW f, IsFl(f)
  PROVE  Blue(f) \subseteq Addr /\ Blue(f) \subseteq DOMAIN f.hd
BY DEF IsFl, Blue

\* List(f) leads through all of the free blocks, in order, each at one place.
LEMMA ListChain ==
  ASSUME NEW f, IsFl(f), Linked(f.next, Blue(f))
  PROVE  IsChain(f, List(f))
<1> DEFINE L == List(f)
           B == Blue(f)
           n == Len(L)
<1>1. IsList(f, L) /\ f.next[L[n]] = Null /\ \A a \in B \cup {FlHead} : \E i \in 1..n : L[i] = a
  BY ListIs
<1> HIDE DEF L
<1>2. L \in Seq(Spot) /\ n \in Nat \ {0} /\ L[1] = FlHead /\ Last(L) = L[n]
  BY <1>1 DEF IsList, Last
<1>3. \A i \in 1..n : i = 1 \/ i \in 2..n
  BY <1>2
<1>4. \A i \in 1..n : L[i] \in B \cup {FlHead} /\ (i # 1 => L[i] \in B)
  BY <1>1, <1>2, <1>3 DEF IsList
<1>5. B \subseteq Addr /\ \A b \in B : b \in Nat /\ b # FlHead
  BY BlueIs, Spots
<1>6. ASSUME NEW i \in 1..n, NEW j \in 1..n, i < j PROVE L[j] \in After(B, L[i])
  <2>1. j \in 2..n /\ L[j] \in B
    BY <1>2, <1>4, <1>6
  <2>2. i = 1 \/ (i \in 2..n /\ L[i] < L[j])
    BY <1>1, <1>3, <1>6, <2>1 DEF IsList
  <2> QED
    BY <1>2, <2>1, <2>2 DEF After
<1>7. ASSUME NEW i \in 1..n, NEW j \in 1..n, L[j] \in After(B, L[i]) PROVE i < j
  <2> SUFFICES ASSUME j < i \/ j = i PROVE FALSE
    OBVIOUS
  <2>1. L[j] \in B /\ (L[i] = FlHead \/ L[i] < L[j])
    BY <1>7 DEF After
  <2>2. j = i \/ (L[i] \in B /\ (L[j] = FlHead \/ L[j] < L[i]))
    BY <1>6 DEF After
  <2>3. L[j] \in Nat /\ L[j] # FlHead /\ (L[i] \in B => L[i] \in Nat /\ L[i] # FlHead)
    BY <1>5, <2>1
  <2> QED
    BY <2>1, <2>2, <2>3
<1>8. ASSUME NEW i \in 1..n, NEW j \in 1..n, L[i] = L[j] PROVE i = j
  <2>1. \A k, l \in 1..n : k < l => L[k] # L[l]
    <3> SUFFICES ASSUME NEW k \in 1..n, NEW l \in 1..n, k < l PROVE L[k] # L[l]
      OBVIOUS
    <3>1. L[l] \in B /\ (L[k] = FlHead \/ L[k] < L[l])
      BY <1>6 DEF After
    <3>2. L[l] \in Nat /\ L[l] # FlHead
      BY <1>5, <3>1
    <3> QED
      BY <3>1, <3>2
  <2>2. ~ (i < j) /\ ~ (j < i)
    BY <1>8, <2>1
  <2> QED
    BY <2>2
<1>9. DOMAIN L = 1..n
  BY <1>2
<1>10. \A a \in B \cup {FlHead} : Place(L, a) \in 1..n /\ L[Place(L, a)] = a
  BY <1>1, <1>9 DEF Place
<1>11. \A i \in 1..n : Place(L, L[i]) = i
  <2> SUFFICES ASSUME NEW i \in 1..n PROVE Place(L, L[i]) = i
    OBVIOUS
  <2>1. Place(L, L[i]) \in 1..n /\ L[Place(L, L[i])] = L[i]
    BY <1>4, <1>10
  <2> QED
    BY <1>8, <2>1
<1>12. \A i \in 1..n - 1 : f.next[L[i]] = L[i + 1]
  BY <1>1 DEF IsList
<1>13. /\ \A i, j \in 1..n : i < j => L[j] \in After(B, L[i])
       /\ \A i, j \in 1..n : L[j] \in After(B, L[i]) => i < j
  BY <1>6, <1>7
<1>14. IsChain(f, L)
  BY <1>1, <1>2, <1>4, <1>10, <1>11, <1>12, <1>13 DEF IsChain
<1> QED
  BY <1>14 DEF L

\* What comes after a later node comes after an earlier one.
LEMMA AfterAfter ==
  ASSUME NEW B \in SUBSET Addr, NEW a \in B \cup {FlHead}, NEW b, NEW c,
         b \in After(B, a), c \in After(B, b)
  PROVE  c \in After(B, a)
<1>1. b \in Nat /\ c \in Nat /\ b # FlHead /\ (a = FlHead \/ a \in Nat)
  BY Spots DEF After
<1> QED
  BY <1>1 DEF After

\* Next of a node is the least of the free blocks after it, or Null.
LEMMA NextIs ==
  ASSUME NEW B \in SUBSET Addr, NEW next, Linked(next, B)
  PROVE  \A a \in B \cup {FlHead} :
           /\ next[a] = Null <=> After(B, a) = {}
           /\ next[a] # Null => next[a] \in After(B, a) /\ next[a] \in B /\ next[a] # a
           /\ \A b \in After(B, a) : next[a] <= b
<1> SUFFICES ASSUME NEW a \in B \cup {FlHead}
             PROVE  /\ next[a] = Null <=> After(B, a) = {}
                    /\ next[a] # Null => next[a] \in After(B, a) /\ next[a] \in B /\ next[a] # a
                    /\ \A b \in After(B, a) : next[a] <= b
  OBVIOUS
<1>1. \/ next[a] = Null /\ After(B, a) = {}
      \/ next[a] \in After(B, a) /\ \A b \in After(B, a) : next[a] <= b
  BY DEF Linked
<1>2. \A b \in After(B, a) : b \in B /\ b # Null /\ b # a
  BY Spots DEF After
<1> QED
  BY <1>1, <1>2

\* The list without the block after prev, as fl_allocate unlinks it.
LEMMA LinkRemove ==
  ASSUME NEW B \in SUBSET Addr, NEW next \in [Spot -> Addr \cup {Null}], Linked(next, B),
         NEW prev \in B \cup {FlHead}, NEW cur, cur = next[prev], cur # Null,
         NEW N, N = [next EXCEPT ![prev] = next[cur], ![cur] = Null]
  PROVE  /\ N \in [Spot -> Addr \cup {Null}] /\ cur \in B /\ cur # prev /\ Linked(N, B \ {cur})
         /\ N[prev] = next[cur] /\ \A a \in Spot \ {prev, cur} : N[a] = next[a]
<1>0. \A a \in B \cup {FlHead} :
           /\ next[a] = Null <=> After(B, a) = {}
           /\ next[a] # Null => next[a] \in After(B, a) /\ next[a] \in B /\ next[a] # a
           /\ \A b \in After(B, a) : next[a] <= b
  BY NextIs
<1>1. cur \in After(B, prev) /\ cur \in B /\ cur # prev /\ \A b \in After(B, prev) : cur <= b
  BY <1>0
<1>2. prev \in Spot /\ cur \in Spot /\ cur \in Addr /\ cur # FlHead
  BY <1>1, Spots DEF Spot
<1>3. N \in [Spot -> Addr \cup {Null}] /\ N[prev] = next[cur] /\ N[cur] = Null
      /\ \A a \in Spot \ {prev, cur} : N[a] = next[a]
  BY <1>1, <1>2
<1>4. ASSUME NEW a \in (B \ {cur}) \cup {FlHead}
      PROVE  \/ N[a] = Null /\ After(B \ {cur}, a) = {}
             \/ N[a] \in After(B \ {cur}, a) /\ \A b \in After(B \ {cur}, a) : N[a] <= b
  <2>1. a \in Spot /\ a # cur
    BY <1>2, <1>4 DEF Spot
  <2>2. CASE a = prev
    <3>1. N[a] = next[cur]
      BY <1>3, <2>2
    <3>2. After(B \ {cur}, prev) = After(B, cur)
      <4>1. ASSUME NEW b \in After(B \ {cur}, prev) PROVE b \in After(B, cur)
        <5>1. b \in After(B, prev) /\ b # cur /\ b \in B
          BY DEF After
        <5>2. cur <= b /\ b \in Nat /\ cur \in Nat
          BY <1>1, <1>2, <5>1, Spots
        <5> QED
          BY <5>1, <5>2 DEF After
      <4>2. ASSUME NEW b \in After(B, cur) PROVE b \in After(B \ {cur}, prev)
        <5>1. b \in B /\ b # cur
          BY <1>2, Spots DEF After
        <5>2. b \in After(B, prev)
          BY <1>1, AfterAfter
        <5> QED
          BY <5>1, <5>2 DEF After
      <4> QED
        BY <4>1, <4>2
    <3> QED
      BY <1>1, <2>2, <3>1, <3>2, <1>0
  <2>3. CASE a # prev
    <3>1. N[a] = next[a] /\ a \in B \cup {FlHead}
      BY <1>3, <2>1, <2>3, <1>4
    <3>2. next[a] # cur
      <4> SUFFICES ASSUME next[a] = cur PROVE FALSE
        OBVIOUS
      <4>1. cur \in After(B, a) /\ \A b \in After(B, a) : cur <= b
        BY <1>2, <3>1, <1>0, Spots
      <4>2. CASE a = FlHead
        <5>1. prev \in B /\ prev \in After(B, a)
          BY <2>3, <4>2 DEF After
        <5> QED
          BY <1>1, <1>2, <4>1, <5>1, Spots DEF After
      <4>3. CASE prev = FlHead
        <5>1. a \in B /\ a \in After(B, prev)
          BY <2>3, <3>1, <4>3 DEF After
        <5> QED
          BY <1>1, <1>2, <4>1, <5>1, Spots DEF After
      <4>4. CASE a \in B /\ prev \in B
        <5>1. a \in Nat /\ prev \in Nat /\ cur \in Nat /\ a # FlHead /\ prev # FlHead /\ a < cur /\ prev < cur
          BY <1>1, <1>2, <4>1, <4>4, Spots DEF After
        <5>2. a < prev \/ prev < a
          BY <2>3, <5>1
        <5>3. a < prev => prev \in After(B, a)
          BY <4>4 DEF After
        <5>4. prev < a => a \in After(B, prev)
          BY <4>4 DEF After
        <5> QED
          BY <1>1, <4>1, <5>1, <5>2, <5>3, <5>4
      <4> QED
        BY <3>1, <4>2, <4>3, <4>4
    <3>3. After(B \ {cur}, a) \subseteq After(B, a)
      BY DEF After
    <3>4. next[a] # Null => next[a] \in After(B \ {cur}, a)
      <4> SUFFICES ASSUME next[a] # Null PROVE next[a] \in After(B \ {cur}, a)
        OBVIOUS
      <4>1. next[a] \in After(B, a)
        BY <3>1, <1>0
      <4> QED
        BY <3>2, <4>1 DEF After
    <3>5. next[a] = Null => After(B, a) = {}
      BY <3>1, <1>0
    <3>6. \A b \in After(B, a) : next[a] <= b
      BY <3>1, <1>0
    <3> QED
      BY <3>1, <3>3, <3>4, <3>5, <3>6
  <2> QED
    BY <2>2, <2>3
<1>5. ASSUME NEW a \in Addr \ (B \ {cur}) PROVE N[a] = Null
  <2>1. CASE a = cur
    BY <1>3, <2>1
  <2>2. CASE a # cur
    <3>1. a \notin B /\ a \in Spot /\ a # prev
      BY <2>2, Spots DEF Spot
    <3> QED
      BY <1>3, <2>2, <3>1 DEF Linked
  <2> QED
    BY <2>1, <2>2
<1>6. Linked(N, B \ {cur})
  BY <1>4, <1>5 DEF Linked
<1> QED
  BY <1>1, <1>3, <1>6

\* The links with bp put in after prev.
LinksWith(next, prev, bp) == [next EXCEPT ![bp] = next[prev], ![prev] = bp]
LinkedWith(B, next, prev, bp, N) ==
  /\ N \in [Spot -> Addr \cup {Null}] /\ Linked(N, B \cup {bp})
  /\ N[prev] = bp /\ N[bp] = next[prev] /\ \A a \in Spot \ {prev, bp} : N[a] = next[a]

\* The list with the block bp after prev, as caml_fl_merge_block and caml_fl_add_blocks link it.
LEMMA LinkInsert ==
  ASSUME NEW B \in SUBSET Addr, NEW next \in [Spot -> Addr \cup {Null}], Linked(next, B),
         NEW prev, NEW bp \in Addr \ B, LastBefore(B, prev, bp)
  PROVE  LinkedWith(B, next, prev, bp, LinksWith(next, prev, bp))
<1> DEFINE N == LinksWith(next, prev, bp)
<1> DEFINE C == B \cup {bp}
<1>0. \A a \in B \cup {FlHead} :
        /\ next[a] = Null <=> After(B, a) = {}
        /\ next[a] # Null => next[a] \in After(B, a) /\ next[a] \in B /\ next[a] # a
        /\ \A b \in After(B, a) : next[a] <= b
  BY NextIs
<1>1. prev \in B \cup {FlHead} /\ (prev = FlHead \/ prev < bp) /\ \A b \in B : b < bp => prev # FlHead /\ b <= prev
  BY DEF LastBefore
<1>2. prev \in Spot /\ bp \in Spot /\ bp # prev /\ bp \in Nat /\ bp # FlHead
  BY <1>1, Spots DEF Spot
<1>3. /\ N \in [Spot -> Addr \cup {Null}] /\ N[prev] = bp /\ N[bp] = next[prev]
      /\ \A a \in Spot \ {prev, bp} : N[a] = next[a]
  BY <1>2 DEF LinksWith
<1> HIDE DEF N
<1>4. \A b \in B : b \in Nat /\ b # FlHead /\ b # bp
  BY Spots
<1>5. After(B, prev) = After(B, bp)
  <2>1. ASSUME NEW b \in After(B, prev) PROVE b \in After(B, bp)
    <3>1. b \in B /\ (prev = FlHead \/ prev < b)
      BY DEF After
    <3>2. ~ (b < bp)
      BY <1>1, <1>4, <3>1
    <3> QED
      BY <1>2, <1>4, <3>1, <3>2 DEF After
  <2>2. ASSUME NEW b \in After(B, bp) PROVE b \in After(B, prev)
    <3>1. b \in B /\ bp < b
      BY <1>2 DEF After
    <3> QED
      BY <1>1, <1>2, <1>4, <3>1 DEF After
  <2> QED
    BY <2>1, <2>2
<1>6. \A a : After(C, a) = After(B, a) \cup (IF a = FlHead \/ a < bp THEN {bp} ELSE {})
  BY DEF After
<1>7. ASSUME NEW a \in C \cup {FlHead}
      PROVE  \/ N[a] = Null /\ After(C, a) = {}
             \/ N[a] \in After(C, a) /\ \A b \in After(C, a) : N[a] <= b
  <2>1. CASE a = prev
    <3>1. N[a] \in After(C, a)
      BY <1>1, <1>3, <1>6, <2>1
    <3>2. ASSUME NEW b \in After(C, a) PROVE N[a] <= b
      <4>1. b = bp \/ b \in After(B, bp)
        BY <1>5, <1>6, <2>1
      <4>2. b = bp \/ bp < b
        BY <1>2, <4>1 DEF After
      <4>3. N[a] = bp /\ bp \in Nat /\ b \in Nat
        BY <1>2, <1>3, <1>4, <2>1, <3>2 DEF After
      <4> QED
        BY <4>2, <4>3
    <3> QED
      BY <3>1, <3>2
  <2>2. CASE a = bp
    <3>1. After(C, a) = After(B, prev)
      <4>1. ~ (a = FlHead \/ a < bp)
        BY <1>2, <2>2
      <4>2. After(C, a) = After(B, a)
        BY <1>6, <4>1
      <4> QED
        BY <1>5, <2>2, <4>2
    <3> QED
      BY <1>0, <1>1, <1>3, <2>2, <3>1
  <2>3. CASE a # prev /\ a # bp
    <3>1. a \in B \cup {FlHead} /\ N[a] = next[a]
      BY <1>3, <2>3 DEF Spot
    <3>2. CASE a = FlHead \/ a < bp
      <4>1. prev \in B /\ prev \in After(B, a) /\ prev < bp
        <5>1. prev \in B
          BY <1>1, <1>4, <2>3, <3>1, <3>2
        <5>2. a = FlHead \/ a < prev
          BY <1>1, <1>4, <2>3, <3>1, <3>2, <5>1
        <5> QED
          BY <1>1, <1>4, <5>1, <5>2 DEF After
      <4>2. next[a] # Null /\ next[a] \in After(B, a) /\ next[a] \in B /\ next[a] <= prev
        BY <1>0, <3>1, <4>1
      <4>3. next[a] <= bp
        <5>1. next[a] \in Nat /\ prev \in Nat /\ bp \in Nat
          BY <1>2, <1>4, <4>1, <4>2
        <5>2. next[a] <= prev /\ prev < bp
          BY <4>1, <4>2
        <5> QED
          BY <5>1, <5>2
      <4> QED
        BY <1>0, <1>6, <3>1, <4>2, <4>3
    <3>3. CASE ~ (a = FlHead \/ a < bp)
      BY <1>0, <1>6, <3>1, <3>3
    <3> QED
      BY <3>2, <3>3
  <2> QED
    BY <2>1, <2>2, <2>3
<1>8. ASSUME NEW a \in Addr \ C PROVE N[a] = Null
  <2>1. a \in Spot /\ a # prev /\ a # bp /\ a \in Addr \ B
    BY <1>1, Spots DEF Spot
  <2> QED
    BY <1>3, <2>1 DEF Linked
<1>9. Linked(N, C)
  BY <1>7, <1>8 DEF Linked
<1> QED
  BY <1>3, <1>9 DEF LinkedWith, N

\* The merge point stays the last free block before p when a block is unlinked.
LEMMA LastBeforeRemove ==
  ASSUME NEW B \in SUBSET Addr, NEW next, Linked(next, B), NEW m, NEW p \in Nat, LastBefore(B, m, p),
         NEW prev \in B \cup {FlHead}, NEW cur, cur = next[prev], cur # Null
  PROVE  LastBefore(B \ {cur}, IF m = cur THEN prev ELSE m, p)
<1>0. cur \in After(B, prev) /\ cur \in B /\ cur # prev /\ \A b \in After(B, prev) : cur <= b
  BY NextIs
<1>1. m \in B \cup {FlHead} /\ (m = FlHead \/ m < p) /\ \A b \in B : b < p => m # FlHead /\ b <= m
  BY DEF LastBefore
<1>2. \A b \in B : b \in Nat /\ b # FlHead
  BY Spots
<1>3. CASE m # cur
  BY <1>1, <1>3 DEF LastBefore
<1>4. CASE m = cur
  <2>1. prev = FlHead \/ prev < p
    BY <1>0, <1>1, <1>2, <1>4 DEF After
  <2>2. ASSUME NEW b \in B \ {cur}, b < p PROVE prev # FlHead /\ b <= prev
    <3>1. b < cur
      BY <1>0, <1>1, <1>2, <1>4, <2>2
    <3>2. b \notin After(B, prev)
      BY <1>0, <1>2, <3>1
    <3> QED
      BY <1>2, <3>2 DEF After
  <2> QED
    BY <1>0, <1>4, <2>1, <2>2 DEF LastBefore
<1> QED
  BY <1>3, <1>4

\* The merge point stays the last free block before p when a block is linked in.
LEMMA LastBeforeInsert ==
  ASSUME NEW B \in SUBSET Addr, NEW m, NEW p \in Nat, LastBefore(B, m, p),
         NEW prev, NEW bp \in Addr \ B, LastBefore(B, prev, bp)
  PROVE  LastBefore(B \cup {bp}, IF prev = m /\ bp < p THEN bp ELSE m, p)
<1>1. m \in B \cup {FlHead} /\ (m = FlHead \/ m < p) /\ \A b \in B : b < p => m # FlHead /\ b <= m
  BY DEF LastBefore
<1>2. prev \in B \cup {FlHead} /\ (prev = FlHead \/ prev < bp) /\ \A b \in B : b < bp => prev # FlHead /\ b <= prev
  BY DEF LastBefore
<1>3. bp \in Nat /\ bp # FlHead /\ \A b \in B : b \in Nat /\ b # FlHead
  BY Spots
<1>4. CASE prev = m /\ bp < p
  <2>1. \A b \in B \cup {bp} : b < p => b <= bp
    BY <1>1, <1>2, <1>3, <1>4
  <2> QED
    BY <1>3, <1>4, <2>1 DEF LastBefore
<1>5. CASE ~ (prev = m /\ bp < p)
  <2>1. bp < p => m # FlHead /\ bp <= m
    <3> SUFFICES ASSUME bp < p PROVE m # FlHead /\ bp <= m
      OBVIOUS
    <3>1. prev # m
      BY <1>5
    <3>2. m # FlHead
      <4> SUFFICES ASSUME m = FlHead PROVE FALSE
        OBVIOUS
      <4>1. prev \in B /\ prev < p
        BY <1>2, <1>3, <3>1
      <4> QED
        BY <1>1, <4>1
    <3>3. ~ (m < bp)
      <4> SUFFICES ASSUME m < bp PROVE FALSE
        OBVIOUS
      <4>1. m \in B /\ prev \in B /\ m <= prev /\ prev < p
        BY <1>1, <1>2, <1>3, <3>2
      <4>2. prev <= m
        BY <1>1, <4>1
      <4> QED
        BY <1>3, <3>1, <4>1, <4>2
    <3> QED
      BY <1>1, <1>3, <3>2, <3>3
  <2> QED
    BY <1>1, <1>5, <2>1 DEF LastBefore
<1> QED
  BY <1>4, <1>5

-----------------------------------------------------------------------------
(* The table *)

\* A table followed by entries that come later is a table.
LEMMA EntriesConcat ==
  ASSUME NEW B \in SUBSET Addr, NEW s \in Seq(Spot), NEW t \in Seq(Spot), Entries(B, s), Entries(B, t),
         \A i \in 1..Len(s), j \in 1..Len(t) : t[j] \in After(B, s[i])
  PROVE  s \o t \in Seq(Spot) /\ Len(s \o t) = Len(s) + Len(t) /\ Entries(B, s \o t)
<1> DEFINE m == Len(s)
           n == Len(t)
           u == s \o t
<1>1. /\ m \in Nat /\ n \in Nat /\ u \in Seq(Spot) /\ Len(u) = m + n
      /\ \A i \in 1..m + n : u[i] = IF i <= m THEN s[i] ELSE t[i - m]
  OBVIOUS
<1> HIDE DEF u
<1>2. \A i \in 1..m + n : (i <= m => i \in 1..m) /\ (~ (i <= m) => i - m \in 1..n)
  BY <1>1
<1>3. ASSUME NEW k \in 1..m + n PROVE u[k] \in B \cup {FlHead} /\ After(B, u[k]) # {}
  BY <1>1, <1>2 DEF Entries
<1>4. ASSUME NEW k \in 1..m + n, NEW l \in 1..m + n, k < l PROVE u[l] \in After(B, u[k])
  <2>1. CASE l <= m
    <3>1. k <= m /\ k \in 1..m /\ l \in 1..m
      BY <1>1, <1>2, <1>4, <2>1
    <3> QED
      BY <1>1, <1>4, <2>1, <3>1 DEF Entries
  <2>2. CASE ~ (l <= m) /\ k <= m
    BY <1>1, <1>2, <2>2
  <2>3. CASE ~ (l <= m) /\ ~ (k <= m)
    <3>1. k - m \in 1..n /\ l - m \in 1..n /\ k - m < l - m
      BY <1>1, <1>2, <1>4, <2>3
    <3> QED
      BY <1>1, <2>3, <3>1 DEF Entries
  <2> QED
    BY <2>1, <2>2, <2>3
<1>5. Entries(B, u)
  BY <1>1, <1>3, <1>4 DEF Entries
<1> QED
  BY <1>1, <1>5 DEF u

\* Part of a table is one.
LEMMA EntriesPart ==
  ASSUME NEW B, NEW s \in Seq(Spot), Entries(B, s), NEW i \in Nat \ {0}, NEW k \in Nat, k <= Len(s)
  PROVE  LET t == SubSeq(s, i, k)
         IN  /\ t \in Seq(Spot) /\ Len(t) = (IF i <= k THEN k - i + 1 ELSE 0)
             /\ \A j \in 1..Len(t) : t[j] = s[i + j - 1] /\ i + j - 1 \in i..k /\ i + j - 1 \in 1..Len(s)
             /\ Entries(B, t)
<1> DEFINE t == SubSeq(s, i, k)
           n == IF i <= k THEN k - i + 1 ELSE 0
<1>0. Len(s) \in Nat /\ \A j \in i..k : j \in 1..Len(s) /\ s[j] \in Spot
  <2>1. Len(s) \in Nat /\ \A j \in 1..Len(s) : s[j] \in Spot
    OBVIOUS
  <2>2. \A j \in i..k : j \in 1..Len(s)
    BY <2>1
  <2> QED
    BY <2>1, <2>2
<1>1. t \in Seq(Spot) /\ Len(t) = n /\ \A j \in 1..(k - i + 1) : t[j] = s[i + j - 1]
  BY <1>0, SubSeqProperties
<1> HIDE DEF t
<1>2. \A j \in 1..n : j \in 1..(k - i + 1) /\ i + j - 1 \in i..k /\ i + j - 1 \in 1..Len(s)
  BY <1>0
<1>3. \A j \in 1..n : t[j] = s[i + j - 1]
  BY <1>1, <1>2
<1>4. Entries(B, t)
  <2>1. \A j \in 1..n : t[j] \in B \cup {FlHead} /\ After(B, t[j]) # {}
    BY <1>2, <1>3 DEF Entries
  <2>2. ASSUME NEW j \in 1..n, NEW l \in 1..n, j < l PROVE t[l] \in After(B, t[j])
    <3>1. i + j - 1 < i + l - 1
      BY <2>2
    <3> QED
      BY <1>2, <1>3, <3>1 DEF Entries
  <2> QED
    BY <1>1, <2>1, <2>2 DEF Entries
<1>5. /\ t \in Seq(Spot) /\ Len(t) = n
      /\ \A j \in 1..Len(t) : t[j] = s[i + j - 1] /\ i + j - 1 \in i..k /\ i + j - 1 \in 1..Len(s)
      /\ Entries(B, t)
  BY <1>1, <1>2, <1>3, <1>4
<1> QED
  BY <1>5 DEF t

\* A table of nodes in order stays one when blocks come and go elsewhere.
LEMMA EntriesIn ==
  ASSUME NEW B \in SUBSET Addr, NEW C, NEW s \in Seq(Spot), Entries(B, s),
         \A k \in 1..Len(s) : s[k] \in C \cup {FlHead},
         Len(s) # 0 => After(C, s[Len(s)]) # {}
  PROVE  Entries(C, s)
<1>1. Len(s) \in Nat
  OBVIOUS
<1>2. ASSUME NEW k \in 1..Len(s), NEW l \in 1..Len(s), k < l PROVE s[l] \in After(C, s[k])
  <2>1. s[l] \in B /\ (s[k] = FlHead \/ s[k] < s[l])
    BY <1>2 DEF Entries, After
  <2>2. s[l] \in C
    BY <2>1, Spots
  <2> QED
    BY <2>1, <2>2 DEF After
<1>3. ASSUME NEW k \in 1..Len(s) PROVE s[k] \in C \cup {FlHead} /\ After(C, s[k]) # {}
  <2>1. k = Len(s) \/ (k < Len(s) /\ Len(s) \in 1..Len(s))
    BY <1>1
  <2>2. Len(s) # 0
    BY <1>1
  <2> QED
    BY <1>2, <2>1, <2>2
<1> QED
  BY <1>2, <1>3 DEF Entries

\* The empty table has nothing to be wrong.
LEMMA NoEntries ==
  ASSUME NEW B
  PROVE  Entries(B, << >>) /\ \A b \in B \cup {Null} : Beyond(B, << >>, b)
BY DEF Entries, Beyond

-----------------------------------------------------------------------------
(* Positions in the list, and the table *)

\* The sizes of the blocks are numbers of words.
LEMMA Sizes ==
  ASSUME NEW f, IsFl(f)
  PROVE  /\ \A b \in DOMAIN f.hd : Wosize(f, b) = f.hd[b].wosize /\ Wosize(f, b) \in Nat /\ Wosize(f, b) <= Words
         /\ \A b \in Blue(f) : Wosize(f, b) = f.hd[b].wosize /\ Wosize(f, b) \in Nat /\ Wosize(f, b) <= Words
         /\ Wosize(f, FlHead) = 0
<1>1. \A b \in DOMAIN f.hd : b # FlHead /\ f.hd[b] \in Block
  BY Spots DEF IsFl
<1>2. \A b \in DOMAIN f.hd : f.hd[b].wosize \in 0..Words
  BY <1>1 DEF Block
<1> QED
  BY <1>1, <1>2, Spots DEF Wosize, Blue

\* A block after the last entry is after every entry.
LEMMA BeyondLast ==
  ASSUME NEW B \in SUBSET Addr, NEW s \in Seq(Spot), Entries(B, s), NEW b \in B,
         Len(s) # 0 => b \in After(B, s[Len(s)])
  PROVE  Beyond(B, s, b)
<1>1. Len(s) \in Nat
  OBVIOUS
<1>2. ASSUME NEW k \in 1..Len(s) PROVE b \in After(B, s[k])
  <2>1. Len(s) # 0 /\ Len(s) \in 1..Len(s) /\ (k = Len(s) \/ k < Len(s))
    BY <1>1
  <2>2. CASE k = Len(s)
    BY <2>1, <2>2
  <2>3. CASE k < Len(s)
    <3>1. s[Len(s)] \in After(B, s[k]) /\ s[k] \in B \cup {FlHead}
      BY <2>1, <2>3 DEF Entries
    <3> QED
      BY <2>1, <3>1, AfterAfter
  <2> QED
    BY <2>1, <2>2, <2>3
<1> QED
  BY <1>2 DEF Beyond

\* The nodes before places of the list, in order, are entries.
LEMMA PrevsAre ==
  ASSUME NEW f, IsFl(f), Linked(f.next, Blue(f)), NEW L, L = List(f), NEW q \in Seq(Nat),
         \A k \in 1..Len(q) : q[k] \in 2..Len(L), \A k, l \in 1..Len(q) : k < l => q[k] < q[l]
  PROVE  LET t == Prevs(L, q)
         IN  /\ t \in Seq(Spot) /\ Len(t) = Len(q) /\ Entries(Blue(f), t)
             /\ \A k \in 1..Len(q) : t[k] = L[q[k] - 1] /\ q[k] - 1 \in 1..Len(L) - 1 /\ f.next[t[k]] = L[q[k]]
                                     /\ L[q[k]] \in After(Blue(f), t[k])
<1> DEFINE t == Prevs(L, q)
           B == Blue(f)
           N == Len(q)
<1>1. IsChain(f, L)
  BY ListChain
<1>2. L \in Seq(Spot) /\ Len(L) \in Nat \ {0} /\ N \in Nat /\ DOMAIN q = 1..N
  BY <1>1 DEF IsChain
<1>3. \A k \in 1..N : q[k] \in Nat /\ q[k] - 1 \in 1..Len(L) - 1 /\ q[k] - 1 \in 1..Len(L) /\ q[k] \in 1..Len(L)
                      /\ (q[k] - 1) + 1 = q[k] /\ q[k] - 1 < q[k]
  BY <1>2
<1>4. t = [k \in 1..N |-> L[q[k] - 1]]
  BY <1>2 DEF Prevs
<1>5. \A i \in 1..Len(L) : L[i] \in Spot
  BY <1>2
<1>6. t \in Seq(Spot) /\ Len(t) = N /\ \A k \in 1..N : t[k] = L[q[k] - 1]
  <2>1. t \in [1..N -> Spot]
    BY <1>3, <1>4, <1>5
  <2>2. t \in Seq(Spot) /\ Len(t) = N
    BY <1>2, <1>4, <2>1
  <2> QED
    BY <1>4, <2>2
<1> HIDE DEF t
<1>7. \A k \in 1..N : f.next[t[k]] = L[q[k]] /\ L[q[k]] \in After(B, t[k]) /\ t[k] \in B \cup {FlHead}
  <2> SUFFICES ASSUME NEW k \in 1..N
               PROVE  f.next[t[k]] = L[q[k]] /\ L[q[k]] \in After(B, t[k]) /\ t[k] \in B \cup {FlHead}
    OBVIOUS
  <2>1. f.next[L[q[k] - 1]] = L[(q[k] - 1) + 1]
    BY <1>1, <1>3 DEF IsChain
  <2>2. L[q[k]] \in After(B, L[q[k] - 1]) /\ L[q[k] - 1] \in B \cup {FlHead}
    BY <1>1, <1>3 DEF IsChain
  <2> QED
    BY <1>3, <1>6, <2>1, <2>2
<1>8. ASSUME NEW k \in 1..N, NEW l \in 1..N, k < l PROVE t[l] \in After(B, t[k])
  <2>1. q[k] - 1 < q[l] - 1
    BY <1>3, <1>8
  <2>2. L[q[l] - 1] \in After(B, L[q[k] - 1])
    BY <1>1, <1>3, <2>1 DEF IsChain
  <2> QED
    BY <1>6, <2>2
<1>9. Entries(B, t)
  <2>1. \A k \in 1..N : t[k] \in B \cup {FlHead} /\ After(B, t[k]) # {}
    BY <1>7
  <2> QED
    BY <1>6, <1>8, <2>1 DEF Entries
<1>10. /\ t \in Seq(Spot) /\ Len(t) = N /\ Entries(B, t)
       /\ \A k \in 1..N : t[k] = L[q[k] - 1] /\ q[k] - 1 \in 1..Len(L) - 1 /\ f.next[t[k]] = L[q[k]]
                          /\ L[q[k]] \in After(B, t[k])
  BY <1>3, <1>6, <1>7, <1>9
<1> QED
  BY <1>10 DEF t

\* s is the positions of I where the sizes grow, from n on.
IsMaxima(f, L, I, n, s) ==
  /\ s \in Seq(Nat) /\ Len(s) \in Nat
  /\ \A k \in 1..Len(s) : s[k] \in I /\ Wosize(f, L[s[k]]) > n /\ Wosize(f, L[s[k]]) \in Nat
  /\ \A k, l \in 1..Len(s) : k < l => s[k] < s[l] /\ Wosize(f, L[s[k]]) < Wosize(f, L[s[l]])
  /\ \A j \in I : Wosize(f, L[j]) > n => \E k \in 1..Len(s) : Wosize(f, L[s[k]]) >= Wosize(f, L[j])
  /\ \A k \in 1..Len(s) : \A j \in I : j < s[k] => Wosize(f, L[j]) < Wosize(f, L[s[k]])

\* Maxima finds the blocks that are larger than all before them, in order.
LEMMA MaximaAre ==
  ASSUME NEW f, IsFl(f), Linked(f.next, Blue(f)), NEW L, L = List(f), NEW I \in SUBSET (2..Len(L)),
         NEW n \in Nat
  PROVE  IsMaxima(f, L, I, n, Maxima(f, L, I, n))
<1> DEFINE s == Maxima(f, L, I, n)
           w(i) == Wosize(f, L[i])
           S == {i \in I : w(i) > n /\ \A j \in I : j < i => w(j) < w(i)}
           N == Cardinality(S)
<1>1. IsChain(f, L)
  BY ListChain
<1>2. L \in Seq(Spot) /\ Len(L) \in Nat \ {0} /\ I \in SUBSET Nat /\ S \in SUBSET Nat /\ I \in SUBSET (1..Len(L))
  <2>1. L \in Seq(Spot) /\ Len(L) \in Nat \ {0}
    BY <1>1 DEF IsChain
  <2>2. \A i \in I : i \in Nat /\ i \in 1..Len(L)
    BY <2>1
  <2> QED
    BY <2>1, <2>2
<1>3. \A i \in I : w(i) \in Nat
  <2> SUFFICES ASSUME NEW i \in I PROVE w(i) \in Nat
    OBVIOUS
  <2>1. i \in 1..Len(L)
    BY <1>2
  <2>2. L[i] \in Blue(f) \cup {FlHead}
    BY <1>1, <2>1 DEF IsChain
  <2> QED
    BY <2>2, Sizes
<1>4. IsFiniteSet(S)
  <2>1. IsFiniteSet(2..Len(L))
    BY <1>2, FS_Interval
  <2> QED
    BY <2>1, FS_Subset
<1>5. s = InOrder(S)
  BY DEF Maxima
<1>6. /\ N \in Nat /\ s \in [1..N -> S] /\ Increasing(s)
      /\ \A x \in S : \E i \in 1..N : s[i] = x
  BY <1>2, <1>4, <1>5, InOrderIs
<1> HIDE DEF s, N
<1>7. s \in Seq(Nat) /\ Len(s) = N /\ DOMAIN s = 1..N
  <2>1. s \in [1..N -> Nat] /\ DOMAIN s = 1..N
    <3>1. DOMAIN s = 1..N /\ \A i \in 1..N : s[i] \in Nat
      BY <1>2, <1>6
    <3>2. s = [i \in 1..N |-> s[i]]
      BY <1>6
    <3> QED
      BY <3>1, <3>2
  <2> QED
    BY <1>6, <2>1
<1>8. \A k \in 1..N : s[k] \in I /\ w(s[k]) > n /\ w(s[k]) \in Nat
  BY <1>3, <1>6
<1>9. \A k, l \in 1..N : k < l => s[k] < s[l] /\ w(s[k]) < w(s[l])
  <2> SUFFICES ASSUME NEW k \in 1..N, NEW l \in 1..N, k < l PROVE s[k] < s[l] /\ w(s[k]) < w(s[l])
    OBVIOUS
  <2>1. s[k] < s[l]
    BY <1>6, <1>7 DEF Increasing
  <2>2. s[k] \in I /\ s[l] \in S
    BY <1>6, <1>8
  <2> QED
    BY <2>1, <2>2
<1>10. ASSUME NEW j \in I, w(j) > n PROVE \E k \in 1..N : w(s[k]) >= w(j)
  <2> DEFINE J == {i \in I : w(i) >= w(j)}
  <2>1. J \in SUBSET Nat /\ J # {}
    <3>1. j \in J
      BY <1>3
    <3> QED
      BY <1>2, <3>1
  <2>2. PICK i \in J : \A k \in J : i <= k
    <3> HIDE DEF J
    <3> QED
      BY <2>1, LeastNumber
  <2>3. i \in I /\ w(i) >= w(j) /\ w(i) \in Nat /\ w(j) \in Nat /\ i \in Nat
    BY <1>2, <1>3, <2>2
  <2>4. ASSUME NEW k \in I, k < i PROVE w(k) < w(i)
    <3>1. k \notin J
      <4>1. k \in J => i <= k
        BY <2>2
      <4>2. k \in Nat
        BY <1>2
      <4> QED
        BY <2>3, <2>4, <4>1, <4>2
    <3>2. ~ (w(k) >= w(j)) /\ w(k) \in Nat
      BY <1>3, <3>1
    <3> QED
      BY <2>3, <3>2
  <2>5. i \in S
    BY <1>10, <2>3, <2>4
  <2>6. PICK k \in 1..N : s[k] = i
    BY <1>6, <2>5
  <2> QED
    BY <2>3, <2>6
<1>11. /\ s \in Seq(Nat) /\ Len(s) \in Nat
       /\ \A k \in 1..Len(s) : s[k] \in I /\ w(s[k]) > n /\ w(s[k]) \in Nat
       /\ \A k, l \in 1..Len(s) : k < l => s[k] < s[l] /\ w(s[k]) < w(s[l])
       /\ \A j \in I : w(j) > n => \E k \in 1..Len(s) : w(s[k]) >= w(j)
       /\ \A k \in 1..Len(s) : \A j \in I : j < s[k] => w(j) < w(s[k])
  BY <1>6, <1>7, <1>8, <1>9, <1>10
<1> QED
  BY <1>11 DEF s, IsMaxima

\* Of sizes that grow, the first ones are those below n.
LEMMA SmallerIs ==
  ASSUME NEW f, NEW L, NEW s \in Seq(Nat), NEW n \in Nat,
         \A k \in 1..Len(s) : Wosize(f, L[s[k]]) \in Nat,
         \A k, l \in 1..Len(s) : k < l => Wosize(f, L[s[k]]) < Wosize(f, L[s[l]])
  PROVE  LET c == Smaller(f, L, s, n)
         IN  c \in Nat /\ c <= Len(s) /\ \A k \in 1..Len(s) : Wosize(f, L[s[k]]) < n <=> k <= c
<1> DEFINE w(k) == Wosize(f, L[s[k]])
           K == {k \in 1..Len(s) : w(k) < n}
           N == Len(s)
<1>1. N \in Nat /\ DOMAIN s = 1..N
  OBVIOUS
<1>2. Smaller(f, L, s, n) = Cardinality(K)
  BY <1>1 DEF Smaller
<1>3. CASE K = {}
  <2>1. Cardinality(K) = 0
    BY <1>3, FS_EmptySet
  <2>2. \A k \in 1..N : ~ (w(k) < n) /\ ~ (k <= 0)
    BY <1>1, <1>3
  <2> HIDE DEF K
  <2> QED
    BY <1>1, <1>2, <2>1, <2>2
<1>4. CASE K # {}
  <2>1. K \in SUBSET Nat /\ \A k \in K : k <= N
    BY <1>1
  <2>2. PICK m \in K : \A k \in K : k <= m
    <3> HIDE DEF K
    <3> QED
      BY <1>1, <1>4, <2>1, GreatestNumber
  <2>3. m \in 1..N /\ w(m) < n /\ w(m) \in Nat
    BY <2>2
  <2>4. ASSUME NEW k \in 1..N PROVE w(k) < n <=> k <= m
    <3>1. k = m \/ k < m \/ m < k
      BY <1>1, <2>3
    <3>2. CASE k = m
      BY <2>3, <3>2
    <3>3. CASE k < m
      <4>1. w(k) < w(m) /\ w(k) \in Nat
        BY <2>3, <3>3
      <4> QED
        BY <2>3, <3>3, <4>1
    <3>4. CASE m < k
      <4>1. k \notin K
        BY <2>2, <2>3, <3>4
      <4> QED
        BY <2>3, <3>4, <4>1
    <3> QED
      BY <3>1, <3>2, <3>3, <3>4
  <2>5. K = 1..m
    <3>1. \A k \in 1..m : k \in 1..N
      BY <1>1, <2>3
    <3>2. \A k \in 1..N : k <= m => k \in 1..m
      BY <1>1, <2>3
    <3> QED
      BY <2>2, <2>4, <3>1, <3>2
  <2>6. Cardinality(K) = m
    <3>1. m \in Nat /\ m >= 1
      BY <1>1, <2>3
    <3>2. Cardinality(1..m) = m
      BY <3>1, FS_Interval
    <3> QED
      BY <2>5, <3>2
  <2>7. m \in Nat /\ m <= N
    BY <1>1, <2>3
  <2> HIDE DEF K
  <2> QED
    BY <1>2, <2>4, <2>6, <2>7
<1> QED
  BY <1>3, <1>4

-----------------------------------------------------------------------------
(* The words of a set of blocks *)

\* The words of a set of blocks are a sum.
LEMMA WordsAre ==
  ASSUME NEW f, NEW S
  PROVE  WordsOf(f, S) = SumFunctionOnSet([b \in S |-> Whsize(f, b)], S)
BY DEF WordsOf, SumFunction

\* Headers of the same sizes have the same words.
LEMMA WordsSame ==
  ASSUME NEW f, NEW g, NEW S, \A b \in S : Whsize(f, b) = Whsize(g, b)
  PROVE  WordsOf(f, S) = WordsOf(g, S)
<1>1. [b \in S |-> Whsize(f, b)] = [b \in S |-> Whsize(g, b)]
  OBVIOUS
<1> QED
  BY <1>1 DEF WordsOf

\* No blocks have no words.
LEMMA WordsEmpty ==
  ASSUME NEW f
  PROVE  WordsOf(f, {}) = 0
BY WordsAre, SumEmpty

\* A block more adds its words.
LEMMA WordsAdd ==
  ASSUME NEW f, NEW S, IsFiniteSet(S), NEW x, x \notin S, \A b \in S \cup {x} : Whsize(f, b) \in Int
  PROVE  WordsOf(f, S \cup {x}) = WordsOf(f, S) + Whsize(f, x) /\ WordsOf(f, S) \in Int
<1> DEFINE T == S \cup {x}
           g == [b \in T |-> Whsize(f, b)]
           h == [b \in S |-> Whsize(f, b)]
<1>1. IsFiniteSet(T) /\ IsFiniteSet(T \ {x}) /\ T \ {x} = S
  BY FS_AddElement
<1>2. x \in T /\ g[x] = Whsize(f, x) /\ \A b \in T : g[b] \in Int
  OBVIOUS
<1>3. \A b \in S : h[b] = g[b] /\ h[b] \in Int
  OBVIOUS
<1> HIDE DEF g, h
<1>4. SumFunctionOnSet(g, T) = g[x] + SumFunctionOnSet(g, T \ {x})
  BY <1>1, <1>2, SumRemove
<1>5. SumFunctionOnSet(h, S) = SumFunctionOnSet(g, S)
  BY <1>1, <1>3, SumSame
<1>6. SumFunctionOnSet(h, S) \in Int
  BY <1>1, <1>3, SumType
<1>7. WordsOf(f, T) = SumFunctionOnSet(g, T) /\ WordsOf(f, S) = SumFunctionOnSet(h, S)
  BY WordsAre DEF g, h
<1> HIDE DEF T
<1>8. WordsOf(f, T) = WordsOf(f, S) + Whsize(f, x)
  <2>1. WordsOf(f, T) = Whsize(f, x) + WordsOf(f, S)
    BY <1>1, <1>2, <1>4, <1>5, <1>7, Zenon
  <2>2. Whsize(f, x) \in Int /\ WordsOf(f, S) \in Int
    BY <1>2, <1>6, <1>7
  <2> QED
    BY <2>1, <2>2
<1> QED
  BY <1>6, <1>7, <1>8 DEF T

\* The blocks of a heap are finitely many.
LEMMA BlueFinite ==
  ASSUME NEW f, IsFl(f)
  PROVE  /\ IsFiniteSet(Blue(f)) /\ IsFiniteSet(DOMAIN f.hd)
         /\ \A b \in DOMAIN f.hd : Whsize(f, b) \in Int /\ Whsize(f, b) = f.hd[b].wosize + 1
<1>1. IsFiniteSet(Addr)
  BY Spots, FS_Interval DEF Addr
<1>2. Blue(f) \subseteq Addr /\ DOMAIN f.hd \subseteq Addr
  BY BlueIs DEF IsFl
<1>3. \A b \in DOMAIN f.hd : Whsize(f, b) \in Int /\ Whsize(f, b) = f.hd[b].wosize + 1
  BY Sizes DEF Whsize
<1> QED
  BY <1>1, <1>2, <1>3, FS_Subset

\* A block is taken from the free ones.
LEMMA WordsTaken ==
  ASSUME NEW f, IsFl(f), NEW g, NEW S \in SUBSET DOMAIN f.hd, NEW x \in S,
         \A b \in S \ {x} : Whsize(g, b) = Whsize(f, b)
  PROVE  WordsOf(g, S \ {x}) = WordsOf(f, S) - Whsize(f, x) /\ WordsOf(f, S) \in Int
<1>1. IsFiniteSet(S \ {x}) /\ \A b \in S : Whsize(f, b) \in Int
  BY BlueFinite, FS_Subset
<1>2. S = (S \ {x}) \cup {x} /\ x \notin S \ {x}
  OBVIOUS
<1>3. WordsOf(f, (S \ {x}) \cup {x}) = WordsOf(f, S \ {x}) + Whsize(f, x) /\ WordsOf(f, S \ {x}) \in Int
  BY <1>1, <1>2, WordsAdd
<1>4. WordsOf(g, S \ {x}) = WordsOf(f, S \ {x})
  BY WordsSame
<1>5. Whsize(f, x) \in Int
  BY <1>1
<1>6. WordsOf(f, S) = WordsOf(g, S \ {x}) + Whsize(f, x) /\ WordsOf(g, S \ {x}) \in Int
  BY <1>2, <1>3, <1>4, Zenon
<1> QED
  BY <1>5, <1>6

\* A free block changes.
LEMMA WordsChanged ==
  ASSUME NEW f, IsFl(f), NEW g, NEW S \in SUBSET DOMAIN f.hd, NEW x \in S, Whsize(g, x) \in Int,
         \A b \in S \ {x} : Whsize(g, b) = Whsize(f, b)
  PROVE  WordsOf(g, S) = WordsOf(f, S) - Whsize(f, x) + Whsize(g, x) /\ WordsOf(f, S) \in Int
<1>1. WordsOf(g, S \ {x}) = WordsOf(f, S) - Whsize(f, x) /\ WordsOf(f, S) \in Int
  BY WordsTaken
<1>2. IsFiniteSet(S \ {x}) /\ (\A b \in S : Whsize(g, b) \in Int) /\ Whsize(f, x) \in Int
  BY BlueFinite, FS_Subset
<1>3. S = (S \ {x}) \cup {x} /\ x \notin S \ {x}
  OBVIOUS
<1>4. WordsOf(g, (S \ {x}) \cup {x}) = WordsOf(g, S \ {x}) + Whsize(g, x)
  BY <1>2, <1>3, WordsAdd
<1> QED
  BY <1>1, <1>2, <1>3, <1>4

\* A block is added to the free ones.
LEMMA WordsAdded ==
  ASSUME NEW f, IsFl(f), NEW g, NEW S \in SUBSET DOMAIN f.hd, NEW x, x \notin S, Whsize(g, x) \in Int,
         \A b \in S : Whsize(g, b) = Whsize(f, b)
  PROVE  WordsOf(g, S \cup {x}) = WordsOf(f, S) + Whsize(g, x) /\ WordsOf(f, S) \in Int
<1>1. IsFiniteSet(S) /\ (\A b \in S : Whsize(g, b) \in Int)
  BY BlueFinite, FS_Subset
<1>2. WordsOf(g, S \cup {x}) = WordsOf(g, S) + Whsize(g, x) /\ WordsOf(g, S) \in Int
  BY <1>1, WordsAdd
<1>3. WordsOf(g, S) = WordsOf(f, S)
  BY WordsSame
<1> QED
  BY <1>2, <1>3

-----------------------------------------------------------------------------
(* A block is cut from a free block *)

Fragment == [wosize |-> 0, color |-> "white"]

\* The free block cur after prev gives n words.
Cut(f, g, n, prev, cur) ==
  LET m == Wosize(f, cur)
      whole == m < n + 2
  IN  /\ g.hd = IF whole THEN [f.hd EXCEPT ![cur] = Fragment]
                ELSE [f.hd EXCEPT ![cur] = [wosize |-> m - (n + 1), color |-> "blue"]]
      /\ g.next = IF whole THEN [f.next EXCEPT ![prev] = f.next[cur], ![cur] = Null] ELSE f.next
      /\ g.merge = IF whole /\ f.merge = cur THEN prev ELSE f.merge
      /\ g.policy = f.policy /\ g.fragment = f.fragment
      /\ g.prev = IF f.policy = "next fit" THEN prev ELSE f.prev
      /\ g.size = f.size - (IF whole THEN m + 1 ELSE n + 1)

\* What AllocateBlock leaves in the table s.
TableFlp(s, i, prev, cur) ==
  IF i < Len(s) /\ s[i + 1] = cur THEN [s EXCEPT ![i + 1] = prev]
  ELSE IF i = Len(s) THEN Front(s) ELSE s
TableBeyond(s, beyond, i, prev, cur) ==
  IF i < Len(s) /\ s[i + 1] = cur THEN beyond
  ELSE IF i = Len(s) THEN (IF prev = FlHead THEN Null ELSE prev) ELSE beyond

\* A sequence without its last element.
LEMMA FrontIs ==
  ASSUME NEW S, NEW s \in Seq(S), Len(s) # 0
  PROVE  /\ Front(s) \in Seq(S) /\ Len(Front(s)) = Len(s) - 1 /\ Front(s) = SubSeq(s, 1, Len(s) - 1)
         /\ Len(s) - 1 \in Nat /\ \A j \in 1..Len(s) - 1 : j \in 1..Len(s) /\ Front(s)[j] = s[j]
<1> DEFINE k == Len(s) - 1
<1>1. Len(s) \in Nat /\ k \in Nat
  OBVIOUS
<1>2. \A j \in 1..k : j \in 1..Len(s)
  BY <1>1
<1>3. \A j \in 1..k : s[j] \in S
  BY <1>2
<1>4. Front(s) = SubSeq(s, 1, k)
  BY DEF Front
<1>5. SubSeq(s, 1, k) \in Seq(S) /\ Len(SubSeq(s, 1, k)) = (IF 1 <= k THEN k - 1 + 1 ELSE 0)
      /\ \A j \in 1..(k - 1 + 1) : SubSeq(s, 1, k)[j] = s[1 + j - 1]
  BY <1>1, <1>3, SubSeqProperties
<1> HIDE DEF k
<1>6. Len(SubSeq(s, 1, k)) = k /\ k - 1 + 1 = k /\ \A j \in 1..k : 1 + j - 1 = j
  BY <1>1, <1>5
<1>7. \A j \in 1..k : SubSeq(s, 1, k)[j] = s[j]
  BY <1>5, <1>6
<1>8. /\ Front(s) \in Seq(S) /\ Len(Front(s)) = k /\ Front(s) = SubSeq(s, 1, k)
      /\ k \in Nat /\ \A j \in 1..k : j \in 1..Len(s) /\ Front(s)[j] = s[j]
  BY <1>1, <1>2, <1>4, <1>5, <1>6, <1>7
<1> QED
  BY <1>8 DEF k

\* The table that allocation leaves has nodes for its entries, and no more of them.
LEMMA TableTypes ==
  ASSUME NEW s \in Seq(Spot), NEW i \in 1..Len(s) + 1, NEW prev \in Spot, NEW cur
  PROVE  TableFlp(s, i, prev, cur) \in Seq(Spot) /\ Len(TableFlp(s, i, prev, cur)) <= Len(s)
<1>1. Len(s) \in Nat
  OBVIOUS
<1>2. CASE i < Len(s) /\ s[i + 1] = cur
  <2>1. i + 1 \in 1..Len(s)
    BY <1>1, <1>2
  <2> QED
    BY <1>1, <1>2, <2>1, ExceptSeq DEF TableFlp
<1>3. CASE ~ (i < Len(s) /\ s[i + 1] = cur) /\ i = Len(s)
  <2>1. Len(s) # 0
    BY <1>1, <1>3
  <2>2. TableFlp(s, i, prev, cur) = Front(s)
    BY <1>3 DEF TableFlp
  <2> QED
    BY <1>1, <2>1, <2>2, FrontIs
<1>4. CASE ~ (i < Len(s) /\ s[i + 1] = cur) /\ i # Len(s)
  BY <1>1, <1>4 DEF TableFlp
<1> QED
  BY <1>2, <1>3, <1>4

\* i is a place in the table, or the one after it.
TablePlace(f, i) == f.policy = "first fit" => i \in 1..Len(f.flp) + 1

\* What AllocateBlock returns.
BlockCut(f, n, i, prev, cur, r) ==
  /\ r = [f |-> r.f, hp |-> r.hp, last |-> r.last] /\ r.hp = cur + Wosize(f, cur) - n /\ r.last = Null
  /\ Cut(f, r.f, n, prev, cur)
  /\ r.f.flp = IF Wosize(f, cur) < n + 2 /\ f.policy = "first fit" THEN TableFlp(f.flp, i, prev, cur) ELSE f.flp
  /\ r.f.beyond = IF Wosize(f, cur) < n + 2 /\ f.policy = "first fit"
                  THEN TableBeyond(f.flp, f.beyond, i, prev, cur) ELSE f.beyond
  /\ IsFl(r.f)

\* What allocate_block does to the block it cuts from, to the list and to the table.
LEMMA AllocateBlockIs ==
  ASSUME NEW f, IsFl(f), NEW n \in 1..Words, NEW i \in Nat, NEW prev \in Spot, NEW cur \in Blue(f),
         TablePlace(f, i), Wosize(f, cur) >= n
  PROVE  BlockCut(f, n, i, prev, cur, AllocateBlock(f, n, i, prev, cur))
<1> SUFFICES ASSUME NEW r, r = AllocateBlock(f, n, i, prev, cur)
             PROVE  BlockCut(f, n, i, prev, cur, r)
  OBVIOUS
<1> DEFINE m == Wosize(f, cur)
           g == r.f
           whole == m < n + 2
           H == IF whole THEN [f.hd EXCEPT ![cur] = Fragment]
                ELSE [f.hd EXCEPT ![cur] = [wosize |-> m - (n + 1), color |-> "blue"]]
           X == IF whole THEN [f.next EXCEPT ![prev] = f.next[cur], ![cur] = Null] ELSE f.next
           M == IF whole /\ f.merge = cur THEN prev ELSE f.merge
           Z == f.size - (IF whole THEN m + 1 ELSE n + 1)
           T == IF whole /\ f.policy = "first fit" THEN TableFlp(f.flp, i, prev, cur) ELSE f.flp
           Y == IF whole /\ f.policy = "first fit" THEN TableBeyond(f.flp, f.beyond, i, prev, cur) ELSE f.beyond
           V == IF f.policy = "next fit" THEN prev ELSE f.prev
<1>1. f = [hd |-> f.hd, next |-> f.next, policy |-> f.policy, prev |-> f.prev, merge |-> f.merge,
           fragment |-> f.fragment, size |-> f.size, flp |-> f.flp, beyond |-> f.beyond]
  BY DEF IsFl
<1>2. /\ f.hd \in [DOMAIN f.hd -> Block] /\ f.next \in [Spot -> Addr \cup {Null}]
      /\ f.policy \in {"next fit", "first fit"} /\ f.prev \in Spot /\ f.merge \in Spot
      /\ f.fragment \in Addr \cup {Null} /\ f.size \in Int /\ f.flp \in Seq(Spot) /\ f.beyond \in Addr \cup {Null}
      /\ DOMAIN f.hd \in SUBSET Addr /\ Len(f.flp) <= FLP_MAX
  BY DEF IsFl
<1>3. cur \in DOMAIN f.hd /\ cur \in Addr /\ f.hd[cur] = [wosize |-> m, color |-> "blue"] /\ m \in Nat /\ m <= Words
  <2>1. cur \in DOMAIN f.hd /\ cur \in Addr /\ f.hd[cur] \in Block /\ f.hd[cur].color = "blue"
    BY <1>2 DEF Blue
  <2>2. m = f.hd[cur].wosize /\ m \in Nat /\ m <= Words
    BY Sizes
  <2>3. f.hd[cur] = [wosize |-> f.hd[cur].wosize, color |-> f.hd[cur].color]
    BY <2>1 DEF Block
  <2> QED
    BY <2>1, <2>2, <2>3
<1>4. [f.hd EXCEPT ![cur].wosize = m - (n + 1)] = [f.hd EXCEPT ![cur] = [wosize |-> m - (n + 1), color |-> "blue"]]
  <2>1. [f.hd[cur] EXCEPT !.wosize = m - (n + 1)] = [wosize |-> m - (n + 1), color |-> "blue"]
    <3> HIDE DEF m
    <3> QED
      BY <1>3
  <2> QED
    BY <2>1, Zenon
<1>5. g = [hd |-> H, next |-> X, policy |-> f.policy, prev |-> V, merge |-> M,
           fragment |-> f.fragment, size |-> Z, flp |-> T, beyond |-> Y]
      /\ r = [f |-> g, hp |-> cur + m - n, last |-> Null]
  BY <1>1, <1>4 DEF AllocateBlock, TableFlp, TableBeyond, Fragment
<1>6. m >= n /\ m \in Nat /\ m <= Words /\ Words \in Nat /\ n \in Nat /\ n >= 1
  <2>1. Words \in Nat
    BY Spots
  <2>2. n \in Nat /\ n >= 1
    BY <2>1
  <2>3. m \in Nat /\ m <= Words
    BY <1>3
  <2> QED
    BY <2>1, <2>2, <2>3
<1> HIDE DEF m, g
<1>7. H \in [DOMAIN f.hd -> Block] /\ DOMAIN H = DOMAIN f.hd
  <2>0. 0 \in 0..Words /\ (~ whole => m - (n + 1) \in 0..Words)
    BY <1>6
  <2>1. Fragment \in Block
    BY <2>0 DEF Fragment, Block
  <2>2. ~ whole => [wosize |-> m - (n + 1), color |-> "blue"] \in Block
    BY <2>0 DEF Block
  <2> QED
    BY <1>2, <2>1, <2>2
<1>8. X \in [Spot -> Addr \cup {Null}]
  <2>1. cur \in Spot
    BY <1>3 DEF Spot
  <2>2. f.next[cur] \in Addr \cup {Null} /\ Null \in Addr \cup {Null}
    BY <1>2, <2>1
  <2> QED
    BY <1>2, <2>2
<1>9. M \in Spot /\ V \in Spot
  BY <1>2
<1>10. Z \in Int
  <2>1. f.size \in Int
    BY <1>2
  <2> QED
    BY <1>6, <2>1
<1>11. T \in Seq(Spot) /\ Len(T) <= FLP_MAX
  <2>1. CASE whole /\ f.policy = "first fit"
    <3>1. TableFlp(f.flp, i, prev, cur) \in Seq(Spot) /\ Len(TableFlp(f.flp, i, prev, cur)) <= Len(f.flp)
      BY <1>2, <2>1, TableTypes DEF TablePlace
    <3>2. Len(f.flp) \in Nat /\ Len(TableFlp(f.flp, i, prev, cur)) \in Nat
      BY <1>2, <3>1, LenProperties
    <3>3. FLP_MAX \in Nat
      BY HeapAssumption
    <3>4. Len(f.flp) <= FLP_MAX
      BY <1>2
    <3>5. Len(TableFlp(f.flp, i, prev, cur)) <= FLP_MAX
      BY <3>1, <3>2, <3>3, <3>4
    <3> QED
      BY <2>1, <3>1, <3>5
  <2>2. CASE ~ (whole /\ f.policy = "first fit")
    BY <1>2, <2>2
  <2> QED
    BY <2>1, <2>2
<1>12. Y \in Addr \cup {Null}
  BY <1>2 DEF TableBeyond, Spot
<1>13. Cut(f, g, n, prev, cur)
  BY <1>5 DEF Cut, m
<1>14. g.flp = T /\ g.beyond = Y
  BY <1>5
<1> HIDE DEF H, X, V, M, Z, T, Y, whole
<1>15. g.hd = H
  BY <1>5
<1>16. IsFl(g)
  BY <1>2, <1>5, <1>7, <1>8, <1>9, <1>10, <1>11, <1>12, <1>15 DEF IsFl
<1>17. r.hp = cur + m - n /\ r.last = Null /\ r = [f |-> r.f, hp |-> r.hp, last |-> r.last]
  <2>1. r = [f |-> g, hp |-> cur + m - n, last |-> Null]
    BY <1>5
  <2>2. r.hp = cur + m - n /\ r.last = Null
    BY <2>1
  <2> QED
    BY <2>1, <2>2 DEF g
<1> QED
  BY <1>13, <1>14, <1>16, <1>17 DEF g, m, T, Y, whole, BlockCut

\* The free list after a cut.
ListKept(f, g, n, cur) ==
  /\ Blue(g) = IF Wosize(f, cur) < n + 2 THEN Blue(f) \ {cur} ELSE Blue(f)
  /\ DOMAIN g.hd = DOMAIN f.hd /\ \A b \in DOMAIN f.hd \ {cur} : g.hd[b] = f.hd[b]
  /\ g.hd[cur] = IF Wosize(f, cur) < n + 2 THEN Fragment
                 ELSE [wosize |-> Wosize(f, cur) - (n + 1), color |-> "blue"]
  /\ Wosize(f, cur) = f.hd[cur].wosize /\ Wosize(f, cur) \in Nat
  /\ Threaded(g) /\ (Sound(f.hd) => Sound(g.hd))
  /\ \A p \in Nat : LastBefore(Blue(f), f.merge, p) => LastBefore(Blue(g), g.merge, p)

\* Cutting a block from a free one keeps the list in order, and its size.
LEMMA CutKeepsList ==
  ASSUME NEW f, IsFl(f), Threaded(f), NEW g, IsFl(g), NEW n \in 1..Words,
         NEW prev \in Blue(f) \cup {FlHead}, NEW cur, cur = f.next[prev], cur # Null, Wosize(f, cur) >= n,
         Cut(f, g, n, prev, cur)
  PROVE  cur \in Blue(f) /\ cur \in After(Blue(f), prev) /\ ListKept(f, g, n, cur)
<1> DEFINE m == Wosize(f, cur)
           B == Blue(f)
           C == Blue(g)
           D == DOMAIN f.hd
           whole == m < n + 2
<1>1. B \in SUBSET Addr /\ B \subseteq D /\ Linked(f.next, B) /\ f.size = WordsOf(f, B)
      /\ f.merge \in B \cup {FlHead} /\ f.next \in [Spot -> Addr \cup {Null}]
  BY BlueIs DEF Threaded, IsFl
<1>2. cur \in After(B, prev) /\ cur \in B /\ cur # prev /\ cur \in D
  BY <1>1, NextIs
<1>3. m = f.hd[cur].wosize /\ m \in Nat /\ m <= Words
  BY <1>2, Sizes
<1>4. n \in Nat /\ n >= 1 /\ Words \in Nat /\ m >= n
  <2>1. Words \in Nat
    BY Spots
  <2> QED
    BY <2>1
<1>5. /\ g.hd = IF whole THEN [f.hd EXCEPT ![cur] = Fragment]
                ELSE [f.hd EXCEPT ![cur] = [wosize |-> m - (n + 1), color |-> "blue"]]
      /\ g.next = IF whole THEN [f.next EXCEPT ![prev] = f.next[cur], ![cur] = Null] ELSE f.next
      /\ g.merge = (IF whole /\ f.merge = cur THEN prev ELSE f.merge)
      /\ g.policy = f.policy
      /\ g.prev = (IF f.policy = "next fit" THEN prev ELSE f.prev)
      /\ g.size = f.size - (IF whole THEN m + 1 ELSE n + 1)
  BY DEF Cut
<1> HIDE DEF m
<1>6. DOMAIN g.hd = D /\ \A b \in D \ {cur} : g.hd[b] = f.hd[b]
  BY <1>5
<1>7. g.hd[cur] = IF whole THEN Fragment ELSE [wosize |-> m - (n + 1), color |-> "blue"]
  <2>1. cur \in DOMAIN f.hd
    BY <1>2
  <2> QED
    BY <1>5, <2>1
<1>8. f.hd[cur].color = "blue"
  BY <1>2 DEF Blue
<1>9. C = IF whole THEN B \ {cur} ELSE B
  <2>1. CASE whole
    <3>1. g.hd[cur].color # "blue"
      BY <1>7, <2>1 DEF Fragment
    <3>2. \A b \in D : g.hd[b].color = "blue" <=> (b # cur /\ f.hd[b].color = "blue")
      BY <1>6, <3>1
    <3> QED
      BY <1>6, <2>1, <3>2 DEF Blue
  <2>2. CASE ~ whole
    <3>1. g.hd[cur].color = "blue"
      BY <1>7, <2>2
    <3>2. \A b \in D : g.hd[b].color = "blue" <=> f.hd[b].color = "blue"
      BY <1>6, <1>8, <3>1
    <3> QED
      BY <1>6, <2>2, <3>2 DEF Blue
  <2> QED
    BY <2>1, <2>2
<1>10. Linked(g.next, C)
  <2>1. ASSUME whole PROVE Linked(g.next, B \ {cur})
    <3>1. g.next = [f.next EXCEPT ![prev] = f.next[cur], ![cur] = Null]
      BY <1>5, <2>1
    <3> DEFINE X == f.next
               N == g.next
    <3>2. /\ B \in SUBSET Addr /\ X \in [Spot -> Addr \cup {Null}] /\ Linked(X, B)
          /\ prev \in B \cup {FlHead} /\ cur = X[prev] /\ cur # Null
          /\ N = [X EXCEPT ![prev] = X[cur], ![cur] = Null]
      BY <1>1, <3>1
    <3> HIDE DEF B, X, N
    <3>3. Linked(N, B \ {cur})
      BY <3>2, LinkRemove
    <3> QED
      BY <3>3 DEF N
  <2> QED
    BY <1>1, <1>5, <1>9, <2>1
<1>11. /\ \A b \in B \ {cur} : Whsize(g, b) = Whsize(f, b)
       /\ Whsize(f, cur) = m + 1 /\ (~ whole => Whsize(g, cur) = m - n /\ Whsize(g, cur) \in Int)
  <2>1. \A b \in B : b # FlHead /\ b \in D
    BY <1>1, Spots
  <2>2. \A b \in B \ {cur} : Wosize(g, b) = Wosize(f, b)
    BY <1>6, <2>1 DEF Wosize
  <2>3. Whsize(f, cur) = m + 1
    BY DEF Whsize, m
  <2>4. ~ whole => Wosize(g, cur) = m - (n + 1)
    BY <1>2, <1>7, <2>1 DEF Wosize
  <2> QED
    BY <1>3, <1>4, <2>2, <2>3, <2>4 DEF Whsize
<1>12. g.size = WordsOf(g, C)
  <2>1. B \in SUBSET D
    BY <1>1
  <2>2. CASE whole
    <3>1. WordsOf(g, B \ {cur}) = WordsOf(f, B) - Whsize(f, cur)
      BY <1>2, <1>11, <2>1, WordsTaken
    <3> QED
      BY <1>1, <1>5, <1>9, <1>11, <2>2, <3>1
  <2>3. CASE ~ whole
    <3>1. WordsOf(g, B) = WordsOf(f, B) - Whsize(f, cur) + Whsize(g, cur) /\ WordsOf(f, B) \in Int
      BY <1>2, <1>11, <2>1, <2>3, WordsChanged
    <3>2. C = B /\ g.size = WordsOf(f, B) - (n + 1)
      BY <1>1, <1>5, <1>9, <2>3
    <3> QED
      BY <1>3, <1>4, <1>11, <2>3, <3>1, <3>2
  <2> QED
    BY <2>2, <2>3
<1>13. /\ g.merge \in C \cup {FlHead}
       /\ g.policy = "next fit" => g.prev \in C \cup {FlHead}
  <2>1. prev \in C \cup {FlHead}
    BY <1>2, <1>9
  <2>2. g.merge \in C \cup {FlHead}
    BY <1>1, <1>5, <1>9, <2>1
  <2>3. g.policy = "next fit" => g.prev = prev
    BY <1>5
  <2> QED
    BY <2>1, <2>2, <2>3
<1>14. Threaded(g)
  BY <1>10, <1>12, <1>13 DEF Threaded
<1>15. Sound(f.hd) => Sound(g.hd)
  <2> SUFFICES ASSUME Sound(f.hd), NEW b \in D
               PROVE  /\ g.hd[b].color = "blue" => g.hd[b].wosize > 0
                      /\ g.hd[b].wosize = 0 => g.hd[b].color = "white"
    BY <1>6 DEF Sound
  <2>1. CASE b # cur
    BY <1>6, <2>1 DEF Sound
  <2>2. CASE b = cur /\ whole
    BY <1>7, <2>2 DEF Fragment
  <2>3. CASE b = cur /\ ~ whole
    <3>1. m - (n + 1) > 0
      BY <1>3, <1>4, <2>3
    <3> QED
      BY <1>3, <1>4, <1>7, <2>3, <3>1
  <2> QED
    BY <2>1, <2>2, <2>3
<1>16. ASSUME NEW p \in Nat, LastBefore(B, f.merge, p) PROVE LastBefore(C, g.merge, p)
  <2>1. LastBefore(B \ {cur}, IF f.merge = cur THEN prev ELSE f.merge, p)
    BY <1>1, <1>16, LastBeforeRemove
  <2> QED
    BY <1>5, <1>9, <1>16, <2>1
<1> QED
  BY <1>2, <1>3, <1>6, <1>7, <1>9, <1>14, <1>15, <1>16 DEF m, ListKept

-----------------------------------------------------------------------------
(* The table when the block of an entry goes *)

\* The address of a node, with the head of the list before the heap.
At(a) == IF a = FlHead THEN 0 ELSE a

\* Nodes compare as numbers, with Fl_head before all of them.
LEMMA Keys ==
  /\ \A a \in Spot : At(a) \in Nat
  /\ \A a \in Addr : At(a) = a /\ a \in Nat /\ a >= 1 /\ a # FlHead /\ a \in Spot /\ a # Null
  /\ At(FlHead) = 0 /\ FlHead \in Spot /\ FlHead # Null
<1>1. /\ \A a \in Addr : At(a) = a /\ a \in Nat /\ a >= 1 /\ a # FlHead /\ a \in Spot /\ a # Null
      /\ At(FlHead) = 0 /\ FlHead \in Spot /\ FlHead # Null
  BY Spots DEF At, Spot
<1> QED
  BY <1>1 DEF Spot

\* The blocks after a node are those with a larger key.
LEMMA AfterIs ==
  ASSUME NEW B \in SUBSET Addr
  PROVE  \A a \in Spot : \A b : b \in After(B, a) <=> b \in B /\ At(a) < b
<1> SUFFICES ASSUME NEW a \in Spot, NEW b PROVE b \in After(B, a) <=> b \in B /\ At(a) < b
  OBVIOUS
<1>1. CASE a = FlHead
  <2>1. b \in B => b \in Nat /\ b >= 1
    BY Keys
  <2> QED
    BY <1>1, <2>1 DEF After, At
<1>2. CASE a # FlHead
  BY <1>2 DEF After, At
<1> QED
  BY <1>1, <1>2

\* Entries and Beyond in terms of addresses.
LEMMA EntriesAre ==
  ASSUME NEW B \in SUBSET Addr, NEW s \in Seq(Spot)
  PROVE  /\ Entries(B, s) <=>
              /\ \A k \in 1..Len(s) : s[k] \in B \cup {FlHead} /\ \E b \in B : At(s[k]) < b
              /\ \A k, l \in 1..Len(s) : k < l => s[l] \in B /\ At(s[k]) < s[l]
         /\ \A b : Beyond(B, s, b) <=> (b # Null => b \in B /\ \A k \in 1..Len(s) : At(s[k]) < b)
<1>1. \A k \in 1..Len(s) : s[k] \in Spot
  OBVIOUS
<1>2. \A k \in 1..Len(s) : \A b : b \in After(B, s[k]) <=> b \in B /\ At(s[k]) < b
  BY <1>1, AfterIs
<1>3. \A k \in 1..Len(s) : After(B, s[k]) # {} <=> \E b \in B : At(s[k]) < b
  BY <1>2
<1>4. Entries(B, s) <=> /\ \A k \in 1..Len(s) : s[k] \in B \cup {FlHead} /\ \E b \in B : At(s[k]) < b
                        /\ \A k, l \in 1..Len(s) : k < l => s[l] \in B /\ At(s[k]) < s[l]
  BY <1>2, <1>3 DEF Entries
<1>5. \A b : Beyond(B, s, b) <=> (b # Null => b \in B /\ \A k \in 1..Len(s) : At(s[k]) < b)
  BY <1>2 DEF Beyond
<1> QED
  BY <1>4, <1>5

\* The table without its last entry, once that entry's block is cut from.
LEMMA LastEntryGoes ==
  ASSUME NEW B \in SUBSET Addr, NEW s \in Seq(Spot), Entries(B, s), Len(s) # 0,
         NEW prev, prev = s[Len(s)], NEW cur \in B, At(prev) < cur, NEW C, C = B \/ C = B \ {cur}
  PROVE  /\ Entries(C, Front(s)) /\ prev \in C \cup {FlHead}
         /\ Beyond(C, Front(s), IF prev = FlHead THEN Null ELSE prev)
         /\ Beyond(B, Front(s), cur)
<1> DEFINE n == Len(s)
           t == Front(s)
<1>1. n \in Nat /\ n \in 1..n /\ n - 1 \in Nat
  OBVIOUS
<1>2. t \in Seq(Spot) /\ Len(t) = n - 1 /\ \A k \in 1..n - 1 : k \in 1..n /\ k < n /\ t[k] = s[k]
  BY <1>1, FrontIs
<1>3. /\ \A k \in 1..n : s[k] \in B \cup {FlHead}
      /\ \A k, l \in 1..n : k < l => s[l] \in B /\ At(s[k]) < s[l]
  BY EntriesAre
<1> HIDE DEF n, t
<1>4. prev \in B \cup {FlHead} /\ prev \in Spot /\ cur \in Nat
  BY <1>1, <1>3, Keys DEF n
<1>5. \A k \in 1..n - 1 : /\ prev \in B /\ At(t[k]) < prev /\ t[k] \in B \cup {FlHead} /\ At(t[k]) \in Nat
                          /\ prev \in Nat /\ At(prev) = prev
  <2> SUFFICES ASSUME NEW k \in 1..n - 1
               PROVE  /\ prev \in B /\ At(t[k]) < prev /\ t[k] \in B \cup {FlHead} /\ At(t[k]) \in Nat
                      /\ prev \in Nat /\ At(prev) = prev
    OBVIOUS
  <2>1. k \in 1..n /\ k < n /\ t[k] = s[k]
    BY <1>2
  <2>2. prev \in B /\ At(t[k]) < prev /\ t[k] \in B \cup {FlHead}
    BY <1>1, <1>3, <2>1 DEF n
  <2> QED
    BY <2>2, Keys
<1>6. prev # cur
  BY <1>4, Keys DEF At
<1>7. prev \in C \cup {FlHead} /\ C \in SUBSET Addr
  BY <1>4, <1>6
<1>8. ASSUME NEW k \in 1..n - 1 PROVE t[k] \in C \cup {FlHead}
  <2>1. t[k] = FlHead \/ t[k] < prev
    BY <1>5 DEF At
  <2>2. t[k] # cur
    <3>1. t[k] = FlHead => t[k] # cur
      BY Keys
    <3>2. t[k] # FlHead => At(t[k]) = t[k]
      BY DEF At
    <3> QED
      BY <1>4, <1>5, <3>1, <3>2
  <2> QED
    BY <1>5, <2>2
<1>9. Entries(C, t)
  <2>1. \A k \in 1..n - 1 : t[k] \in C \cup {FlHead} /\ \E b \in C : At(t[k]) < b
    <3> SUFFICES ASSUME NEW k \in 1..n - 1 PROVE t[k] \in C \cup {FlHead} /\ \E b \in C : At(t[k]) < b
      OBVIOUS
    <3>1. prev \in C
      BY <1>5, <1>6
    <3> QED
      BY <1>5, <1>8, <3>1
  <2>2. ASSUME NEW k \in 1..n - 1, NEW l \in 1..n - 1, k < l PROVE t[l] \in C /\ At(t[k]) < t[l]
    <3>1. t[l] \in B /\ At(t[k]) < t[l]
      BY <1>2, <1>3, <2>2
    <3> QED
      BY <1>8, <3>1, Keys
  <2> QED
    BY <1>2, <1>7, <2>1, <2>2, EntriesAre
<1>10. Beyond(C, t, IF prev = FlHead THEN Null ELSE prev)
  <2>1. prev # FlHead => prev \in C /\ \A k \in 1..n - 1 : At(t[k]) < prev
    BY <1>5, <1>7
  <2> QED
    BY <1>2, <1>7, <2>1, EntriesAre
<1>11. Beyond(B, t, cur)
  <2>1. \A k \in 1..n - 1 : At(t[k]) < cur
    BY <1>4, <1>5
  <2> QED
    BY <1>2, <2>1, EntriesAre
<1> QED
  BY <1>7, <1>9, <1>10, <1>11 DEF t

\* cur is the first of the blocks B after the node a.
NextBlock(B, a, cur) == cur \in B /\ At(a) < cur /\ \A b \in B : At(a) < b => cur <= b

\* t is s, but for the entry after the i-th when that was the block taken.
Redirected(s, t, i, prev, cur, B, C) ==
  /\ Len(t) = Len(s)
  /\ \A k \in 1..Len(s) : t[k] = IF k = i + 1 /\ C # B /\ s[i + 1] = cur THEN prev ELSE s[k]

\* t is a table but for its i-th entry, prev, which need not lead anywhere.
Gap(C, t, i, prev) ==
  /\ \A k \in 1..Len(t) : k # i => t[k] \in C \cup {FlHead} /\ \E b \in C : At(t[k]) < b
  /\ \A k, l \in 1..Len(t) : k < l /\ k # i /\ l # i => t[l] \in C /\ At(t[k]) < t[l]
  /\ \A k \in 1..Len(t) : k < i => prev \in C /\ At(t[k]) < prev
  /\ prev \in C \cup {FlHead} /\ t[i] = prev /\ t[i + 1] \in C \cup {FlHead}

AllBefore(t, b) == \A k \in 1..Len(t) : At(t[k]) < b
KeepsBeyond(B, s, C, t) == \A b : b # Null /\ Beyond(B, s, b) => b \in C /\ AllBefore(t, b)
Within(s, a, b) == \A k \in 1..Len(s) : At(a) <= At(s[k]) /\ At(s[k]) < At(b)

\* The table s without its i-th entry, when the block cur it led to was taken
\* or reduced; t may lead to what comes after cur from the entry before.
LEMMA MiddleEntryGoes ==
  ASSUME NEW B \in SUBSET Addr, NEW s \in Seq(Spot), Entries(B, s), NEW i \in 1..Len(s) - 1,
         NEW prev, prev = s[i], NEW cur, NextBlock(B, prev, cur),
         NEW C, C = B \/ C = B \ {cur}, NEW t \in Seq(Spot), Redirected(s, t, i, prev, cur, B, C)
  PROVE  Gap(C, t, i, prev) /\ KeepsBeyond(B, s, C, t)
<1> DEFINE n == Len(s)
<1>0. /\ cur \in B /\ At(prev) < cur /\ \A b \in B : At(prev) < b => cur <= b
      /\ Len(t) = n
  BY DEF NextBlock, Redirected
<1>1. n \in Nat /\ i \in Nat /\ i \in 1..n /\ i + 1 \in 1..n /\ i < i + 1
  OBVIOUS
<1>2. /\ \A k \in 1..n : s[k] \in B \cup {FlHead} /\ \E b \in B : At(s[k]) < b
      /\ \A k, l \in 1..n : k < l => s[l] \in B /\ At(s[k]) < s[l]
  BY EntriesAre
<1>3. \A b : Beyond(B, s, b) <=> (b # Null => b \in B /\ \A k \in 1..n : At(s[k]) < b)
  BY EntriesAre
<1>4. \A k \in 1..n : t[k] = IF k = i + 1 /\ C # B /\ s[i + 1] = cur THEN prev ELSE s[k]
  BY <1>0 DEF Redirected
<1> HIDE DEF n
<1>5. C \in SUBSET Addr /\ B \in SUBSET Addr /\ (\A b \in B : At(b) = b /\ b \in Nat /\ b # FlHead)
      /\ cur \in B /\ At(prev) < cur /\ (\A b \in B : At(prev) < b => cur <= b) /\ (C = B \/ C = B \ {cur})
  BY <1>0, Keys
<1>6. \A k \in 1..n : s[k] \in Spot /\ At(s[k]) \in Nat
  BY <1>2, Keys DEF Spot
<1>7. prev = s[i] /\ prev \in B \cup {FlHead} /\ At(prev) \in Nat /\ cur \in Nat /\ At(prev) < cur /\ prev # cur /\ prev \in C \cup {FlHead}
  <2>1. prev = s[i] /\ prev \in B \cup {FlHead} /\ At(prev) \in Nat
    BY <1>1, <1>2, <1>6
  <2>2. prev # cur
    <3>1. At(cur) = cur /\ cur \in Nat /\ At(prev) < cur
      BY <1>5
    <3> QED
      BY <3>1
  <2>3. cur \in Nat /\ At(prev) < cur /\ prev \in C \cup {FlHead}
    BY <1>5, <2>1, <2>2
  <2> QED
    BY <2>1, <2>2, <2>3
<1>8. s[i + 1] \in B /\ At(prev) < s[i + 1] /\ cur <= s[i + 1] /\ s[i + 1] \in Nat
  <2>1. s[i + 1] \in B /\ At(prev) < s[i + 1]
    BY <1>1, <1>2, <1>7
  <2> QED
    BY <1>5, <2>1
\* Only the entry after the i-th can be cur.
<1>9. \A k \in 1..n : s[k] = cur => k = i + 1
  <2> SUFFICES ASSUME NEW k \in 1..n, s[k] = cur, k # i + 1 PROVE FALSE
    OBVIOUS
  <2>1. k < i \/ k = i \/ i + 1 < k
    BY <1>1
  <2>2. CASE k < i
    <3>1. At(s[k]) < s[i] /\ s[i] \in B
      BY <1>1, <1>2, <2>2
    <3>2. At(s[k]) = cur /\ At(prev) = prev /\ prev \in Nat /\ s[i] = prev
      BY <1>5, <1>7, <3>1
    <3> QED
      BY <1>7, <3>1, <3>2
  <2>3. CASE k = i
    BY <1>7, <2>3
  <2>4. CASE i + 1 < k
    <3>1. At(s[i + 1]) < s[k]
      BY <1>1, <1>2, <2>4
    <3> QED
      BY <1>5, <1>7, <1>8, <3>1
  <2> QED
    BY <2>1, <2>2, <2>3, <2>4
<1>10. \A k \in 1..n : /\ t[k] = s[k] \/ (k = i + 1 /\ t[k] = prev /\ s[k] = cur)
                       /\ t[k] \in C \cup {FlHead} /\ At(t[k]) <= At(s[k]) /\ At(t[k]) \in Nat
  <2> SUFFICES ASSUME NEW k \in 1..n
               PROVE  /\ t[k] = s[k] \/ (k = i + 1 /\ t[k] = prev /\ s[k] = cur)
                      /\ t[k] \in C \cup {FlHead} /\ At(t[k]) <= At(s[k]) /\ At(t[k]) \in Nat
    OBVIOUS
  <2>1. CASE k = i + 1 /\ C # B /\ s[i + 1] = cur
    <3>1. t[k] = prev /\ At(s[k]) = cur
      BY <1>4, <1>5, <2>1
    <3> QED
      BY <1>7, <2>1, <3>1
  <2>2. CASE ~ (k = i + 1 /\ C # B /\ s[i + 1] = cur)
    <3>1. t[k] = s[k]
      BY <1>4, <2>2
    <3>2. C = B \/ s[k] # cur
      BY <1>9, <2>2
    <3>3. s[k] \in C \cup {FlHead}
      BY <1>2, <3>2
    <3> QED
      BY <1>6, <3>1, <3>3
  <2> QED
    BY <2>1, <2>2
<1>11. t[i] = prev /\ i # i + 1
  BY <1>1, <1>7, <1>10
<1>12. ASSUME NEW b, b # Null, Beyond(B, s, b) PROVE b \in C /\ \A k \in 1..n : At(t[k]) < b
  <2>1. b \in B /\ b \in Nat /\ \A k \in 1..n : At(s[k]) < b
    BY <1>3, <1>5, <1>12
  <2>2. b # cur
    <3>1. At(s[i + 1]) < b /\ At(s[i + 1]) = s[i + 1]
      BY <1>1, <1>5, <1>8, <2>1
    <3> QED
      BY <1>7, <1>8, <2>1, <3>1
  <2>3. \A k \in 1..n : At(t[k]) < b
    BY <1>6, <1>10, <2>1
  <2> QED
    BY <2>1, <2>2, <2>3
<1>13. ASSUME NEW k \in 1..n, NEW l \in 1..n, k < l, k # i, l # i PROVE t[l] \in C /\ At(t[k]) < t[l]
  <2>1. s[l] \in B /\ At(s[k]) < s[l] /\ At(t[k]) < s[l]
    <3>1. s[l] \in B /\ At(s[k]) < s[l]
      BY <1>2, <1>13
    <3> QED
      BY <1>5, <1>6, <1>10, <3>1
  <2>2. CASE t[l] = s[l]
    BY <1>5, <1>10, <2>1, <2>2
  <2>3. CASE t[l] # s[l]
    <3>1. l = i + 1 /\ t[l] = prev /\ k < i
      BY <1>1, <1>10, <1>13, <2>3
    <3>2. prev \in B /\ At(s[k]) < prev
      BY <1>1, <1>2, <1>7, <3>1
    <3>3. At(t[k]) < prev
      BY <1>5, <1>6, <1>10, <3>2
    <3> QED
      BY <1>5, <1>7, <3>1, <3>2, <3>3
  <2> QED
    BY <2>2, <2>3
<1>14. ASSUME NEW k \in 1..n, k # i PROVE \E b \in C : At(t[k]) < b
  <2>1. CASE t[k] # s[k]
    <3>1. k = i + 1 /\ t[k] = prev /\ s[k] = cur
      BY <1>10, <2>1
    <3>2. PICK b \in B : At(s[k]) < b
      BY <1>2
    <3>3. b # cur /\ At(prev) < b
      BY <1>5, <1>7, <3>1, <3>2
    <3> QED
      BY <3>1, <3>2, <3>3
  <2>2. CASE t[k] = s[k] /\ k < i
    <3>1. At(s[k]) < s[i] /\ s[i] \in B
      BY <1>1, <1>2, <2>2
    <3>2. prev \in C
      BY <1>7, <3>1, <1>5
    <3> QED
      BY <1>7, <2>2, <3>1, <3>2
  <2>3. CASE t[k] = s[k] /\ i < k
    <3>1. PICK b \in B : At(s[k]) < b
      BY <1>2
    <3>2. k = i + 1 \/ i + 1 < k
      BY <1>1, <2>3
    <3>3. cur <= At(s[k])
      <4>1. CASE k = i + 1
        BY <1>5, <1>8, <4>1
      <4>2. CASE i + 1 < k
        <5>1. s[k] \in B /\ At(s[i + 1]) < s[k]
          BY <1>1, <1>2, <4>2
        <5>2. At(s[i + 1]) = s[i + 1] /\ At(s[k]) = s[k] /\ s[k] \in Nat
          BY <1>5, <1>8, <5>1
        <5> QED
          BY <1>7, <1>8, <5>1, <5>2
      <4> QED
        BY <3>2, <4>1, <4>2
    <3>4. b # cur
      BY <1>5, <1>6, <1>7, <3>1, <3>3
    <3> QED
      BY <2>3, <3>1, <3>4
  <2>4. k < i \/ i < k
    BY <1>1, <1>14
  <2> QED
    BY <2>1, <2>2, <2>3, <2>4
<1>15. ASSUME NEW k \in 1..n, k < i PROVE prev \in C /\ At(t[k]) < prev
  <2>1. At(s[k]) < s[i] /\ s[i] \in B /\ t[k] = s[k]
    BY <1>1, <1>2, <1>10, <1>15
  <2> QED
    BY <1>5, <1>7, <2>1
<1>16. /\ \A k \in 1..n : k # i => t[k] \in C \cup {FlHead} /\ \E b \in C : At(t[k]) < b
       /\ \A k, l \in 1..n : k < l /\ k # i /\ l # i => t[l] \in C /\ At(t[k]) < t[l]
       /\ \A k \in 1..n : k < i => prev \in C /\ At(t[k]) < prev
       /\ prev \in C \cup {FlHead} /\ t[i] = prev /\ t[i + 1] \in C \cup {FlHead}
       /\ \A b : b # Null /\ Beyond(B, s, b) => b \in C /\ \A k \in 1..n : At(t[k]) < b
  BY <1>1, <1>7, <1>10, <1>11, <1>12, <1>13, <1>14, <1>15
<1> QED
  BY <1>0, <1>16 DEF n, Gap, AllBefore, KeepsBeyond

\* The table t with the entries buf in the place of the i-th.
Splice(t, i, buf) == SubSeq(t, 1, i - 1) \o buf \o SubSeq(t, i + 1, Len(t))

\* Entries between prev and t[i + 1] take the place of the i-th entry of t.
LEMMA MiddleEntriesCome ==
  ASSUME NEW C \in SUBSET Addr, NEW t \in Seq(Spot), NEW i \in 1..Len(t) - 1, NEW prev,
         Gap(C, t, i, prev), NEW buf \in Seq(Spot), Entries(C, buf), Within(buf, prev, t[i + 1])
  PROVE  /\ Splice(t, i, buf) \in Seq(Spot) /\ Entries(C, Splice(t, i, buf))
         /\ \A b \in C : AllBefore(t, b) => Beyond(C, Splice(t, i, buf), b)
<1> DEFINE n == Len(t)
           p == SubSeq(t, 1, i - 1)
           q == SubSeq(t, i + 1, n)
           m == Len(buf)
           u == Splice(t, i, buf)
<1>1. n \in Nat /\ i \in Nat /\ i \in 1..n /\ i + 1 \in 1..n /\ i - 1 \in Nat /\ n - i \in Nat /\ m \in Nat
  <2>1. n \in Nat /\ m \in Nat
    OBVIOUS
  <2>2. \A x \in Nat : \A y \in 1..x - 1 : y \in Nat /\ y \in 1..x /\ y + 1 \in 1..x /\ y - 1 \in Nat /\ x - y \in Nat
    OBVIOUS
  <2> QED
    BY <2>1, <2>2
<1>2. /\ \A k \in 1..n : t[k] \in Spot /\ At(t[k]) \in Nat
      /\ \A k \in 1..n : k # i => t[k] \in C \cup {FlHead} /\ \E b \in C : At(t[k]) < b
      /\ \A k, l \in 1..n : k < l /\ k # i /\ l # i => t[l] \in C /\ At(t[k]) < t[l]
      /\ \A k \in 1..n : k < i => prev \in C /\ At(t[k]) < prev
  <2>1. \A k \in 1..n : t[k] \in Spot
    OBVIOUS
  <2> QED
    BY <2>1, Keys DEF Gap
<1>3. /\ \A j \in 1..m : buf[j] \in Spot /\ At(buf[j]) \in Nat /\ buf[j] \in C \cup {FlHead}
                         /\ At(prev) <= At(buf[j]) /\ At(buf[j]) < At(t[i + 1])
      /\ \A b \in C : b \in Nat /\ b >= 1 /\ At(b) = b /\ b # FlHead /\ b \in Spot
  BY Keys DEF Entries, Within
<1>4. p \in Seq(Spot) /\ Len(p) = i - 1 /\ \A j \in 1..i - 1 : j \in 1..n /\ j < i /\ p[j] = t[j]
  <2>1. \A j \in 1..i - 1 : j \in 1..n /\ j < i /\ t[j] \in Spot
    BY <1>1, <1>2
  <2>2. /\ p \in Seq(Spot) /\ Len(p) = (IF 1 <= i - 1 THEN i - 1 - 1 + 1 ELSE 0)
        /\ \A j \in 1..(i - 1 - 1 + 1) : p[j] = t[1 + j - 1]
    BY <1>1, <2>1, SubSeqProperties
  <2> HIDE DEF p, n
  <2>3. \A j \in 1..i - 1 : j \in 1..(i - 1 - 1 + 1) /\ 1 + j - 1 = j
    BY <1>1
  <2>4. Len(p) = i - 1
    BY <1>1, <2>2
  <2> QED
    BY <2>1, <2>2, <2>3, <2>4
<1>5. q \in Seq(Spot) /\ Len(q) = n - i /\ \A j \in 1..n - i : i + j \in 1..n /\ i + j > i /\ q[j] = t[i + j]
  <2>1. \A j \in i + 1..n : j \in 1..n /\ t[j] \in Spot
    BY <1>1, <1>2
  <2>2. /\ q \in Seq(Spot) /\ Len(q) = (IF i + 1 <= n THEN n - (i + 1) + 1 ELSE 0)
        /\ \A j \in 1..(n - (i + 1) + 1) : q[j] = t[i + 1 + j - 1]
    BY <1>1, <2>1, SubSeqProperties
  <2> HIDE DEF q, n
  <2>3. \A j \in 1..n - i : j \in 1..(n - (i + 1) + 1) /\ i + 1 + j - 1 = i + j /\ i + j \in 1..n /\ i + j > i
    BY <1>1
  <2>4. Len(q) = n - i
    BY <1>1, <2>2
  <2> QED
    BY <2>2, <2>3, <2>4
<1> HIDE DEF n, p, q, m
<1>6. Entries(C, p)
  <2>1. ASSUME NEW k \in 1..i - 1 PROVE p[k] \in C \cup {FlHead} /\ \E b \in C : At(p[k]) < b
    <3>1. k \in 1..n /\ k # i /\ p[k] = t[k]
      BY <1>1, <1>4
    <3> QED
      BY <1>2, <3>1
  <2>2. ASSUME NEW k \in 1..i - 1, NEW l \in 1..i - 1, k < l PROVE p[l] \in C /\ At(p[k]) < p[l]
    <3>1. k \in 1..n /\ l \in 1..n /\ k # i /\ l # i /\ p[k] = t[k] /\ p[l] = t[l]
      BY <1>1, <1>4
    <3> QED
      BY <1>2, <2>2, <3>1
  <2> QED
    BY <1>4, <2>1, <2>2, EntriesAre
<1>7. Entries(C, q)
  <2>1. ASSUME NEW k \in 1..n - i PROVE q[k] \in C \cup {FlHead} /\ \E b \in C : At(q[k]) < b
    <3>1. i + k \in 1..n /\ i + k # i /\ q[k] = t[i + k]
      BY <1>1, <1>5
    <3> QED
      BY <1>2, <3>1
  <2>2. ASSUME NEW k \in 1..n - i, NEW l \in 1..n - i, k < l PROVE q[l] \in C /\ At(q[k]) < q[l]
    <3>0. k \in Nat /\ l \in Nat /\ k > 0 /\ l > 0
      BY <1>1
    <3>1. i + k \in 1..n /\ i + l \in 1..n /\ i + k < i + l /\ i + k # i /\ i + l # i
          /\ q[k] = t[i + k] /\ q[l] = t[i + l]
      <4>1. i + k \in 1..n /\ i + k > i /\ q[k] = t[i + k] /\ i + l \in 1..n /\ i + l > i /\ q[l] = t[i + l]
        BY <1>5
      <4>2. i + k < i + l /\ i + k # i /\ i + l # i
        BY <1>1, <2>2, <3>0
      <4> QED
        BY <4>1, <4>2
    <3> QED
      BY <1>2, <3>1
  <2> QED
    BY <1>5, <2>1, <2>2, EntriesAre
\* The entry before, the new ones and the ones after are in order.
<1>8. \A j \in 1..i - 1, k \in 1..m : buf[k] \in C /\ At(p[j]) < buf[k]
  <2> SUFFICES ASSUME NEW j \in 1..i - 1, NEW k \in 1..m PROVE buf[k] \in C /\ At(p[j]) < buf[k]
    OBVIOUS
  <2>1. prev \in C /\ At(p[j]) < prev /\ At(p[j]) \in Nat
    BY <1>2, <1>4
  <2>2. At(prev) = prev /\ prev >= 1 /\ prev \in Nat /\ prev <= At(buf[k]) /\ At(buf[k]) \in Nat
    BY <1>3, <2>1
  <2>3. buf[k] # FlHead
    BY <2>2, Keys
  <2>4. buf[k] \in C /\ At(buf[k]) = buf[k]
    BY <1>3, <2>3
  <2> QED
    BY <2>1, <2>2, <2>4
<1>9. \A j \in 1..m, k \in 1..n - i : q[k] \in C /\ At(buf[j]) < q[k]
  <2> SUFFICES ASSUME NEW j \in 1..m, NEW k \in 1..n - i PROVE q[k] \in C /\ At(buf[j]) < q[k]
    OBVIOUS
  <2>1. At(buf[j]) < At(t[i + 1]) /\ At(buf[j]) \in Nat /\ At(t[i + 1]) \in Nat
    BY <1>1, <1>2, <1>3
  <2>2. t[i + 1] # FlHead
    BY <2>1, Keys
  <2>3. t[i + 1] \in C /\ At(t[i + 1]) = t[i + 1]
    BY <1>1, <1>2, <1>3, <2>2
  <2>4. q[k] = t[i + k] /\ i + k \in 1..n /\ (k = 1 \/ i + 1 < i + k)
    BY <1>1, <1>5
  <2>5. CASE k = 1
    BY <2>1, <2>3, <2>4, <2>5
  <2>6. CASE i + 1 < i + k
    <3>1. t[i + k] \in C /\ At(t[i + 1]) < t[i + k]
      BY <1>1, <1>2, <2>4, <2>6
    <3> QED
      BY <1>3, <2>1, <2>4, <3>1
  <2> QED
    BY <2>4, <2>5, <2>6
<1>10. \A j \in 1..i - 1, k \in 1..n - i : q[k] \in C /\ At(p[j]) < q[k]
  <2> SUFFICES ASSUME NEW j \in 1..i - 1, NEW k \in 1..n - i PROVE q[k] \in C /\ At(p[j]) < q[k]
    OBVIOUS
  <2>1. j \in 1..n /\ i + k \in 1..n /\ j < i + k /\ j # i /\ i + k # i /\ p[j] = t[j] /\ q[k] = t[i + k]
    <3>1. j \in 1..n /\ j < i /\ p[j] = t[j]
      BY <1>4
    <3>2. i + k \in 1..n /\ i + k > i /\ q[k] = t[i + k]
      BY <1>5
    <3>3. \A x, y \in 1..n : x < i /\ y > i => x < y /\ x # i /\ y # i
      BY <1>1
    <3> QED
      BY <3>1, <3>2, <3>3
  <2> QED
    BY <1>2, <2>1
<1> DEFINE v == p \o buf
<1>11. v \in Seq(Spot) /\ Len(v) = i - 1 + m /\ Entries(C, v)
       /\ \A k \in 1..i - 1 + m : v[k] = IF k <= i - 1 THEN p[k] ELSE buf[k - (i - 1)]
  <2>1. \A j \in 1..i - 1 : p[j] \in Spot
    BY <1>2, <1>4
  <2>2. \A j \in 1..Len(p), k \in 1..Len(buf) : buf[k] \in After(C, p[j])
    BY <1>4, <1>8, <2>1, AfterIs DEF m
  <2>3. v \in Seq(Spot) /\ Len(v) = Len(p) + Len(buf) /\ Entries(C, v)
    BY <1>4, <1>6, <2>2, EntriesConcat
  <2>4. \A k \in 1..Len(p) + Len(buf) : v[k] = IF k <= Len(p) THEN p[k] ELSE buf[k - Len(p)]
    BY <1>4, ConcatProperties
  <2> QED
    BY <1>4, <2>3, <2>4 DEF m
<1>12. u = v \o q
  BY DEF p, q, n, Splice
<1> HIDE DEF v, u
<1>13. ASSUME NEW j \in 1..i - 1 + m, NEW k \in 1..n - i PROVE q[k] \in C /\ At(v[j]) < q[k]
  <2>1. CASE j <= i - 1
    <3>1. j \in 1..i - 1
      BY <1>1, <2>1
    <3> QED
      BY <1>10, <1>11, <2>1, <3>1
  <2>2. CASE ~ (j <= i - 1)
    <3>1. j - (i - 1) \in 1..m
      BY <1>1, <2>2
    <3> QED
      BY <1>9, <1>11, <2>2, <3>1
  <2> QED
    BY <2>1, <2>2
<1>14. \A j \in 1..i - 1 + m : v[j] \in Spot
  BY <1>11
<1>15. \A j \in 1..Len(v), k \in 1..Len(q) : q[k] \in After(C, v[j])
  BY <1>5, <1>11, <1>13, <1>14, AfterIs
<1>16. u \in Seq(Spot) /\ Len(u) = Len(v) + Len(q) /\ Entries(C, u)
  BY <1>5, <1>7, <1>11, <1>12, <1>15, EntriesConcat
<1>17. \A k \in 1..Len(v) + Len(q) : u[k] = IF k <= Len(v) THEN v[k] ELSE q[k - Len(v)]
  <2>1. \A k \in 1..Len(v) + Len(q) : (v \o q)[k] = IF k <= Len(v) THEN v[k] ELSE q[k - Len(v)]
    BY <1>5, <1>11, ConcatProperties
  <2> QED
    BY <1>12, <2>1, Zenon
<1>18. ASSUME NEW b \in C, \A k \in 1..n : At(t[k]) < b PROVE Beyond(C, u, b)
  <2>1. ASSUME NEW k \in 1..Len(v) + Len(q) PROVE At(u[k]) < b
    <3>0. k \in Nat /\ k \in 1..i - 1 + m + (n - i) /\ Len(v) = i - 1 + m /\ Len(q) = n - i
      BY <1>1, <1>5, <1>11
    <3>1. CASE k <= Len(v) /\ k <= i - 1
      <4>0. k \in 1..i - 1 /\ k \in 1..i - 1 + m
        BY <1>1, <3>0, <3>1
      <4>1. k \in 1..i - 1 /\ u[k] = p[k]
        BY <1>11, <1>17, <3>1, <4>0
      <4> QED
        BY <1>4, <1>18, <4>1
    <3>2. CASE k <= Len(v) /\ ~ (k <= i - 1)
      <4>0. k - (i - 1) \in 1..m /\ k \in 1..i - 1 + m
        BY <1>1, <3>0, <3>2
      <4>1. k - (i - 1) \in 1..m /\ u[k] = buf[k - (i - 1)]
        BY <1>11, <1>17, <3>2, <4>0
      <4>2. At(buf[k - (i - 1)]) < At(t[i + 1]) /\ At(buf[k - (i - 1)]) \in Nat /\ At(t[i + 1]) \in Nat
            /\ At(t[i + 1]) < b /\ b \in Nat
        BY <1>1, <1>2, <1>3, <1>18, <4>1
      <4>3. At(buf[k - (i - 1)]) < b
        BY <4>2
      <4> QED
        BY <4>1, <4>3
    <3>3. CASE ~ (k <= Len(v))
      <4>0. k - Len(v) \in 1..n - i
        BY <1>1, <3>0, <3>3
      <4>1. k - Len(v) \in 1..n - i /\ u[k] = q[k - Len(v)]
        BY <1>17, <3>3, <4>0
      <4>2. i + (k - Len(v)) \in 1..n /\ u[k] = t[i + (k - Len(v))]
        BY <1>5, <4>1
      <4> QED
        BY <1>18, <4>2
    <3> QED
      BY <3>1, <3>2, <3>3
  <2> QED
    BY <1>16, <2>1, EntriesAre
<1> QED
  BY <1>16, <1>18 DEF n, u, AllBefore

\* How many of the maxima come into the table.
LEMMA TakenMaxima ==
  ASSUME NEW g, NEW L, NEW span \in Seq(Nat), NEW oldsz \in Nat,
         \A j \in 1..Len(span) : Wosize(g, L[span[j]]) \in Nat,
         \A j, l \in 1..Len(span) : j < l => Wosize(g, L[span[j]]) < Wosize(g, L[span[l]])
  PROVE  /\ Min({Len(span), Smaller(g, L, span, oldsz) + 1}) \in Nat
         /\ Min({Len(span), Smaller(g, L, span, oldsz) + 1}) <= Len(span)
<1> DEFINE c == Smaller(g, L, span, oldsz)
           S == {Len(span), c + 1}
<1>1. c \in Nat /\ Len(span) \in Nat
  BY SmallerIs
<1> HIDE DEF c
<1>2. S \in SUBSET Nat /\ S # {} /\ Len(span) \in S
  BY <1>1
<1> HIDE DEF S
<1>3. Min(S) \in Nat /\ Min(S) <= Len(span)
  BY <1>2, MinIs
<1> QED
  BY <1>3 DEF S, c

\* The nodes before the maxima between the nodes a and b.
SpanOf(f, a, b, z) == Maxima(f, List(f), Place(List(f), a) + 1..Place(List(f), b), z)
EntriesOf(f, a, b, z, oldsz) ==
  Prevs(List(f), SubSeq(SpanOf(f, a, b, z), 1,
                        Min({Len(SpanOf(f, a, b, z)), Smaller(f, List(f), SpanOf(f, a, b, z), oldsz) + 1})))

\* The entries found between two nodes of the list lie between these nodes.
LEMMA SpanIs ==
  ASSUME NEW f, IsFl(f), Linked(f.next, Blue(f)), NEW a \in Blue(f) \cup {FlHead},
         NEW b \in Blue(f) \cup {FlHead}, NEW z \in Nat, NEW oldsz \in Nat
  PROVE  /\ EntriesOf(f, a, b, z, oldsz) \in Seq(Spot) /\ Entries(Blue(f), EntriesOf(f, a, b, z, oldsz))
         /\ Within(EntriesOf(f, a, b, z, oldsz), a, b)
<1> DEFINE L == List(f)
           span == SpanOf(f, a, b, z)
           K == Min({Len(span), Smaller(f, L, span, oldsz) + 1})
           buf == EntriesOf(f, a, b, z, oldsz)
<1> DEFINE p == Place(L, a)
           q == Place(L, b)
           B == Blue(f)
<1>1. /\ L \in Seq(Spot) /\ Len(L) \in Nat \ {0} /\ \A i \in 1..Len(L) : L[i] \in B \cup {FlHead}
      /\ \A i, j \in 1..Len(L) : i < j => L[j] \in After(B, L[i])
      /\ p \in 1..Len(L) /\ L[p] = a /\ q \in 1..Len(L) /\ L[q] = b
  BY ListChain DEF IsChain
<1>0. span = Maxima(f, L, p + 1..q, z) /\ buf = Prevs(L, SubSeq(span, 1, K))
  BY DEF SpanOf, EntriesOf
<1>2. B \in SUBSET Addr
  BY BlueIs
<1> HIDE DEF B, p, q, buf, span
<1>3. p + 1..q \in SUBSET (2..Len(L))
  BY <1>1
<1>4. /\ span \in Seq(Nat) /\ Len(span) \in Nat
      /\ \A k \in 1..Len(span) : span[k] \in p + 1..q /\ Wosize(f, L[span[k]]) \in Nat
      /\ \A k, l \in 1..Len(span) : k < l => span[k] < span[l] /\ Wosize(f, L[span[k]]) < Wosize(f, L[span[l]])
  <2>1. IsMaxima(f, L, p + 1..q, z, span)
    BY <1>0, <1>3, MaximaAre
  <2> QED
    BY <2>1 DEF IsMaxima
<1>5. K \in Nat /\ K <= Len(span)
  BY <1>4, TakenMaxima
<1> HIDE DEF K
<1>6. buf \in Seq(Spot) /\ Entries(B, buf) /\ \A j \in 1..Len(buf) : At(a) <= At(buf[j]) /\ At(buf[j]) < At(b)
  <2> DEFINE s == SubSeq(span, 1, K)
  <2>0. K \in Nat /\ K <= Len(span)
    BY <1>5
  <2>1. s \in Seq(Nat) /\ Len(s) = K /\ \A j \in 1..K : j \in 1..Len(span) /\ s[j] = span[j]
    <3>1. \A j \in 1..K : j \in 1..Len(span) /\ span[j] \in Nat
      BY <1>4, <2>0
    <3>2. /\ s \in Seq(Nat) /\ Len(s) = (IF 1 <= K THEN K - 1 + 1 ELSE 0)
          /\ \A j \in 1..(K - 1 + 1) : s[j] = span[1 + j - 1]
      BY <1>4, <2>0, <3>1, SubSeqProperties
    <3>3. Len(s) = K /\ \A j \in 1..K : j \in 1..(K - 1 + 1) /\ 1 + j - 1 = j
      BY <2>0, <3>2
    <3> QED
      BY <3>1, <3>2, <3>3
  <2> HIDE DEF s
  <2>2. \A k \in 1..Len(s) : s[k] \in p + 1..q /\ s[k] \in 2..Len(L)
    BY <1>3, <1>4, <2>1
  <2>3. \A k, l \in 1..Len(s) : k < l => s[k] < s[l]
    BY <1>4, <2>1
  <2>4. /\ buf \in Seq(Spot) /\ Len(buf) = Len(s) /\ Entries(B, buf)
        /\ \A k \in 1..Len(s) : buf[k] = L[s[k] - 1] /\ s[k] - 1 \in 1..Len(L) - 1
    <3>1. buf = Prevs(L, s)
      BY <1>0 DEF s
    <3>2. s \in Seq(Nat) /\ \A k \in 1..Len(s) : s[k] \in 2..Len(L)
      BY <2>1, <2>2
    <3>3. LET t == Prevs(L, s)
          IN  /\ t \in Seq(Spot) /\ Len(t) = Len(s) /\ Entries(Blue(f), t)
              /\ \A k \in 1..Len(s) : t[k] = L[s[k] - 1] /\ s[k] - 1 \in 1..Len(L) - 1
      BY <2>3, <3>2, PrevsAre
    <3> QED
      BY <3>1, <3>3 DEF B
  <2>5. ASSUME NEW j \in 1..Len(buf) PROVE At(a) <= At(buf[j]) /\ At(buf[j]) < At(b)
    <3> DEFINE x == s[j] - 1
    <3>1. s[j] \in p + 1..q /\ buf[j] = L[x] /\ x \in 1..Len(L) - 1
      BY <2>2, <2>4
    <3>2. x \in 1..Len(L) /\ (x = p \/ p < x) /\ x < q
      BY <1>1, <3>1
    <3> HIDE DEF x
    <3>3. a \in Spot /\ L[x] \in Spot /\ At(a) \in Nat /\ At(L[x]) \in Nat
      BY <1>1, <3>2, Keys
    <3>4. x = p \/ At(a) < At(L[x])
      <4>1. CASE p < x
        <5>1. L[x] \in After(B, a)
          BY <1>1, <3>2, <4>1
        <5>2. L[x] \in B /\ At(a) < L[x]
          BY <1>2, <3>3, <5>1, AfterIs
        <5> QED
          BY <1>2, <5>2, Keys
      <4> QED
        BY <3>2, <4>1
    <3>5. At(L[x]) < At(b)
      <4>1. b \in After(B, L[x])
        BY <1>1, <3>2
      <4>2. b \in B /\ At(L[x]) < b
        BY <1>2, <3>3, <4>1, AfterIs
      <4> QED
        BY <1>2, <4>2, Keys
    <3> QED
      BY <1>1, <3>1, <3>3, <3>4, <3>5
  <2> QED
    BY <2>4, <2>5
<1> QED
  BY <1>6 DEF B, Within, buf

-----------------------------------------------------------------------------
(* What an allocation from the free list returns *)

\* f and g differ in the table at most.
SameList(f, g) == /\ g.hd = f.hd /\ g.next = f.next /\ g.policy = f.policy /\ g.prev = f.prev
                  /\ g.merge = f.merge /\ g.fragment = f.fragment /\ g.size = f.size

\* r is the outcome of taking n words from the free block after prev.
TakenFrom(f, r, n, prev) ==
  LET cur == f.next[prev]
  IN  /\ cur # Null /\ Wosize(f, cur) >= n /\ Cut(f, r.f, n, prev, cur)
      /\ r.hp = cur + Wosize(f, cur) - n /\ IsFl(r.f) /\ Tabled(r.f)

Gives(f, r, n) == \E prev \in Blue(f) \cup {FlHead} : TakenFrom(f, r, n, prev)

\* What depends on the list only is the same for the same list.
LEMMA SameListIs ==
  ASSUME NEW f, IsFl(f), NEW g, SameList(f, g)
  PROVE  /\ Blue(g) = Blue(f) /\ (Threaded(f) => Threaded(g)) /\ List(g) = List(f)
         /\ \A b : Wosize(g, b) = Wosize(f, b)
         /\ \A h, n, prev, cur : Cut(g, h, n, prev, cur) <=> Cut(f, h, n, prev, cur)
         /\ \A h, n, prev, cur : Cut(h, f, n, prev, cur) <=> Cut(h, g, n, prev, cur)
         /\ \A r, n : Gives(g, r, n) <=> Gives(f, r, n)
<1>1. /\ g.hd = f.hd /\ g.next = f.next /\ g.policy = f.policy /\ g.prev = f.prev
      /\ g.merge = f.merge /\ g.fragment = f.fragment /\ g.size = f.size
  BY DEF SameList
<1>2. Blue(g) = Blue(f) /\ List(g) = List(f) /\ \A b : Wosize(g, b) = Wosize(f, b)
  BY <1>1 DEF Blue, List, Wosize
<1>3. WordsOf(g, Blue(f)) = WordsOf(f, Blue(f))
  BY <1>2, WordsSame DEF Whsize
<1>4. Threaded(f) => Threaded(g)
  BY <1>1, <1>2, <1>3 DEF Threaded
<1>5. \A h, n, prev, cur : Cut(g, h, n, prev, cur) <=> Cut(f, h, n, prev, cur)
  <2> SUFFICES ASSUME NEW h, NEW n, NEW prev, NEW cur PROVE Cut(g, h, n, prev, cur) <=> Cut(f, h, n, prev, cur)
    OBVIOUS
  <2> DEFINE m == Wosize(f, cur)
  <2>1. Wosize(g, cur) = m
    BY <1>2
  <2> HIDE DEF m
  <2>2. Cut(g, h, n, prev, cur) <=>
          /\ h.hd = IF m < n + 2 THEN [f.hd EXCEPT ![cur] = Fragment]
                    ELSE [f.hd EXCEPT ![cur] = [wosize |-> m - (n + 1), color |-> "blue"]]
          /\ h.next = IF m < n + 2 THEN [f.next EXCEPT ![prev] = f.next[cur], ![cur] = Null] ELSE f.next
          /\ h.merge = IF m < n + 2 /\ f.merge = cur THEN prev ELSE f.merge
          /\ h.policy = f.policy /\ h.fragment = f.fragment
          /\ h.prev = IF f.policy = "next fit" THEN prev ELSE f.prev
          /\ h.size = f.size - (IF m < n + 2 THEN m + 1 ELSE n + 1)
    BY <1>1, <2>1, Zenon DEF Cut
  <2>3. Cut(f, h, n, prev, cur) <=>
          /\ h.hd = IF m < n + 2 THEN [f.hd EXCEPT ![cur] = Fragment]
                    ELSE [f.hd EXCEPT ![cur] = [wosize |-> m - (n + 1), color |-> "blue"]]
          /\ h.next = IF m < n + 2 THEN [f.next EXCEPT ![prev] = f.next[cur], ![cur] = Null] ELSE f.next
          /\ h.merge = IF m < n + 2 /\ f.merge = cur THEN prev ELSE f.merge
          /\ h.policy = f.policy /\ h.fragment = f.fragment
          /\ h.prev = IF f.policy = "next fit" THEN prev ELSE f.prev
          /\ h.size = f.size - (IF m < n + 2 THEN m + 1 ELSE n + 1)
    BY DEF Cut, m
  <2> QED
    BY <2>2, <2>3
<1>6. \A h, n, prev, cur : Cut(h, f, n, prev, cur) <=> Cut(h, g, n, prev, cur)
  BY <1>1 DEF Cut
<1>7. \A r, n, prev : TakenFrom(g, r, n, prev) <=> TakenFrom(f, r, n, prev)
  BY <1>1, <1>2, <1>5 DEF TakenFrom
<1>8. \A r, n : Gives(g, r, n) <=> Gives(f, r, n)
  BY <1>2, <1>7 DEF Gives
<1> QED
  BY <1>2, <1>4, <1>5, <1>6, <1>8

\* Another table for the same list.
LEMMA NewTable ==
  ASSUME NEW f, IsFl(f), NEW s \in Seq(Spot), NEW b \in Addr \cup {Null}, Len(s) <= FLP_MAX
  PROVE  /\ IsFl([f EXCEPT !.flp = s, !.beyond = b]) /\ SameList(f, [f EXCEPT !.flp = s, !.beyond = b])
         /\ [f EXCEPT !.flp = s, !.beyond = b].flp = s /\ [f EXCEPT !.flp = s, !.beyond = b].beyond = b
         /\ f = [hd |-> f.hd, next |-> f.next, policy |-> f.policy, prev |-> f.prev, merge |-> f.merge,
                 fragment |-> f.fragment, size |-> f.size, flp |-> f.flp, beyond |-> f.beyond]
         /\ [f EXCEPT !.flp = s, !.beyond = f.beyond] = [f EXCEPT !.flp = s]
         /\ [f EXCEPT !.flp = f.flp, !.beyond = b] = [f EXCEPT !.beyond = b]
<1> DEFINE g == [f EXCEPT !.flp = s, !.beyond = b]
<1>1. f = [hd |-> f.hd, next |-> f.next, policy |-> f.policy, prev |-> f.prev, merge |-> f.merge,
           fragment |-> f.fragment, size |-> f.size, flp |-> f.flp, beyond |-> f.beyond]
  BY DEF IsFl
<1>2. g = [hd |-> f.hd, next |-> f.next, policy |-> f.policy, prev |-> f.prev, merge |-> f.merge,
           fragment |-> f.fragment, size |-> f.size, flp |-> s, beyond |-> b]
  <2>1. ASSUME NEW x, x = [f EXCEPT !.flp = s, !.beyond = b]
        PROVE  x = [hd |-> f.hd, next |-> f.next, policy |-> f.policy, prev |-> f.prev, merge |-> f.merge,
                    fragment |-> f.fragment, size |-> f.size, flp |-> s, beyond |-> b]
    BY <1>1, <2>1
  <2> QED
    BY <2>1
<1> HIDE DEF g
<1>3. SameList(f, g) /\ g.flp = s /\ g.beyond = b
  BY <1>2 DEF SameList
<1>4. IsFl(g)
  <2>1. /\ f.hd \in [DOMAIN f.hd -> Block] /\ f.next \in [Spot -> Addr \cup {Null}]
        /\ f.policy \in {"next fit", "first fit"} /\ f.prev \in Spot /\ f.merge \in Spot
        /\ f.fragment \in Addr \cup {Null} /\ f.size \in Int /\ DOMAIN f.hd \in SUBSET Addr
    BY DEF IsFl
  <2>2. g \in [hd : [DOMAIN f.hd -> Block], next : [Spot -> Addr \cup {Null}],
               policy : {"next fit", "first fit"}, prev : Spot, merge : Spot,
               fragment : Addr \cup {Null}, size : Int, flp : Seq(Spot), beyond : Addr \cup {Null}]
    BY <1>2, <2>1
  <2>3. g.hd = f.hd /\ g.flp = s
    BY <1>2
  <2> QED
    BY <2>1, <2>2, <2>3 DEF IsFl
<1>5. /\ [f EXCEPT !.flp = s, !.beyond = f.beyond] = [f EXCEPT !.flp = s]
      /\ [f EXCEPT !.flp = f.flp, !.beyond = b] = [f EXCEPT !.beyond = b]
  BY <1>1
<1> QED
  BY <1>1, <1>3, <1>4, <1>5 DEF g

\* A table that is too long is cut, with the place where it went on.
LEMMA TableCut ==
  ASSUME NEW f, IsFl(f), Linked(f.next, Blue(f)), NEW u \in Seq(Spot), Entries(Blue(f), u), NEW K \in Nat \ {0}, K <= Len(u)
  PROVE  /\ SubSeq(u, 1, K - 1) \in Seq(Spot) /\ Len(SubSeq(u, 1, K - 1)) = K - 1
         /\ Entries(Blue(f), SubSeq(u, 1, K - 1))
         /\ f.next[u[K]] \in Addr /\ Beyond(Blue(f), SubSeq(u, 1, K - 1), f.next[u[K]])
<1> DEFINE B == Blue(f)
           t == SubSeq(u, 1, K - 1)
           b == f.next[u[K]]
<1>1. K \in Nat /\ K - 1 \in Nat /\ Len(u) \in Nat /\ K - 1 <= Len(u) /\ K \in 1..Len(u)
  OBVIOUS
<1>2. B \in SUBSET Addr
  BY BlueIs
<1>3. /\ t \in Seq(Spot) /\ Len(t) = (IF 1 <= K - 1 THEN K - 1 - 1 + 1 ELSE 0)
      /\ \A j \in 1..Len(t) : t[j] = u[1 + j - 1] /\ 1 + j - 1 \in 1..K - 1 /\ 1 + j - 1 \in 1..Len(u)
      /\ Entries(B, t)
  BY <1>1, EntriesPart
<1> HIDE DEF t, b
<1>4. Len(t) = K - 1 /\ \A j \in 1..K - 1 : t[j] = u[j] /\ j \in 1..Len(u) /\ j < K
  <2>1. Len(t) = K - 1
    BY <1>1, <1>3
  <2>2. \A j \in 1..K - 1 : 1 + j - 1 = j /\ j < K
    BY <1>1
  <2> QED
    BY <1>3, <2>1, <2>2
<1>5. /\ \A k \in 1..Len(u) : u[k] \in B \cup {FlHead} /\ After(B, u[k]) # {}
      /\ \A k, l \in 1..Len(u) : k < l => u[l] \in After(B, u[k])
  BY DEF Entries
<1>6. b \in After(B, u[K]) /\ b \in B
  <2>1. u[K] \in B \cup {FlHead} /\ After(B, u[K]) # {}
    BY <1>1, <1>5
  <2> QED
    BY <1>2, <2>1, NextIs DEF b
<1>7. \A k \in 1..Len(t) : b \in After(B, t[k])
  <2> SUFFICES ASSUME NEW k \in 1..K - 1 PROVE b \in After(B, t[k])
    BY <1>4
  <2>1. t[k] = u[k] /\ k \in 1..Len(u) /\ k < K
    BY <1>4
  <2>2. u[K] \in After(B, t[k]) /\ t[k] \in B \cup {FlHead}
    BY <1>1, <1>5, <2>1
  <2> QED
    BY <1>2, <1>6, <2>2, AfterAfter
<1>8. Beyond(B, t, b)
  BY <1>6, <1>7 DEF Beyond
<1>9. b \in Addr
  BY <1>2, <1>6
<1> QED
  BY <1>3, <1>4, <1>8, <1>9 DEF t, b

\* The table that AllocateBlock leaves, when the i-th entry is not the last.
LEMMA TableIs ==
  ASSUME NEW s \in Seq(Spot), NEW i \in 1..Len(s) - 1, NEW prev \in Spot, NEW cur, NEW B, NEW C, C # B
  PROVE  /\ TableFlp(s, i, prev, cur) \in Seq(Spot) /\ Redirected(s, TableFlp(s, i, prev, cur), i, prev, cur, B, C)
         /\ Redirected(s, s, i, prev, cur, B, B)
<1> DEFINE t == TableFlp(s, i, prev, cur)
<1>1. Len(s) \in Nat /\ i \in 1..Len(s) /\ i + 1 \in 1..Len(s) /\ i < Len(s)
  <2>1. Len(s) \in Nat
    BY LenProperties
  <2>2. \A n \in Nat : \A k \in 1..n - 1 : k \in 1..n /\ k + 1 \in 1..n /\ k < n
    OBVIOUS
  <2> QED
    BY <2>1, <2>2
<1>2. CASE s[i + 1] = cur
  <2>1. t = [s EXCEPT ![i + 1] = prev]
    BY <1>1, <1>2 DEF TableFlp
  <2>2. t \in Seq(Spot) /\ Len(t) = Len(s) /\ \A k \in 1..Len(s) : t[k] = IF k = i + 1 THEN prev ELSE s[k]
    BY <1>1, <2>1, ExceptSeq
  <2> HIDE DEF t
  <2> QED
    BY <1>1, <1>2, <2>2 DEF Redirected, t
<1>3. CASE s[i + 1] # cur
  <2>1. t = s
    <3>1. i # Len(s)
      BY <1>1
    <3> QED
      BY <1>3, <3>1 DEF TableFlp
  <2> HIDE DEF t
  <2> QED
    BY <1>1, <1>3, <2>1 DEF Redirected, t
<1>4. Redirected(s, s, i, prev, cur, B, B)
  BY DEF Redirected
<1> QED
  BY <1>2, <1>3, <1>4

\* The table when the block of the i-th entry was taken or reduced, and is not
\* the last one.
LEMMA MiddleIs ==
  ASSUME NEW B \in SUBSET Addr, NEW s \in Seq(Spot), Entries(B, s), NEW i \in 1..Len(s) - 1,
         NEW beyond, Beyond(B, s, beyond),
         NEW prev, prev = s[i], NEW cur, NextBlock(B, prev, cur),
         NEW g, IsFl(g), Linked(g.next, Blue(g)), NEW C, C = Blue(g), C = B \/ C = B \ {cur},
         NEW t \in Seq(Spot), Redirected(s, t, i, prev, cur, B, C), NEW oldsz \in Nat, NEW z \in Nat
  PROVE  /\ Splice(t, i, EntriesOf(g, t[i], t[i + 1], z, oldsz)) \in Seq(Spot)
         /\ Entries(C, Splice(t, i, EntriesOf(g, t[i], t[i + 1], z, oldsz)))
         /\ Beyond(C, Splice(t, i, EntriesOf(g, t[i], t[i + 1], z, oldsz)), beyond)
<1> DEFINE u == Splice(t, i, EntriesOf(g, t[i], t[i + 1], z, oldsz))
<1>1. C \in SUBSET Addr
  BY BlueIs
<1>2. Len(t) = Len(s)
  BY DEF Redirected
<1>3. Gap(C, t, i, prev) /\ KeepsBeyond(B, s, C, t)
  BY MiddleEntryGoes, ZenonT(30)
<1> DEFINE x == t[i + 1]
           buf == EntriesOf(g, prev, x, z, oldsz)
<1>4. buf \in Seq(Spot) /\ Entries(C, buf) /\ Within(buf, prev, x)
  <2>1. x \in C \cup {FlHead} /\ prev \in C \cup {FlHead}
    BY <1>3 DEF Gap
  <2> HIDE DEF x
  <2> QED
    BY <2>1, SpanIs
<1>5. u = Splice(t, i, buf)
  BY <1>3 DEF Gap
<1> HIDE DEF buf, u
<1>6. /\ u \in Seq(Spot) /\ Entries(C, u)
      /\ \A b \in C : AllBefore(t, b) => Beyond(C, u, b)
  <2>1. i \in 1..Len(t) - 1
    BY <1>2
  <2> QED
    <3>1. Within(buf, prev, t[i + 1])
      BY <1>4
    <3>2. /\ Splice(t, i, buf) \in Seq(Spot) /\ Entries(C, Splice(t, i, buf))
          /\ \A b \in C : AllBefore(t, b) => Beyond(C, Splice(t, i, buf), b)
      BY <1>1, <1>3, <1>4, <2>1, <3>1, MiddleEntriesCome, ZenonT(30)
    <3> QED
      BY <1>5, <3>2, Zenon
<1>7. Beyond(C, u, beyond)
  <2>1. CASE beyond = Null
    BY <2>1 DEF Beyond
  <2>2. CASE beyond # Null
    BY <1>3, <1>6, <2>2 DEF KeepsBeyond
  <2> QED
    BY <2>1, <2>2
<1> QED
  BY <1>6, <1>7 DEF u

\* The parts of UpdateFlp.
SizeBefore(g, i) == IF i > 1 THEN Wosize(g, g.next[g.flp[i - 1]]) ELSE 0
NewTableOf(g, i, oldsz) == Splice(g.flp, i, EntriesOf(g, g.flp[i], g.flp[i + 1], SizeBefore(g, i), oldsz))
AtEnd(g, i) == IF Wosize(g, g.next[g.flp[i]]) <= SizeBefore(g, i)
               THEN [g EXCEPT !.beyond = g.next[g.flp[i]], !.flp = Front(@)]
               ELSE [g EXCEPT !.beyond = Null]
Inside(g, i, oldsz) ==
  IF Len(NewTableOf(g, i, oldsz)) <= FLP_MAX THEN [g EXCEPT !.flp = NewTableOf(g, i, oldsz)]
  ELSE [g EXCEPT !.flp = SubSeq(NewTableOf(g, i, oldsz), 1, FLP_MAX - 1),
                 !.beyond = g.next[NewTableOf(g, i, oldsz)[FLP_MAX]]]

\* The cases of the update of the table after an allocation.
LEMMA UpdateFlpIs ==
  ASSUME NEW r, NEW i, NEW oldsz
  PROVE  UpdateFlp(r, i, oldsz) =
           [r EXCEPT !.f = IF i > Len(r.f.flp) THEN r.f
                           ELSE IF i = Len(r.f.flp) THEN AtEnd(r.f, i) ELSE Inside(r.f, i, oldsz)]
BY DEF UpdateFlp, AtEnd, Inside, NewTableOf, SizeBefore, Splice, EntriesOf, SpanOf

\* h is g with a table that is in order.
Updates(g, h) == /\ IsFl(h) /\ SameList(g, h)
                 /\ Entries(Blue(g), h.flp) /\ Beyond(Blue(g), h.flp, h.beyond)

\* A table that is right for the list may replace the old one.
LEMMA UpdatesIs ==
  ASSUME NEW g, IsFl(g), NEW s \in Seq(Spot), Len(s) <= FLP_MAX, NEW b \in Addr \cup {Null},
         Entries(Blue(g), s), Beyond(Blue(g), s, b)
  PROVE  Updates(g, [g EXCEPT !.flp = s, !.beyond = b])
<1> DEFINE h == [g EXCEPT !.flp = s, !.beyond = b]
<1>1. IsFl(h) /\ SameList(g, h) /\ h.flp = s /\ h.beyond = b
  <2>1. IsFl(h)
    BY NewTable, ZenonT(30)
  <2>2. SameList(g, h)
    BY NewTable, ZenonT(30)
  <2>3. h.flp = s /\ h.beyond = b
    BY DEF IsFl
  <2> QED
    BY <2>1, <2>2, <2>3
<1> HIDE DEF h
<1>2. Updates(g, h)
  BY <1>1, Zenon DEF Updates
<1> QED
  BY <1>2 DEF h

\* The table may stay.
LEMMA SameTable ==
  ASSUME NEW g, IsFl(g), Entries(Blue(g), g.flp), Beyond(Blue(g), g.flp, g.beyond)
  PROVE  Updates(g, g)
BY DEF Updates, SameList

\* The last entry, when its block was reduced.
LEMMA AtEndIs ==
  ASSUME NEW g, IsFl(g), NEW s, s = g.flp, Entries(Blue(g), s), NEW i, i = Len(s), Len(s) # 0,
         NextBlock(Blue(g), s[i], g.next[s[i]])
  PROVE  Updates(g, AtEnd(g, i))
<1> DEFINE B == Blue(g)
           cur == g.next[s[i]]
<1>1. s \in Seq(Spot) /\ Len(s) <= FLP_MAX /\ Len(s) \in Nat /\ B \in SUBSET Addr /\ FLP_MAX \in Nat
  <2>1. s \in Seq(Spot) /\ Len(s) <= FLP_MAX
    BY DEF IsFl
  <2> QED
    BY <2>1, LenProperties, BlueIs, HeapAssumption
<1>2. cur \in B /\ At(s[i]) < cur /\ cur \in Addr \cup {Null}
  BY <1>1 DEF NextBlock
<1> HIDE DEF B, cur
<1>3. Beyond(B, Front(s), cur) /\ Entries(B, Front(s))
  <2>1. Entries(B, s) /\ s[i] = s[Len(s)]
    BY DEF B
  <2> QED
    BY <1>1, <1>2, <2>1, LastEntryGoes
<1>4. Front(s) \in Seq(Spot) /\ Len(Front(s)) <= FLP_MAX
  <2>1. Front(s) \in Seq(Spot) /\ Len(Front(s)) = Len(s) - 1
    BY <1>1, FrontIs
  <2>2. Len(s) - 1 <= FLP_MAX
    BY <1>1
  <2> QED
    BY <2>1, <2>2
<1>5. Updates(g, [g EXCEPT !.flp = Front(s), !.beyond = cur])
  BY <1>2, <1>3, <1>4, UpdatesIs DEF B
<1>6. Updates(g, [g EXCEPT !.flp = s, !.beyond = Null])
  <2>1. Beyond(B, s, Null)
    BY DEF Beyond
  <2> QED
    BY <1>1, <2>1, UpdatesIs DEF B
<1>7. [g EXCEPT !.flp = s, !.beyond = Null] = [g EXCEPT !.beyond = Null]
  BY <1>1, NewTable
<1>8. [g EXCEPT !.flp = Front(s), !.beyond = cur] = [g EXCEPT !.beyond = cur, !.flp = Front(@)]
  <2>1. g = [hd |-> g.hd, next |-> g.next, policy |-> g.policy, prev |-> g.prev, merge |-> g.merge,
             fragment |-> g.fragment, size |-> g.size, flp |-> g.flp, beyond |-> g.beyond]
    BY <1>1, NewTable
  <2> QED
    BY <2>1
<1>9. AtEnd(g, i) = [g EXCEPT !.beyond = cur, !.flp = Front(@)] \/ AtEnd(g, i) = [g EXCEPT !.beyond = Null]
  BY DEF AtEnd, cur
<1> QED
  BY <1>5, <1>6, <1>7, <1>8, <1>9

\* The size that the entry before leads to is a number.
LEMMA SizeBeforeIs ==
  ASSUME NEW g, IsFl(g), Linked(g.next, Blue(g)), NEW s, s = g.flp, NEW i \in 1..Len(s),
         i > 1 => s[i - 1] \in Blue(g) \cup {FlHead} /\ After(Blue(g), s[i - 1]) # {}
  PROVE  SizeBefore(g, i) \in Nat
<1>1. CASE i > 1
  <2> DEFINE a == s[i - 1]
  <2>1. a \in Blue(g) \cup {FlHead} /\ After(Blue(g), a) # {}
    BY <1>1
  <2> HIDE DEF a
  <2>2. g.next[a] \in Blue(g)
    BY <2>1, BlueIs, NextIs
  <2>3. Wosize(g, g.next[a]) \in Nat
    BY <2>2, Sizes
  <2> QED
    BY <1>1, <2>3 DEF SizeBefore, a
<1>2. CASE ~ (i > 1)
  BY <1>2 DEF SizeBefore
<1> QED
  BY <1>1, <1>2

\* An entry before the last one, when its block was reduced or taken.
LEMMA InsideIs ==
  ASSUME NEW B \in SUBSET Addr, NEW s \in Seq(Spot), Entries(B, s), NEW i \in 1..Len(s) - 1,
         NEW beyond, Beyond(B, s, beyond), NEW prev, prev = s[i], NEW cur, NextBlock(B, prev, cur),
         NEW g, IsFl(g), Linked(g.next, Blue(g)), NEW C, C = Blue(g), C = B \/ C = B \ {cur},
         Redirected(s, g.flp, i, prev, cur, B, C), g.beyond = beyond, NEW oldsz \in Nat
  PROVE  Updates(g, Inside(g, i, oldsz))
<1> DEFINE t == g.flp
           z == SizeBefore(g, i)
           u == NewTableOf(g, i, oldsz)
<1>1. t \in Seq(Spot) /\ beyond \in Addr \cup {Null} /\ Redirected(s, t, i, prev, cur, B, C) /\ Len(t) = Len(s)
  <2>1. t \in Seq(Spot) /\ g.beyond \in Addr \cup {Null}
    BY DEF IsFl
  <2> QED
    BY <2>1 DEF Redirected
<1>2. u = Splice(t, i, EntriesOf(g, t[i], t[i + 1], z, oldsz))
  BY DEF NewTableOf
<1> HIDE DEF t, z, u
<1>3. z \in Nat
  <2>1. Gap(C, t, i, prev)
    BY <1>1, MiddleEntryGoes, ZenonT(30)
  <2>2. Len(s) \in Nat
    BY LenProperties
  <2>3. i \in 1..Len(t) /\ i \in Nat /\ (i > 1 => i - 1 \in 1..Len(t) /\ i - 1 # i)
    BY <1>1, <2>2
  <2>4. ASSUME i > 1 PROVE t[i - 1] \in C \cup {FlHead} /\ After(C, t[i - 1]) # {}
    <3>1. t[i - 1] \in C \cup {FlHead} /\ \E b \in C : At(t[i - 1]) < b
      BY <2>1, <2>3, <2>4 DEF Gap
    <3>2. t[i - 1] \in Spot /\ C \in SUBSET Addr
      BY <3>1, BlueIs DEF Spot
    <3> QED
      BY <3>1, <3>2, AfterIs
  <2> QED
    BY <2>3, <2>4, SizeBeforeIs DEF t, z
<1>4. u \in Seq(Spot) /\ Entries(C, u) /\ Beyond(C, u, beyond)
  <2> DEFINE w == Splice(t, i, EntriesOf(g, t[i], t[i + 1], z, oldsz))
  <2>1. w \in Seq(Spot) /\ Entries(C, w) /\ Beyond(C, w, beyond)
    BY <1>1, <1>3, MiddleIs, ZenonT(30)
  <2> HIDE DEF w
  <2>2. u = w
    BY <1>2 DEF w
  <2> QED
    BY <2>1, <2>2, Zenon
<1>5. CASE Len(u) <= FLP_MAX
  <2>1. Updates(g, [g EXCEPT !.flp = u, !.beyond = beyond])
    BY <1>1, <1>4, <1>5, UpdatesIs
  <2>2. Inside(g, i, oldsz) = [g EXCEPT !.flp = u]
    BY <1>5 DEF Inside, u
  <2>3. [g EXCEPT !.flp = u, !.beyond = g.beyond] = [g EXCEPT !.flp = u]
    BY <1>1, <1>4, <1>5, NewTable
  <2> QED
    BY <2>1, <2>2, <2>3
<1>6. CASE ~ (Len(u) <= FLP_MAX)
  <2> DEFINE v == SubSeq(u, 1, FLP_MAX - 1)
             b == g.next[u[FLP_MAX]]
  <2>1. Len(u) \in Nat /\ FLP_MAX \in Nat \ {0} /\ FLP_MAX <= Len(u)
    <3>1. Len(u) \in Nat
      BY <1>4, LenProperties
    <3>2. FLP_MAX \in Nat \ {0}
      BY HeapAssumption
    <3>3. \A x, y \in Nat : ~ (x <= y) => y <= x
      OBVIOUS
    <3> QED
      BY <1>6, <3>1, <3>2, <3>3
  <2>2. v \in Seq(Spot) /\ Len(v) = FLP_MAX - 1 /\ Entries(C, v) /\ b \in Addr /\ Beyond(C, v, b)
    BY <1>4, <2>1, TableCut
  <2>3. Inside(g, i, oldsz) = [g EXCEPT !.flp = v, !.beyond = b]
    BY <1>6 DEF Inside, u
  <2> HIDE DEF v, b
  <2>4. Len(v) <= FLP_MAX
    BY <2>1, <2>2
  <2>5. Updates(g, [g EXCEPT !.flp = v, !.beyond = b])
    BY <2>2, <2>4, UpdatesIs
  <2> QED
    BY <2>3, <2>5
<1> QED
  BY <1>5, <1>6

FirstFitNow(f) == f.policy = "first fit"

\* An entry has a block to lead to, and next leads there.
LEMMA EntryLeads ==
  ASSUME NEW f, IsFl(f), Linked(f.next, Blue(f)), NEW prev \in Blue(f) \cup {FlHead}, After(Blue(f), prev) # {}
  PROVE  /\ f.next[prev] \in Blue(f) /\ f.next[prev] # Null /\ f.next[prev] \in Addr
         /\ NextBlock(Blue(f), prev, f.next[prev])
<1> DEFINE B == Blue(f)
           cur == f.next[prev]
<1>1. B \in SUBSET Addr /\ prev \in Spot
  BY BlueIs DEF Spot
<1>2. cur \in After(B, prev) /\ \A b \in After(B, prev) : cur <= b
  BY <1>1, NextIs
<1> HIDE DEF cur, B
<1>3. cur \in B /\ At(prev) < cur /\ \A b \in B : At(prev) < b => cur <= b
  BY <1>1, <1>2, AfterIs
<1>4. cur \in Addr /\ cur # Null
  BY <1>1, <1>3, Keys
<1> QED
  BY <1>3, <1>4 DEF NextBlock, cur, B

\* The outcome of AllocateBlock, for the table.
BlockTaken(f, n, i, prev, cur, r) ==
  /\ Cut(f, r.f, n, prev, cur) /\ IsFl(r.f) /\ Threaded(r.f)
  /\ r.hp = cur + Wosize(f, cur) - n /\ r = [f |-> r.f, hp |-> r.hp, last |-> r.last]
  /\ Blue(r.f) = IF Wosize(f, cur) < n + 2 THEN Blue(f) \ {cur} ELSE Blue(f)
  /\ r.f.flp = IF Wosize(f, cur) < n + 2 THEN TableFlp(f.flp, i, prev, cur) ELSE f.flp
  /\ r.f.beyond = IF Wosize(f, cur) < n + 2 THEN TableBeyond(f.flp, f.beyond, i, prev, cur) ELSE f.beyond
  /\ ~ (Wosize(f, cur) < n + 2) => r.f.next = f.next

\* Allocating from what an entry leads to gives out a block and keeps the heap, but for that entry.
LEMMA TakenTable ==
  ASSUME NEW f, IsFl(f), Threaded(f), FirstFitNow(f), NEW n \in 1..Words, NEW i \in 1..Len(f.flp) + 1,
         NEW prev \in Blue(f) \cup {FlHead}, After(Blue(f), prev) # {}, Wosize(f, f.next[prev]) >= n
  PROVE  BlockTaken(f, n, i, prev, f.next[prev], AllocateBlock(f, n, i, prev, f.next[prev]))
<1> DEFINE cur == f.next[prev]
           r == AllocateBlock(f, n, i, prev, cur)
           whole == Wosize(f, cur) < n + 2
<1>1. Linked(f.next, Blue(f))
  BY DEF Threaded
<1>2. cur \in Blue(f) /\ cur # Null
  BY <1>1, EntryLeads
<1>3. i \in Nat /\ prev \in Spot /\ TablePlace(f, i)
  <2>1. i \in Nat
    <3>1. Len(f.flp) \in Nat
      BY LenProperties DEF IsFl
    <3> QED
      BY <3>1
  <2>2. prev \in Spot
    BY BlueIs DEF Spot
  <2>3. TablePlace(f, i)
    BY Zenon DEF TablePlace
  <2> QED
    BY <2>1, <2>2, <2>3
<1> HIDE DEF cur, r
<1>4. /\ r = [f |-> r.f, hp |-> r.hp, last |-> r.last] /\ r.hp = cur + Wosize(f, cur) - n
      /\ Cut(f, r.f, n, prev, cur) /\ IsFl(r.f)
      /\ r.f.flp = IF whole /\ f.policy = "first fit" THEN TableFlp(f.flp, i, prev, cur) ELSE f.flp
      /\ r.f.beyond = IF whole /\ f.policy = "first fit" THEN TableBeyond(f.flp, f.beyond, i, prev, cur) ELSE f.beyond
  <2>1. r = AllocateBlock(f, n, i, prev, cur) /\ Wosize(f, cur) >= n
    BY DEF r, cur
  <2> QED
    <3>1. BlockCut(f, n, i, prev, cur, AllocateBlock(f, n, i, prev, cur))
      BY <1>2, <1>3, <2>1, AllocateBlockIs
    <3>2. BlockCut(f, n, i, prev, cur, r)
      BY <2>1, <3>1, Zenon
    <3> QED
      BY <3>2, Zenon DEF BlockCut
<1>5. /\ Threaded(r.f) /\ Blue(r.f) = IF whole THEN Blue(f) \ {cur} ELSE Blue(f)
  <2>1. cur = f.next[prev] /\ Wosize(f, cur) >= n
    BY DEF cur
  <2> QED
    <3>1. ListKept(f, r.f, n, cur)
      BY <1>2, <1>4, <2>1, CutKeepsList, ZenonT(30)
    <3> QED
      BY <3>1 DEF ListKept
<1>6. ~ whole => r.f.next = f.next
  BY <1>4 DEF Cut
<1>7. /\ r.f.flp = IF whole THEN TableFlp(f.flp, i, prev, cur) ELSE f.flp
      /\ r.f.beyond = IF whole THEN TableBeyond(f.flp, f.beyond, i, prev, cur) ELSE f.beyond
  BY <1>4, Zenon DEF FirstFitNow
<1> HIDE DEF whole
<1>8. /\ Cut(f, r.f, n, prev, cur) /\ IsFl(r.f) /\ Threaded(r.f)
      /\ r.hp = cur + Wosize(f, cur) - n /\ r = [f |-> r.f, hp |-> r.hp, last |-> r.last]
      /\ Blue(r.f) = IF whole THEN Blue(f) \ {cur} ELSE Blue(f)
      /\ r.f.flp = IF whole THEN TableFlp(f.flp, i, prev, cur) ELSE f.flp
      /\ r.f.beyond = IF whole THEN TableBeyond(f.flp, f.beyond, i, prev, cur) ELSE f.beyond
      /\ ~ whole => r.f.next = f.next
  BY <1>4, <1>5, <1>6, <1>7
<1> QED
  BY <1>8, Zenon DEF r, cur, whole, BlockTaken

\* The table is right up to the i-th entry.
TableFor(f, i) == /\ Entries(Blue(f), f.flp)
                  /\ Beyond(Blue(f), f.flp, f.beyond) \/ i = Len(f.flp)

\* The table after the block of the i-th entry was cut.
LEMMA UpdatedIs ==
  ASSUME NEW f, IsFl(f), Threaded(f), FirstFitNow(f), NEW n \in 1..Words, NEW i \in 1..Len(f.flp),
         TableFor(f, i), NEW prev, prev = f.flp[i], Wosize(f, f.next[prev]) >= n, NEW oldsz \in Nat,
         NEW g, IsFl(g), Threaded(g),
         NEW whole, whole <=> Wosize(f, f.next[prev]) < n + 2,
         Blue(g) = IF whole THEN Blue(f) \ {f.next[prev]} ELSE Blue(f),
         g.flp = IF whole THEN TableFlp(f.flp, i, prev, f.next[prev]) ELSE f.flp,
         g.beyond = IF whole THEN TableBeyond(f.flp, f.beyond, i, prev, f.next[prev]) ELSE f.beyond,
         ~ whole => g.next = f.next
  PROVE  Updates(g, IF i > Len(g.flp) THEN g ELSE IF i = Len(g.flp) THEN AtEnd(g, i) ELSE Inside(g, i, oldsz))
<1> DEFINE B == Blue(f)
           C == Blue(g)
           s == f.flp
           t == g.flp
           cur == f.next[prev]
           h == IF i > Len(t) THEN g ELSE IF i = Len(t) THEN AtEnd(g, i) ELSE Inside(g, i, oldsz)
<1>1. /\ s \in Seq(Spot) /\ t \in Seq(Spot) /\ B \in SUBSET Addr /\ C \in SUBSET Addr
      /\ Linked(f.next, B) /\ Linked(g.next, C) /\ Len(s) \in Nat /\ i \in Nat /\ i \in 1..Len(s)
  <2>1. s \in Seq(Spot) /\ t \in Seq(Spot)
    BY DEF IsFl
  <2>2. Len(s) \in Nat
    BY <2>1, LenProperties
  <2>3. Linked(f.next, B) /\ Linked(g.next, C)
    BY DEF Threaded
  <2> QED
    BY <2>1, <2>2, <2>3, BlueIs
<1>2. /\ Entries(B, s) /\ (Beyond(B, s, f.beyond) \/ i = Len(s)) /\ prev = s[i]
      /\ C = IF whole THEN B \ {cur} ELSE B
      /\ t = IF whole THEN TableFlp(s, i, prev, cur) ELSE s
      /\ g.beyond = IF whole THEN TableBeyond(s, f.beyond, i, prev, cur) ELSE f.beyond
      /\ ~ whole => g.next = f.next
  BY Zenon DEF TableFor
<1>3. prev \in B \cup {FlHead} /\ After(B, prev) # {} /\ prev \in Spot
  <2>1. prev \in B \cup {FlHead} /\ After(B, prev) # {}
    BY <1>1, <1>2 DEF Entries
  <2> QED
    BY <1>1, <2>1 DEF Spot
<1>4. cur \in B /\ cur # Null /\ cur \in Addr /\ NextBlock(B, prev, cur)
  BY <1>1, <1>3, EntryLeads
<1> SUFFICES Updates(g, h)
  BY DEF h, t
<1> HIDE DEF B, C, s, t, cur, h
<1>5. CASE i = Len(s) /\ whole
  <2>1. Len(s) # 0
    BY <1>1, <1>5
  <2>2. t = Front(s) /\ g.beyond = IF prev = FlHead THEN Null ELSE prev
    BY <1>1, <1>2, <1>5 DEF TableFlp, TableBeyond
  <2>3. Len(t) = Len(s) - 1
    BY <1>1, <2>1, <2>2, FrontIs
  <2>4. h = g
    BY <1>1, <1>5, <2>3 DEF h
  <2>5. Entries(C, Front(s)) /\ Beyond(C, Front(s), IF prev = FlHead THEN Null ELSE prev)
    <3>1. prev = s[Len(s)] /\ cur \in B /\ At(prev) < cur /\ C = B \ {cur}
      BY <1>2, <1>4, <1>5 DEF NextBlock
    <3> QED
      BY <1>1, <1>2, <2>1, <3>1, LastEntryGoes
  <2>6. Entries(Blue(g), g.flp) /\ Beyond(Blue(g), g.flp, g.beyond)
    BY <2>2, <2>5 DEF C, t
  <2> QED
    BY <2>4, <2>6, SameTable
<1>6. CASE i = Len(s) /\ ~ whole
  <2>1. Len(s) # 0 /\ t = s /\ C = B /\ g.next = f.next
    BY <1>1, <1>2, <1>6
  <2>2. h = AtEnd(g, i)
    BY <1>1, <1>6, <2>1 DEF h
  <2>3. NextBlock(C, s[i], g.next[s[i]])
    BY <1>2, <1>4, <2>1 DEF cur
  <2> QED
    BY <1>2, <1>6, <2>1, <2>2, <2>3, AtEndIs DEF C, t
<1>7. CASE i # Len(s)
  <2>1. i \in 1..Len(s) - 1 /\ i < Len(s)
    BY <1>1, <1>7
  <2>2. Redirected(s, t, i, prev, cur, B, C) /\ (C = B \/ C = B \ {cur})
    <3>1. CASE whole
      <4>1. C # B
        BY <1>2, <1>4, <3>1
      <4> QED
        BY <1>1, <1>2, <1>3, <2>1, <3>1, <4>1, TableIs
    <3>2. CASE ~ whole
      <4>1. C = B /\ t = s
        BY <1>2, <3>2
      <4> QED
        BY <4>1 DEF Redirected
    <3> QED
      BY <3>1, <3>2
  <2>3. g.beyond = f.beyond
    BY <1>2, <1>7 DEF TableBeyond
  <2>4. Beyond(B, s, f.beyond)
    BY <1>2, <1>7
  <2>5. Updates(g, Inside(g, i, oldsz))
    <3>1. Redirected(s, g.flp, i, prev, cur, B, C) /\ C = Blue(g)
      BY <2>2 DEF t, C
    <3>2. Linked(g.next, Blue(g))
      BY <1>1 DEF C
    <3> QED
      BY <1>1, <1>2, <1>4, <2>1, <2>2, <2>3, <2>4, <3>1, <3>2, InsideIs, ZenonT(30)
  <2>6. Len(t) = Len(s)
    BY <2>2 DEF Redirected
  <2>7. h = Inside(g, i, oldsz)
    BY <1>1, <2>1, <2>6 DEF h
  <2> QED
    BY <2>5, <2>7
<1> QED
  BY <1>5, <1>6, <1>7

\* After the update of the table too, the heap is as it should be.
LEMMA TakeIs ==
  ASSUME NEW f, IsFl(f), Threaded(f), FirstFitNow(f), NEW n \in 1..Words, NEW i \in 1..Len(f.flp),
         TableFor(f, i), NEW prev, prev = f.flp[i], Wosize(f, f.next[prev]) >= n, NEW oldsz \in Nat
  PROVE  TakenFrom(f, UpdateFlp(AllocateBlock(f, n, i, prev, f.next[prev]), i, oldsz), n, prev)
<1> DEFINE cur == f.next[prev]
           a == AllocateBlock(f, n, i, prev, cur)
           g == a.f
           h == IF i > Len(g.flp) THEN g ELSE IF i = Len(g.flp) THEN AtEnd(g, i) ELSE Inside(g, i, oldsz)
           r == UpdateFlp(a, i, oldsz)
           whole == Wosize(f, cur) < n + 2
<1>1. prev \in Blue(f) \cup {FlHead} /\ After(Blue(f), prev) # {}
  <2>1. Entries(Blue(f), f.flp)
    BY DEF TableFor
  <2> QED
    BY <2>1 DEF Entries
<1>2. i \in 1..Len(f.flp) + 1
  <2>1. Len(f.flp) \in Nat
    BY LenProperties DEF IsFl
  <2>2. \A x \in Nat : \A y \in 1..x : y \in 1..x + 1
    OBVIOUS
  <2> QED
    BY <2>1, <2>2
<1>3. Linked(f.next, Blue(f))
  BY DEF Threaded
<1>4. cur # Null /\ Wosize(f, cur) >= n
  BY <1>1, <1>3, EntryLeads
<1>5. /\ Cut(f, g, n, prev, cur) /\ IsFl(g) /\ Threaded(g)
      /\ a.hp = cur + Wosize(f, cur) - n
      /\ a = [f |-> g, hp |-> a.hp, last |-> a.last]
      /\ Blue(g) = IF whole THEN Blue(f) \ {cur} ELSE Blue(f)
      /\ g.flp = IF whole THEN TableFlp(f.flp, i, prev, cur) ELSE f.flp
      /\ g.beyond = IF whole THEN TableBeyond(f.flp, f.beyond, i, prev, cur) ELSE f.beyond
      /\ ~ whole => g.next = f.next
  <2>1. BlockTaken(f, n, i, prev, cur, a)
    BY <1>1, <1>2, TakenTable, ZenonT(30)
  <2> QED
    BY <2>1, Zenon DEF BlockTaken
<1>6. r = [a EXCEPT !.f = h]
  BY UpdateFlpIs
<1> HIDE DEF a, h, r
<1>7. r.f = h /\ r.hp = a.hp
  <2>1. ASSUME NEW x, NEW y, NEW z, NEW u, NEW v, u = [f |-> x, hp |-> y, last |-> z], NEW w, w = [u EXCEPT !.f = v]
        PROVE  w.f = v /\ w.hp = y
    BY <2>1
  <2>2. \A y, z : a = [f |-> a.f, hp |-> y, last |-> z] => r.f = h /\ r.hp = y
    BY <1>6, <2>1
  <2> QED
    BY <1>5, <2>2
<1>8. Updates(g, h)
  <2> HIDE DEF g
  <2>1. Updates(g, IF i > Len(g.flp) THEN g ELSE IF i = Len(g.flp) THEN AtEnd(g, i) ELSE Inside(g, i, oldsz))
    BY <1>5, UpdatedIs, ZenonT(30)
  <2> QED
    BY <2>1 DEF h
<1> HIDE DEF g
<1>9. Cut(f, h, n, prev, cur) /\ IsFl(h)
  <2>1. SameList(g, h) /\ IsFl(h)
    BY <1>8 DEF Updates
  <2> QED
    BY <1>5, <2>1, SameListIs
<1>10. Tabled(h)
  <2>1. Entries(Blue(g), h.flp) /\ Beyond(Blue(g), h.flp, h.beyond) /\ SameList(g, h)
    BY <1>8 DEF Updates
  <2>2. Blue(h) = Blue(g)
    BY <2>1 DEF SameList, Blue
  <2> QED
    BY <2>1, <2>2 DEF Tabled
<1>11. /\ cur # Null /\ Wosize(f, cur) >= n /\ Cut(f, r.f, n, prev, cur)
       /\ r.hp = cur + Wosize(f, cur) - n /\ IsFl(r.f) /\ Tabled(r.f)
  BY <1>4, <1>5, <1>7, <1>9, <1>10
<1> HIDE DEF cur
<1>12. TakenFrom(f, r, n, prev)
  BY <1>11 DEF TakenFrom, cur
<1> QED
  BY <1>12 DEF r, a, cur

\* r is the outcome of a search that found nothing.
Miss(f, r, n) ==
  /\ r.hp = Null /\ r.last = Last(List(f)) /\ SameList(f, r.f) /\ IsFl(r.f) /\ Tabled(r.f)
  /\ \A k \in 1..Len(r.f.flp) : FirstFitNow(f) => Wosize(f, f.next[r.f.flp[k]]) < n

NextFitNow(f) == f.policy = "next fit"

\* The policy is one of the two.
LEMMA TwoPolicies ==
  ASSUME NEW f, IsFl(f)
  PROVE  /\ NextFitNow(f) \/ FirstFitNow(f)
         /\ ~ (NextFitNow(f) /\ FirstFitNow(f))
         /\ NextFitNow(f) => Tabled(f) /\ TablePlace(f, 0)
         /\ FirstFitNow(f) => (Tabled(f) <=> Entries(Blue(f), f.flp) /\ Beyond(Blue(f), f.flp, f.beyond))
<1>1. f.policy \in {"next fit", "first fit"}
  BY DEF IsFl
<1>2. (NextFitNow(f) \/ FirstFitNow(f)) /\ ~ (NextFitNow(f) /\ FirstFitNow(f))
  BY <1>1 DEF NextFitNow, FirstFitNow
<1>3. NextFitNow(f) => ~ (f.policy = "first fit")
  BY DEF NextFitNow
<1>4. NextFitNow(f) => Tabled(f) /\ TablePlace(f, 0)
  BY <1>3, Zenon DEF Tabled, TablePlace
<1>5. FirstFitNow(f) => (Tabled(f) <=> Entries(Blue(f), f.flp) /\ Beyond(Blue(f), f.flp, f.beyond))
  BY Zenon DEF Tabled, FirstFitNow
<1> QED
  BY <1>2, <1>4, <1>5

\* A search that fails changes nothing but the table.
LEMMA NotFoundIs ==
  ASSUME NEW f, IsFl(f), NEW g, IsFl(g), SameList(f, g), Tabled(g), NEW n,
         \A k \in 1..Len(g.flp) : FirstFitNow(f) => Wosize(f, f.next[g.flp[k]]) < n
  PROVE  Miss(f, NotFound(g, Last(List(f))), n)
<1> DEFINE r == NotFound(g, Last(List(f)))
<1>1. r.f = g /\ r.hp = Null /\ r.last = Last(List(f))
  BY DEF NotFound
<1> HIDE DEF r
<1>2. Miss(f, r, n)
  BY <1>1, Zenon DEF Miss
<1> QED
  BY <1>2 DEF r

\* Next fit gives out a block if there is one that is large enough.
LEMMA NextFitIs ==
  ASSUME NEW f, IsFl(f), Threaded(f), NextFitNow(f), NEW n \in 1..Words
  PROVE  /\ Gives(f, NextFit(f, n), n) \/ Miss(f, NextFit(f, n), n)
         /\ (\E b \in Blue(f) : Wosize(f, b) >= n) => Gives(f, NextFit(f, n), n)
<1> DEFINE L == List(f)
           p == Place(L, f.prev)
           fit == {i \in 1..Len(L) - 1 : Wosize(f, L[i + 1]) >= n}
           ahead == {i \in fit : i >= p}
           i == Min(IF ahead # {} THEN ahead ELSE fit)
           r == NextFit(f, n)
<1>1. IsChain(f, L) /\ Linked(f.next, Blue(f))
  BY ListChain DEF Threaded
<1>2. r = IF fit = {} THEN NotFound(f, Last(L)) ELSE AllocateBlock(f, n, 0, L[i], L[i + 1])
  BY DEF NextFit
<1>3. CASE fit = {}
  <2>1. r = NotFound(f, Last(List(f)))
    BY <1>2, <1>3
  <2>2. SameList(f, f) /\ Tabled(f) /\ ~ FirstFitNow(f)
    BY TwoPolicies DEF SameList
  <2>3. Miss(f, NotFound(f, Last(List(f))), n)
    BY <2>2, NotFoundIs
  <2>4. ASSUME NEW b \in Blue(f), Wosize(f, b) >= n PROVE FALSE
    <3> DEFINE j == Place(L, b)
    <3>0. Len(L) \in Nat \ {0} /\ L[1] = FlHead
      BY <1>1 DEF IsChain
    <3>1. j \in 1..Len(L) /\ L[j] = b
      BY <1>1 DEF IsChain
    <3>2. b # FlHead
      BY BlueIs, Keys
    <3> HIDE DEF j, L
    <3>3. j - 1 \in 1..Len(L) - 1 /\ (j - 1) + 1 = j
      BY <3>0, <3>1, <3>2
    <3>4. j - 1 \in fit
      BY <2>4, <3>1, <3>3
    <3> QED
      BY <1>3, <3>4
  <2> QED
    BY <2>1, <2>3, <2>4
<1>4. CASE fit # {}
  <2>1. i \in fit
    <3> HIDE DEF p, L
    <3>1. fit \in SUBSET Nat /\ ahead \in SUBSET Nat /\ ahead \in SUBSET fit
      <4>1. Len(L) \in Nat
        BY <1>1 DEF IsChain
      <4> QED
        BY <4>1
    <3> HIDE DEF fit, ahead
    <3> DEFINE S == IF ahead # {} THEN ahead ELSE fit
    <3>2. S \in SUBSET Nat /\ S # {} /\ S \in SUBSET fit
      BY <1>4, <3>1
    <3> HIDE DEF S
    <3>3. Min(S) \in S
      BY <3>2, MinIs
    <3> QED
      BY <3>2, <3>3 DEF S
  <2> DEFINE prev == L[i]
             cur == f.next[prev]
  <2>2. i \in 1..Len(L) - 1 /\ Wosize(f, L[i + 1]) >= n
    BY <2>1
  <2> HIDE DEF i, fit, L
  <2>3. i \in 1..Len(L) /\ i + 1 \in 1..Len(L) /\ i < i + 1
    <3>1. Len(L) \in Nat
      BY <1>1 DEF IsChain
    <3> QED
      BY <2>2, <3>1
  <2>4. prev \in Blue(f) \cup {FlHead} /\ cur = L[i + 1] /\ L[i + 1] \in After(Blue(f), prev)
    BY <1>1, <2>2, <2>3 DEF IsChain
  <2>5. cur \in Blue(f) /\ cur # Null
    BY <1>1, <2>4, EntryLeads
  <2>6. prev \in Spot /\ TablePlace(f, 0) /\ 0 \in Nat
    BY <2>4, BlueIs, TwoPolicies DEF Spot
  <2>7. Wosize(f, cur) >= n
    BY <2>2, <2>4
  <2>8. r = AllocateBlock(f, n, 0, prev, cur)
    BY <1>2, <1>4, <2>4
  <2> HIDE DEF r, prev
  <2>9. BlockCut(f, n, 0, prev, cur, r)
    <3> HIDE DEF cur
    <3>1. BlockCut(f, n, 0, prev, cur, AllocateBlock(f, n, 0, prev, cur))
      BY <2>5, <2>6, <2>7, AllocateBlockIs
    <3> QED
      BY <2>8, <3>1, Zenon
  <2>10. /\ Cut(f, r.f, n, prev, cur) /\ r.hp = cur + Wosize(f, cur) - n /\ IsFl(r.f)
    BY <2>9 DEF BlockCut
  <2>11. Tabled(r.f)
    <3>1. NextFitNow(r.f)
      BY <2>10 DEF Cut, NextFitNow
    <3> QED
      BY <2>10, <3>1, TwoPolicies
  <2>12. TakenFrom(f, r, n, prev)
    BY <2>5, <2>7, <2>10, <2>11 DEF TakenFrom
  <2>13. Gives(f, r, n)
    BY <2>4, <2>12 DEF Gives
  <2> QED
    BY <2>13 DEF r
<1> QED
  BY <1>3, <1>4

\* The positions of the nodes are in the order of the addresses.
LEMMA ChainAt ==
  ASSUME NEW f, IsFl(f), Linked(f.next, Blue(f)), NEW L, L = List(f)
  PROVE  /\ L \in Seq(Spot) /\ Len(L) \in Nat \ {0} /\ L[1] = FlHead /\ Last(L) = L[Len(L)]
         /\ \A i \in 1..Len(L) : L[i] \in Blue(f) \cup {FlHead} /\ L[i] \in Spot /\ At(L[i]) \in Nat
                                 /\ (i # 1 => L[i] \in Blue(f) /\ At(L[i]) = L[i])
         /\ \A i, j \in 1..Len(L) : i < j <=> At(L[i]) < At(L[j])
         /\ \A i \in 1..Len(L) - 1 : f.next[L[i]] = L[i + 1] /\ After(Blue(f), L[i]) # {}
         /\ \A a \in Blue(f) \cup {FlHead} : Place(L, a) \in 1..Len(L) /\ L[Place(L, a)] = a
<1> DEFINE B == Blue(f)
<1>1. IsChain(f, L)
  BY ListChain
<1>2. /\ L \in Seq(Spot) /\ Len(L) \in Nat \ {0} /\ L[1] = FlHead /\ Last(L) = L[Len(L)]
      /\ \A i \in 1..Len(L) : L[i] \in B \cup {FlHead} /\ (i # 1 => L[i] \in B)
      /\ \A i, j \in 1..Len(L) : i < j => L[j] \in After(B, L[i])
      /\ \A i \in 1..Len(L) - 1 : f.next[L[i]] = L[i + 1]
      /\ \A a \in B \cup {FlHead} : Place(L, a) \in 1..Len(L) /\ L[Place(L, a)] = a
  BY <1>1 DEF IsChain
<1>3. B \in SUBSET Addr
  BY BlueIs
<1> HIDE DEF B
<1>4. \A i \in 1..Len(L) : L[i] \in Spot /\ At(L[i]) \in Nat /\ (i # 1 => At(L[i]) = L[i])
  BY <1>2, <1>3, Keys DEF Spot
<1>5. \A i, j \in 1..Len(L) : i < j => At(L[i]) < At(L[j])
  <2> SUFFICES ASSUME NEW i \in 1..Len(L), NEW j \in 1..Len(L), i < j PROVE At(L[i]) < At(L[j])
    OBVIOUS
  <2>1. j # 1 /\ L[j] \in After(B, L[i])
    BY <1>2
  <2> QED
    BY <1>3, <1>4, <2>1, AfterIs
<1>6. \A i, j \in 1..Len(L) : i < j <=> At(L[i]) < At(L[j])
  <2> SUFFICES ASSUME NEW i \in 1..Len(L), NEW j \in 1..Len(L), At(L[i]) < At(L[j]) PROVE i < j
    BY <1>5
  <2>1. i < j \/ i = j \/ j < i
    BY <1>2
  <2> QED
    BY <1>4, <1>5, <2>1
<1>7. \A i \in 1..Len(L) - 1 : After(B, L[i]) # {}
  <2> SUFFICES ASSUME NEW i \in 1..Len(L) - 1 PROVE After(B, L[i]) # {}
    OBVIOUS
  <2>1. i \in 1..Len(L) /\ i + 1 \in 1..Len(L) /\ i < i + 1
    BY <1>2
  <2>2. L[i + 1] \in After(B, L[i])
    BY <1>2, <2>1
  <2> QED
    BY <2>2
<1> QED
  BY <1>2, <1>4, <1>6, <1>7 DEF B

\* Where the search past the table starts.
StartOf(g) == IF g.beyond # Null THEN g.beyond ELSE Last(g.flp)

TooSmall(g, n) == \A k \in 1..Len(g.flp) : Wosize(g, g.next[g.flp[k]]) < n

\* The search goes on from a node that no entry is after.
LEMMA StartIs ==
  ASSUME NEW B \in SUBSET Addr, NEW s \in Seq(Spot), Entries(B, s), Len(s) # 0, NEW b \in Addr \cup {Null},
         Beyond(B, s, b), NEW a, a = IF b # Null THEN b ELSE Last(s)
  PROVE  /\ Last(s) = s[Len(s)] /\ Len(s) \in 1..Len(s) /\ Last(s) \in B \cup {FlHead}
         /\ a \in B \cup {FlHead} /\ At(a) \in Nat /\ \A k \in 1..Len(s) : At(s[k]) <= At(a) /\ At(s[k]) \in Nat
<1>1. Last(s) = s[Len(s)] /\ Len(s) \in 1..Len(s) /\ Len(s) \in Nat
  <2>1. Len(s) \in Nat
    BY LenProperties
  <2>2. \A x \in Nat : x # 0 => x \in 1..x
    OBVIOUS
  <2> QED
    BY <2>1, <2>2 DEF Last
<1>2. /\ \A k \in 1..Len(s) : s[k] \in B \cup {FlHead} /\ s[k] \in Spot /\ At(s[k]) \in Nat
      /\ \A k, l \in 1..Len(s) : k < l => s[l] \in B /\ At(s[k]) < s[l]
      /\ b # Null => b \in B /\ \A k \in 1..Len(s) : At(s[k]) < b
  BY EntriesAre, Keys DEF Spot
<1>3. CASE b # Null
  <2>1. At(b) = b /\ b \in Nat /\ a = b /\ b \in B
    BY <1>2, <1>3, Keys
  <2>2. \A k \in 1..Len(s) : At(s[k]) <= At(a)
    BY <1>2, <1>3, <2>1
  <2> QED
    BY <1>1, <1>2, <2>1, <2>2
<1>4. CASE b = Null
  <2> DEFINE N == Len(s)
  <2>1. a = s[N] /\ N \in Nat /\ N \in 1..N
    BY <1>1, <1>4
  <2>2. \A k \in 1..N : k = N \/ k < N
    BY <2>1
  <2>3. ASSUME NEW k \in 1..N PROVE At(s[k]) <= At(a)
    <3>1. CASE k = N
      BY <1>2, <2>1, <3>1
    <3>2. CASE k < N
      <4>1. s[N] \in B /\ At(s[k]) < s[N] /\ At(s[k]) \in Nat
        BY <1>2, <2>1, <3>2
      <4>2. At(s[N]) = s[N] /\ s[N] \in Nat
        BY <4>1, Keys
      <4> QED
        BY <2>1, <4>1, <4>2
    <3> QED
      BY <2>2, <3>1, <3>2
  <2>4. a \in B \cup {FlHead} /\ At(a) \in Nat
    BY <1>2, <2>1
  <2> QED
    BY <1>1, <1>2, <2>3, <2>4
<1> QED
  BY <1>3, <1>4

\* The table when a block that no entry leads to is taken.
LEMMA OtherTaken ==
  ASSUME NEW B \in SUBSET Addr, NEW next, Linked(next, B), NEW s \in Seq(Spot), Entries(B, s), Len(s) # 0, NEW b,
         Beyond(B, s, b), NEW cur \in B, \A k \in 1..Len(s) : At(s[k]) < cur, b # cur, next[s[Len(s)]] # cur
  PROVE  Entries(B \ {cur}, s) /\ Beyond(B \ {cur}, s, b)
<1> DEFINE C == B \ {cur}
           N == Len(s)
<1>1. N \in Nat /\ N \in 1..N /\ C \in SUBSET Addr /\ cur \in Nat /\ cur # FlHead /\ At(cur) = cur
  <2>1. N \in Nat
    BY LenProperties
  <2>2. \A x \in Nat : x # 0 => x \in 1..x
    OBVIOUS
  <2> QED
    BY <2>1, <2>2, Keys
<1>2. \A k \in 1..N : s[k] \in B \cup {FlHead} /\ After(B, s[k]) # {} /\ s[k] # cur /\ s[k] \in Spot
  <2>1. \A k \in 1..N : s[k] \in B \cup {FlHead} /\ After(B, s[k]) # {} /\ s[k] \in Spot
    BY DEF Entries
  <2>2. \A k \in 1..N : s[k] # cur
    BY <1>1
  <2> QED
    BY <2>1, <2>2
<1> HIDE DEF N
<1>3. After(C, s[N]) # {}
  <2>1. next[s[N]] \in After(B, s[N]) /\ next[s[N]] # cur
    BY <1>1, <1>2, NextIs DEF N
  <2> QED
    BY <2>1 DEF After
<1>4. Entries(C, s)
  BY <1>1, <1>2, <1>3, EntriesIn DEF N
<1>5. Beyond(C, s, b)
  BY DEF Beyond, After
<1> QED
  BY <1>4, <1>5

\* The parts of SlowFirstFit.
SlowFit(g, n) == {i \in Place(List(g), StartOf(g)) + 1..Len(List(g)) : Wosize(g, List(g)[i]) >= n}
SlowStop(g, n) == IF SlowFit(g, n) = {} THEN Len(List(g)) + 1 ELSE Min(SlowFit(g, n))
SlowSmall(g, n) == {i \in Place(List(g), StartOf(g)) + 1..SlowStop(g, n) - 1 :
                      Wosize(g, List(g)[i]) < Wosize(g, g.next[Last(g.flp)])}
SlowBeyond(g, n) == IF SlowSmall(g, n) = {} THEN g.beyond ELSE List(g)[Max(SlowSmall(g, n))]
SlowPlace(g, n) == List(g)[SlowStop(g, n)]

\* The cases of the search past a full table.
LEMMA SlowFirstFitIs ==
  ASSUME NEW g, NEW n
  PROVE  SlowFirstFit(g, n) =
           IF SlowFit(g, n) = {} THEN NotFound([g EXCEPT !.beyond = SlowBeyond(g, n)], Last(List(g)))
           ELSE AllocateBlock([g EXCEPT !.beyond = SlowBeyond(g, n)], n, Len(g.flp) + 1,
                              List(g)[SlowStop(g, n) - 1], SlowPlace(g, n))
<1>1. [g EXCEPT !.beyond = IF SlowSmall(g, n) = {} THEN @ ELSE List(g)[Max(SlowSmall(g, n))]]
      = [g EXCEPT !.beyond = SlowBeyond(g, n)]
  BY Zenon DEF SlowBeyond
<1>2. Len([g EXCEPT !.beyond = SlowBeyond(g, n)].flp) = Len(g.flp)
  OBVIOUS
<1> QED
  BY <1>1, <1>2, Zenon DEF SlowFirstFit, SlowFit, SlowStop, SlowSmall, StartOf, SlowPlace

\* Where the slow search goes.
LEMMA SlowPlaces ==
  ASSUME NEW g, IsFl(g), Linked(g.next, Blue(g)), Len(g.flp) # 0, Entries(Blue(g), g.flp),
         Beyond(Blue(g), g.flp, g.beyond), NEW n \in 1..Words
  PROVE  /\ SlowBeyond(g, n) \in Addr \cup {Null} /\ Beyond(Blue(g), g.flp, SlowBeyond(g, n))
         /\ SlowFit(g, n) # {} =>
              /\ SlowStop(g, n) - 1 \in 1..Len(List(g)) - 1 /\ SlowStop(g, n) \in 2..Len(List(g))
              /\ Wosize(g, SlowPlace(g, n)) >= n /\ SlowBeyond(g, n) # SlowPlace(g, n)
              /\ \A k \in 1..Len(g.flp) : At(g.flp[k]) < SlowPlace(g, n)
         /\ \A b \in Blue(g) : Wosize(g, b) >= n /\ At(StartOf(g)) < b => SlowFit(g, n) # {}
<1> DEFINE L == List(g)
           B == Blue(g)
           s == g.flp
           a == StartOf(g)
           p == Place(L, a)
           N == Len(L)
           fit == SlowFit(g, n)
           stop == SlowStop(g, n)
           small == SlowSmall(g, n)
           bb == SlowBeyond(g, n)
<1>1. B \in SUBSET Addr /\ s \in Seq(Spot) /\ g.beyond \in Addr \cup {Null}
  BY BlueIs DEF IsFl
<1>2. /\ L \in Seq(Spot) /\ N \in Nat \ {0} /\ L[1] = FlHead
      /\ \A i \in 1..N : L[i] \in B \cup {FlHead} /\ At(L[i]) \in Nat
                                 /\ (i # 1 => L[i] \in B /\ At(L[i]) = L[i])
      /\ \A i, j \in 1..N : i < j <=> At(L[i]) < At(L[j])
      /\ \A x \in B \cup {FlHead} : Place(L, x) \in 1..N /\ L[Place(L, x)] = x
  BY ChainAt
<1>3. a \in B \cup {FlHead} /\ At(a) \in Nat /\ \A k \in 1..Len(s) : At(s[k]) <= At(a) /\ At(s[k]) \in Nat
  <2>1. a = IF g.beyond # Null THEN g.beyond ELSE Last(s)
    BY DEF StartOf
  <2> HIDE DEF B, s, a
  <2> QED
    BY <1>1, <2>1, StartIs DEF B, s
<1>4. p \in 1..N /\ L[p] = a
  BY <1>2, <1>3
<1>5. /\ fit = {i \in p + 1..N : Wosize(g, L[i]) >= n}
      /\ stop = IF fit = {} THEN N + 1 ELSE Min(fit)
      /\ small = {i \in p + 1..stop - 1 : Wosize(g, L[i]) < Wosize(g, g.next[Last(s)])}
      /\ bb = IF small = {} THEN g.beyond ELSE L[Max(small)]
      /\ SlowPlace(g, n) = L[stop]
  BY DEF SlowFit, SlowStop, SlowSmall, SlowBeyond, SlowPlace
<1> HIDE DEF L, B, s, a, p, N, fit, stop, small, bb
<1>6. fit \in SUBSET Nat /\ (fit # {} => stop \in fit)
  <2>1. fit \in SUBSET Nat
    BY <1>2, <1>4, <1>5
  <2>2. fit # {} => Min(fit) \in fit
    BY <2>1, MinIs
  <2> QED
    BY <1>5, <2>1, <2>2
<1>7. stop \in p + 1..N + 1 /\ (fit # {} => stop \in p + 1..N /\ Wosize(g, L[stop]) >= n)
  <2>1. p \in Nat /\ N \in Nat /\ p <= N
    BY <1>2, <1>4
  <2>2. CASE fit = {}
    <3>1. stop = N + 1
      BY <1>5, <2>2
    <3> QED
      BY <2>1, <2>2, <3>1
  <2>3. CASE fit # {}
    <3>1. stop \in p + 1..N /\ Wosize(g, L[stop]) >= n
      BY <1>5, <1>6, <2>3
    <3> QED
      BY <2>1, <3>1
  <2> QED
    BY <2>2, <2>3
<1>8. small # {} => Max(small) \in small
  <2>1. small \in SUBSET Nat /\ N \in Nat /\ \A k \in small : k <= N
    <3>1. p \in Nat /\ N \in Nat
      BY <1>2, <1>4
    <3>2. stop \in Nat /\ stop <= N + 1
      BY <1>7, <3>1
    <3>3. \A k \in p + 1..stop - 1 : k \in Nat /\ k <= N
      BY <3>1, <3>2
    <3> QED
      BY <1>5, <3>1, <3>3
  <2> QED
    BY <2>1, MaxIs
<1>9. small # {} => Max(small) \in p + 1..stop - 1
  BY <1>5, <1>8
<1>10. \A i \in p + 1..N : /\ i \in 1..N /\ i # 1 /\ L[i] \in B /\ L[i] \in Nat /\ At(a) < L[i]
                           /\ \A k \in 1..Len(s) : At(s[k]) < L[i]
  <2> SUFFICES ASSUME NEW i \in p + 1..N
               PROVE  /\ i \in 1..N /\ i # 1 /\ L[i] \in B /\ L[i] \in Nat /\ At(a) < L[i]
                      /\ \A k \in 1..Len(s) : At(s[k]) < L[i]
    OBVIOUS
  <2>1. i \in 1..N /\ i # 1 /\ p < i
    BY <1>2, <1>4
  <2>2. L[i] \in B /\ At(L[i]) = L[i] /\ At(L[i]) \in Nat
    BY <1>2, <2>1
  <2>3. At(a) < At(L[i])
    BY <1>2, <1>4, <2>1
  <2>4. At(a) < L[i] /\ L[i] \in Nat
    BY <2>2, <2>3
  <2>5. \A k \in 1..Len(s) : At(s[k]) < L[i]
    BY <1>3, <2>4
  <2> QED
    BY <2>1, <2>2, <2>4, <2>5
<1>11. bb \in Addr \cup {Null} /\ Beyond(B, s, bb)
  <2>1. CASE small = {}
    <3>1. bb = g.beyond
      BY <1>5, <2>1
    <3> QED
      BY <1>1, <3>1 DEF B, s
  <2>2. CASE small # {}
    <3>1. bb = L[Max(small)] /\ Max(small) \in p + 1..N
      <4>1. p \in Nat /\ N \in Nat
        BY <1>2, <1>4
      <4>2. stop \in Nat /\ stop <= N + 1
        BY <1>7, <4>1
      <4>3. \A k \in p + 1..stop - 1 : k \in p + 1..N
        BY <4>1, <4>2
      <4> QED
        BY <1>5, <1>9, <2>2, <4>3
    <3>2. bb \in B /\ \A k \in 1..Len(s) : At(s[k]) < bb
      BY <1>10, <3>1
    <3>3. Beyond(B, s, bb)
      BY <1>1, <3>2, EntriesAre
    <3> QED
      BY <1>1, <3>2, <3>3
  <2> QED
    BY <2>1, <2>2
<1>12. fit # {} =>
         /\ stop - 1 \in 1..N - 1 /\ stop \in 2..N /\ Wosize(g, L[stop]) >= n /\ bb # L[stop]
         /\ \A k \in 1..Len(s) : At(s[k]) < L[stop]
  <2> SUFFICES ASSUME fit # {}
               PROVE  /\ stop - 1 \in 1..N - 1 /\ stop \in 2..N /\ Wosize(g, L[stop]) >= n /\ bb # L[stop]
                      /\ \A k \in 1..Len(s) : At(s[k]) < L[stop]
    OBVIOUS
  <2>1. stop \in p + 1..N /\ Wosize(g, L[stop]) >= n
    BY <1>7
  <2>2. stop - 1 \in 1..N - 1 /\ stop \in 2..N
    BY <1>2, <1>4, <2>1
  <2>3. \A k \in 1..Len(s) : At(s[k]) < L[stop]
    BY <1>10, <2>1
  <2>4. L[stop] \in Nat /\ At(a) < L[stop] /\ L[stop] \in Addr
    BY <1>1, <1>10, <2>1
  <2>5. bb # L[stop]
    <3>1. CASE small = {}
      <4>1. bb = g.beyond
        BY <1>5, <3>1
      <4>2. CASE g.beyond = Null
        BY <2>4, <4>1, <4>2, Spots
      <4>3. CASE g.beyond # Null
        <5>1. a = bb /\ a \in Addr
          BY <1>1, <4>1, <4>3 DEF StartOf, a
        <5>2. At(a) = a
          BY <5>1, Keys
        <5> QED
          BY <1>3, <2>4, <5>1, <5>2
      <4> QED
        BY <4>2, <4>3
    <3>2. CASE small # {}
      <4> DEFINE m == Max(small)
      <4>1. bb = L[m] /\ m \in p + 1..stop - 1
        BY <1>5, <1>9, <3>2
      <4> HIDE DEF m
      <4>2. m \in p + 1..N /\ m < stop /\ m \in 1..N /\ stop \in 1..N /\ m # 1 /\ stop # 1
        BY <1>2, <1>4, <2>1, <4>1
      <4>3. At(L[m]) < At(L[stop]) /\ At(L[m]) = L[m] /\ At(L[stop]) = L[stop] /\ At(L[m]) \in Nat
        BY <1>2, <4>2
      <4> QED
        BY <4>1, <4>3
    <3> QED
      BY <3>1, <3>2
  <2> QED
    BY <2>1, <2>2, <2>3, <2>5
<1>13. \A b \in B : Wosize(g, b) >= n /\ At(a) < b => fit # {}
  <2> SUFFICES ASSUME NEW b \in B, Wosize(g, b) >= n, At(a) < b PROVE fit # {}
    OBVIOUS
  <2> DEFINE j == Place(L, b)
  <2>1. j \in 1..N /\ L[j] = b /\ b # FlHead /\ At(b) = b
    <3>1. b \in Addr
      BY <1>1
    <3> QED
      BY <1>2, <3>1, Keys
  <2> HIDE DEF j
  <2>2. p < j
    BY <1>2, <1>4, <2>1
  <2>3. j \in p + 1..N
    BY <1>2, <1>4, <2>1, <2>2
  <2> QED
    BY <1>5, <2>1, <2>3
<1> QED
  BY <1>5, <1>11, <1>12, <1>13 DEF L, B, s, a, N, fit, stop, bb

\* The search past a full table finds what fits after the place it starts at.
LEMMA SlowIs ==
  ASSUME NEW g, IsFl(g), Threaded(g), FirstFitNow(g), Len(g.flp) # 0, Entries(Blue(g), g.flp),
         Beyond(Blue(g), g.flp, g.beyond), NEW n \in 1..Words, TooSmall(g, n)
  PROVE  /\ Gives(g, SlowFirstFit(g, n), n) \/ Miss(g, SlowFirstFit(g, n), n)
         /\ \A b \in Blue(g) : Wosize(g, b) >= n /\ At(StartOf(g)) < b => Gives(g, SlowFirstFit(g, n), n)
<1> DEFINE bb == SlowBeyond(g, n)
           h == [g EXCEPT !.beyond = bb]
           r == SlowFirstFit(g, n)
           L == List(g)
           cur == SlowPlace(g, n)
           prev == L[SlowStop(g, n) - 1]
<1>0. Linked(g.next, Blue(g)) /\ Blue(g) \in SUBSET Addr /\ g.flp \in Seq(Spot) /\ Len(g.flp) <= FLP_MAX
      /\ Len(g.flp) \in Nat
  <2>1. Linked(g.next, Blue(g)) /\ Blue(g) \in SUBSET Addr /\ g.flp \in Seq(Spot) /\ Len(g.flp) <= FLP_MAX
    BY BlueIs DEF Threaded, IsFl
  <2> QED
    BY <2>1, LenProperties
<1>1. /\ bb \in Addr \cup {Null} /\ Beyond(Blue(g), g.flp, bb)
      /\ SlowFit(g, n) # {} =>
              /\ SlowStop(g, n) - 1 \in 1..Len(L) - 1 /\ SlowStop(g, n) \in 2..Len(L)
              /\ Wosize(g, cur) >= n /\ bb # cur
              /\ \A k \in 1..Len(g.flp) : At(g.flp[k]) < cur
      /\ \A b \in Blue(g) : Wosize(g, b) >= n /\ At(StartOf(g)) < b => SlowFit(g, n) # {}
  BY <1>0, SlowPlaces
<1>2. r = IF SlowFit(g, n) = {} THEN NotFound(h, Last(L)) ELSE AllocateBlock(h, n, Len(g.flp) + 1, prev, cur)
  BY SlowFirstFitIs
<1>3. IsFl(h) /\ SameList(g, h) /\ h.flp = g.flp /\ h.beyond = bb
  <2> HIDE DEF bb
  <2> DEFINE s == g.flp
  <2>1. s \in Seq(Spot) /\ Len(s) <= FLP_MAX
    BY <1>0
  <2> HIDE DEF s
  <2>2. /\ IsFl([g EXCEPT !.flp = s, !.beyond = bb]) /\ SameList(g, [g EXCEPT !.flp = s, !.beyond = bb])
        /\ [g EXCEPT !.flp = s, !.beyond = bb].flp = s /\ [g EXCEPT !.flp = s, !.beyond = bb].beyond = bb
        /\ [g EXCEPT !.flp = g.flp, !.beyond = bb] = [g EXCEPT !.beyond = bb]
    BY <1>1, <2>1, NewTable
  <2> QED
    BY <2>2 DEF s
<1>4. Blue(h) = Blue(g) /\ Threaded(h) /\ List(h) = L /\ \A b : Wosize(h, b) = Wosize(g, b)
  BY <1>3, SameListIs
<1>5. h.policy = "first fit" /\ h.next = g.next /\ FirstFitNow(h)
  BY <1>3 DEF SameList, FirstFitNow
<1> HIDE DEF h, bb, r, cur, prev
<1>6. CASE SlowFit(g, n) = {}
  <2>1. r = NotFound(h, Last(L))
    BY <1>2, <1>6
  <2>2. Tabled(h)
    BY <1>1, <1>3, <1>4 DEF Tabled
  <2>3. \A k \in 1..Len(h.flp) : FirstFitNow(g) => Wosize(g, g.next[h.flp[k]]) < n
    BY <1>3 DEF TooSmall
  <2>4. Miss(g, NotFound(h, Last(List(g))), n)
    BY <1>3, <2>2, <2>3, NotFoundIs
  <2> QED
    BY <1>1, <1>6, <2>1, <2>4 DEF r
<1>7. CASE SlowFit(g, n) # {}
  <2>1. r = AllocateBlock(h, n, Len(g.flp) + 1, prev, cur)
    BY <1>2, <1>7
  <2>2. prev \in Blue(g) \cup {FlHead} /\ cur = g.next[prev] /\ After(Blue(g), prev) # {}
    <3> DEFINE j == SlowStop(g, n) - 1
    <3>1. j \in 1..Len(L) - 1 /\ SlowStop(g, n) \in Nat
      BY <1>1, <1>7
    <3>2. j + 1 = SlowStop(g, n) /\ cur = L[SlowStop(g, n)] /\ prev = L[j]
      BY <3>1 DEF SlowPlace, cur, prev
    <3>3. /\ Len(L) \in Nat /\ \A i \in 1..Len(L) : L[i] \in Blue(g) \cup {FlHead}
          /\ \A i \in 1..Len(L) - 1 : g.next[L[i]] = L[i + 1] /\ After(Blue(g), L[i]) # {}
      <4>1. Len(L) \in Nat /\ \A i \in 1..Len(L) : L[i] \in Blue(g) \cup {FlHead}
        BY <1>0, ChainAt
      <4>2. ASSUME NEW i \in 1..Len(L) - 1 PROVE g.next[L[i]] = L[i + 1] /\ After(Blue(g), L[i]) # {}
        <5>1. IsChain(g, L)
          BY <1>0, ListChain
        <5>2. i \in 1..Len(L) /\ i + 1 \in 1..Len(L) /\ i < i + 1
          BY <4>1
        <5>3. g.next[L[i]] = L[i + 1] /\ L[i + 1] \in After(Blue(g), L[i])
          <6> HIDE DEF L
          <6> QED
            BY <5>1, <5>2 DEF IsChain
        <5> QED
          BY <5>3
      <4> QED
        BY <4>1, <4>2
    <3> HIDE DEF j, L
    <3>4. j \in 1..Len(L)
      BY <3>1, <3>3
    <3>5. L[j] \in Blue(g) \cup {FlHead} /\ g.next[L[j]] = L[j + 1] /\ After(Blue(g), L[j]) # {}
      BY <3>1, <3>3, <3>4
    <3> QED
      BY <3>2, <3>5
  <2>3. cur \in Blue(g) /\ cur # Null
    BY <1>0, <2>2, EntryLeads
  <2> DEFINE i == Len(h.flp) + 1
  <2>4. i \in 1..Len(h.flp) + 1 /\ i = Len(g.flp) + 1 /\ i # Len(h.flp) /\ ~ (i < Len(h.flp))
    BY <1>0, <1>3
  <2> HIDE DEF i
  <2>5. BlockTaken(h, n, i, prev, h.next[prev], AllocateBlock(h, n, i, prev, h.next[prev]))
    <3>1. prev \in Blue(h) \cup {FlHead} /\ After(Blue(h), prev) # {} /\ Wosize(h, h.next[prev]) >= n
      BY <1>1, <1>4, <1>5, <1>7, <2>2
    <3> QED
      BY <1>3, <1>4, <1>5, <2>4, <3>1, TakenTable
  <2>6. BlockTaken(h, n, i, prev, cur, r)
    BY <1>5, <2>1, <2>2, <2>4, <2>5
  <2>7. /\ Cut(h, r.f, n, prev, cur) /\ IsFl(r.f) /\ r.hp = cur + Wosize(h, cur) - n
        /\ Blue(r.f) = IF Wosize(h, cur) < n + 2 THEN Blue(h) \ {cur} ELSE Blue(h)
        /\ r.f.flp = IF Wosize(h, cur) < n + 2 THEN TableFlp(h.flp, i, prev, cur) ELSE h.flp
        /\ r.f.beyond = IF Wosize(h, cur) < n + 2 THEN TableBeyond(h.flp, h.beyond, i, prev, cur) ELSE h.beyond
    BY <2>6 DEF BlockTaken
  <2>8. r.f.flp = g.flp /\ r.f.beyond = bb
    BY <1>3, <2>4, <2>7 DEF TableFlp, TableBeyond
  <2>9. Entries(Blue(r.f), g.flp) /\ Beyond(Blue(r.f), g.flp, bb)
    <3>1. CASE Wosize(h, cur) < n + 2
      <4>1. Blue(r.f) = Blue(g) \ {cur}
        BY <1>4, <2>7, <3>1
      <4> DEFINE s == g.flp
                 B == Blue(g)
                 next == g.next
      <4>2. next[s[Len(s)]] # cur
        <5>1. Len(s) \in 1..Len(s)
          BY <1>0
        <5>2. Wosize(g, next[s[Len(s)]]) < n /\ Wosize(g, cur) >= n
          BY <1>1, <1>7, <5>1 DEF TooSmall
        <5>3. Wosize(g, cur) \in Nat /\ n \in Nat
          BY <2>3, Sizes
        <5> QED
          BY <5>2, <5>3
      <4>3. /\ B \in SUBSET Addr /\ Linked(next, B) /\ s \in Seq(Spot) /\ Entries(B, s) /\ Len(s) # 0
            /\ Beyond(B, s, bb) /\ cur \in B /\ bb # cur /\ \A k \in 1..Len(s) : At(s[k]) < cur
        BY <1>0, <1>1, <1>7, <2>3
      <4> HIDE DEF s, B, next
      <4>4. Entries(B \ {cur}, s) /\ Beyond(B \ {cur}, s, bb)
        BY <4>2, <4>3, OtherTaken
      <4> QED
        BY <4>1, <4>4 DEF s, B
    <3>2. CASE ~ (Wosize(h, cur) < n + 2)
      BY <1>1, <1>4, <2>7, <3>2
    <3> QED
      BY <3>1, <3>2
  <2>10. Tabled(r.f)
    BY <2>8, <2>9 DEF Tabled
  <2>11. TakenFrom(g, r, n, prev)
    <3>1. Cut(g, r.f, n, prev, cur)
      BY <1>3, <2>7, SameListIs
    <3>2. r.hp = cur + Wosize(g, cur) - n
      BY <1>4, <2>7
    <3> QED
      BY <1>1, <1>7, <2>2, <2>3, <2>7, <2>10, <3>1, <3>2 DEF TakenFrom
  <2>12. Gives(g, r, n)
    BY <2>2, <2>11 DEF Gives
  <2> QED
    BY <2>12 DEF r
<1> QED
  BY <1>6, <1>7

-----------------------------------------------------------------------------
(* The first-fit search *)

\* The parts of FirstFit.
Hits(f, n) == {i \in 1..Len(f.flp) : Wosize(f, f.next[f.flp[i]]) >= n}
Known(f) == IF Len(f.flp) = 0 THEN FlHead ELSE f.next[Last(f.flp)]
StartNode(f) == IF Len(f.flp) > 0 /\ f.beyond # Null THEN f.beyond ELSE Known(f)
NewPlaces(f) == Maxima(f, List(f), Place(List(f), StartNode(f)) + 1..Len(List(f)), Wosize(f, Known(f)))
SmallOnes(f, n) == Smaller(f, List(f), NewPlaces(f), n)
GrownFlp(f, k) == f.flp \o Prevs(List(f), SubSeq(NewPlaces(f), 1, k))
GrownTo(f, k, b) == [[f EXCEPT !.flp = GrownFlp(f, k)] EXCEPT !.beyond = b]
LastNode(f) == IF Last(List(f)) = FlHead THEN Null ELSE Last(List(f))
TakeEntry(g, n, i) == UpdateFlp(AllocateBlock(g, n, i, g.flp[i], g.next[g.flp[i]]), i, Wosize(g, g.next[g.flp[i]]))

\* The cases of the first-fit search.
LEMMA FirstFitParts ==
  ASSUME NEW f, NEW n
  PROVE  LET new == NewPlaces(f)
             small == SmallOnes(f, n)
             room == FLP_MAX - Len(f.flp)
         IN  FirstFit(f, n) =
               IF Hits(f, n) # {} THEN TakeEntry(f, n, Min(Hits(f, n)))
               ELSE IF small >= room
               THEN SlowFirstFit(GrownTo(f, room, IF room = 0 THEN Null ELSE List(f)[new[room]]), n)
               ELSE IF small = Len(new) THEN NotFound(GrownTo(f, small, LastNode(f)), Last(List(f)))
               ELSE TakeEntry(GrownTo(f, small + 1, List(f)[new[small + 1]]), n, Len(f.flp) + small + 1)
BY Zenon DEF FirstFit, TakeEntry, Hits, Known, StartNode, NewPlaces, SmallOnes, LastNode, GrownTo, GrownFlp

\* Where the search goes on, and what is known to be before it.
LEMMA StartNodeIs ==
  ASSUME NEW f, IsFl(f), Linked(f.next, Blue(f)), Entries(Blue(f), f.flp), Beyond(Blue(f), f.flp, f.beyond)
  PROVE  /\ StartNode(f) \in Blue(f) \cup {FlHead} /\ At(StartNode(f)) \in Nat
         /\ \A k \in 1..Len(f.flp) : At(f.flp[k]) < At(StartNode(f))
         /\ Wosize(f, Known(f)) \in Nat
<1> DEFINE s == f.flp
           B == Blue(f)
           next == f.next
           N == Len(s)
<1>1. B \in SUBSET Addr /\ s \in Seq(Spot) /\ f.beyond \in Addr \cup {Null} /\ N \in Nat
  <2>1. B \in SUBSET Addr /\ s \in Seq(Spot) /\ f.beyond \in Addr \cup {Null}
    BY BlueIs DEF IsFl
  <2> QED
    BY <2>1, LenProperties
<1>2. CASE N = 0
  <2>1. StartNode(f) = FlHead /\ Known(f) = FlHead
    BY <1>2 DEF StartNode, Known
  <2>2. At(FlHead) \in Nat /\ Wosize(f, FlHead) = 0
    BY Keys, Sizes
  <2> QED
    BY <1>2, <2>1, <2>2
<1>3. CASE N # 0
  <2>1. N \in 1..N /\ Last(s) = s[N] /\ s[N] \in B \cup {FlHead} /\ N > 0
    <3>1. N \in 1..N /\ N > 0
      BY <1>1, <1>3
    <3> QED
      BY <3>1 DEF Last, Entries
  <2>2. After(B, s[N]) # {}
    BY <2>1 DEF Entries
  <2> DEFINE e == next[s[N]]
  <2>3. e \in B /\ e \in After(B, s[N]) /\ e # Null
    <3>1. e # Null
      BY <1>1, <2>1, <2>2, NextIs
    <3> QED
      BY <1>1, <2>1, <3>1, NextIs
  <2>4. Known(f) = e
    BY <1>3, <2>1 DEF Known
  <2>5. \A k \in 1..N : s[k] \in Spot /\ At(s[k]) \in Nat /\ At(s[k]) < e
    <3>1. Beyond(B, s, e)
      <4> HIDE DEF e, s, B
      <4> QED
        BY <1>1, <2>3, BeyondLast DEF s, B, N
    <3>2. \A k \in 1..N : At(s[k]) < e
      BY <1>1, <2>3, <3>1, EntriesAre
    <3>3. \A k \in 1..N : s[k] \in Spot
      BY <1>1
    <3> QED
      BY <3>2, <3>3, Keys
  <2>6. Wosize(f, Known(f)) \in Nat
    BY <2>3, <2>4, Sizes
  <2>7. CASE f.beyond # Null
    <3>1. StartNode(f) = f.beyond
      BY <2>1, <2>7 DEF StartNode
    <3>2. f.beyond \in B /\ \A k \in 1..N : At(s[k]) < f.beyond
      BY <1>1, <2>7, EntriesAre
    <3>3. At(f.beyond) = f.beyond /\ f.beyond \in Nat
      BY <1>1, <3>2, Keys
    <3> QED
      BY <2>6, <3>1, <3>2, <3>3
  <2>8. CASE f.beyond = Null
    <3>1. StartNode(f) = e
      BY <2>4, <2>8 DEF StartNode
    <3>2. At(e) = e /\ e \in Nat
      BY <1>1, <2>3, Keys
    <3> QED
      BY <2>3, <2>5, <2>6, <3>1, <3>2
  <2> QED
    BY <2>7, <2>8
<1> QED
  BY <1>2, <1>3

\* The last node comes after every entry.
LEMMA LastNodeIs ==
  ASSUME NEW f, IsFl(f), Linked(f.next, Blue(f)), NEW s \in Seq(Spot), Entries(Blue(f), s)
  PROVE  Beyond(Blue(f), s, LastNode(f)) /\ LastNode(f) \in Addr \cup {Null}
<1> DEFINE L == List(f)
           N == Len(L)
           B == Blue(f)
<1>1. /\ N \in Nat \ {0} /\ Last(L) = L[N]
      /\ \A i \in 1..N : L[i] \in B \cup {FlHead}
      /\ \A i, j \in 1..N : i < j <=> At(L[i]) < At(L[j])
      /\ \A a \in B \cup {FlHead} : Place(L, a) \in 1..N /\ L[Place(L, a)] = a
  BY ChainAt
<1>2. B \in SUBSET Addr
  BY BlueIs
<1>3. LastNode(f) = IF L[N] = FlHead THEN Null ELSE L[N]
  BY <1>1 DEF LastNode
<1> HIDE DEF L, N, B
<1>4. N \in 1..N /\ \A i \in 1..N : ~ (N < i)
  BY <1>1
<1>5. \A b \in B : ~ (At(L[N]) < b) /\ At(L[N]) \in Nat
  <2> SUFFICES ASSUME NEW b \in B PROVE ~ (At(L[N]) < b) /\ At(L[N]) \in Nat
    OBVIOUS
  <2>1. At(b) = b
    BY <1>2, Keys
  <2>2. L[N] \in Spot
    BY <1>1, <1>2, <1>4, Keys
  <2>3. ~ (At(L[N]) < At(L[Place(L, b)])) /\ L[Place(L, b)] = b
    BY <1>1, <1>4
  <2> QED
    BY <2>1, <2>2, <2>3, Keys
<1>6. CASE L[N] = FlHead
  BY <1>3, <1>6 DEF Beyond
<1>7. CASE L[N] # FlHead
  <2>1. L[N] \in B /\ LastNode(f) = L[N] /\ At(L[N]) = L[N] /\ L[N] \in Nat
    BY <1>1, <1>2, <1>3, <1>4, <1>7, Keys
  <2>2. ASSUME NEW k \in 1..Len(s) PROVE At(s[k]) < L[N]
    <3>1. PICK b \in B : At(s[k]) < b
      BY <1>2, EntriesAre DEF B
    <3>2. At(s[k]) \in Nat /\ b \in Nat
      BY <1>2, Keys
    <3> QED
      BY <1>5, <2>1, <3>1, <3>2
  <2>3. Beyond(B, s, L[N])
    BY <1>2, <2>1, <2>2, EntriesAre DEF B
  <2> QED
    BY <1>2, <2>1, <2>3 DEF B
<1> QED
  BY <1>6, <1>7

\* The positions after the p-th, where the table grows.
IsNew(f, L, p, new) ==
  /\ p \in 1..Len(L) /\ L[p] = StartNode(f) /\ Len(L) \in Nat
  /\ IsMaxima(f, L, p + 1..Len(L), Wosize(f, Known(f)), new)
  /\ \A i \in p + 1..Len(L) : /\ i \in 2..Len(L) /\ At(StartNode(f)) <= At(L[i - 1])
                              /\ L[i] \in Blue(f) /\ L[i - 1] \in Blue(f) \cup {FlHead}
  /\ \A b \in Blue(f) : At(StartNode(f)) < b => Place(L, b) \in p + 1..Len(L) /\ L[Place(L, b)] = b

\* The places that the search adds to the table come after it.
LEMMA NewPlacesAre ==
  ASSUME NEW f, IsFl(f), Linked(f.next, Blue(f)), Entries(Blue(f), f.flp), Beyond(Blue(f), f.flp, f.beyond)
  PROVE  IsNew(f, List(f), Place(List(f), StartNode(f)), NewPlaces(f))
<1> DEFINE L == List(f)
           a == StartNode(f)
           p == Place(L, a)
           N == Len(L)
           B == Blue(f)
           z == Wosize(f, Known(f))
<1>1. a \in B \cup {FlHead} /\ At(a) \in Nat /\ z \in Nat /\ B \in SUBSET Addr
  BY StartNodeIs, BlueIs
<1>2. /\ N \in Nat \ {0}
      /\ \A i \in 1..N : L[i] \in B \cup {FlHead} /\ At(L[i]) \in Nat /\ (i # 1 => L[i] \in B /\ At(L[i]) = L[i])
      /\ \A i, j \in 1..N : i < j <=> At(L[i]) < At(L[j])
      /\ \A x \in B \cup {FlHead} : Place(L, x) \in 1..N /\ L[Place(L, x)] = x
  BY ChainAt
<1>3. p \in 1..N /\ L[p] = a
  BY <1>1, <1>2
<1> HIDE DEF a, p, N, B, z, L
<1>4. p + 1..N \in SUBSET (2..N)
  BY <1>2, <1>3
<1>5. IsMaxima(f, L, p + 1..N, z, Maxima(f, L, p + 1..N, z))
  BY <1>1, <1>4, MaximaAre DEF L, N
<1>6. ASSUME NEW i \in p + 1..N
      PROVE  i \in 2..N /\ At(a) <= At(L[i - 1]) /\ L[i] \in B /\ L[i - 1] \in B \cup {FlHead}
  <2>1. i \in 2..N /\ i \in 1..N /\ i # 1 /\ i - 1 \in 1..N /\ (i - 1 = p \/ p < i - 1)
    BY <1>2, <1>3
  <2>2. At(a) <= At(L[i - 1])
    <3>1. At(L[i - 1]) \in Nat /\ (p < i - 1 => At(L[p]) < At(L[i - 1]))
      BY <1>2, <1>3, <2>1
    <3> QED
      BY <1>1, <1>3, <2>1, <3>1
  <2> QED
    BY <1>2, <2>1, <2>2
<1>7. ASSUME NEW b \in B, At(a) < b
      PROVE  Place(L, b) \in p + 1..N /\ L[Place(L, b)] = b
  <2> DEFINE j == Place(L, b)
  <2>1. j \in 1..N /\ L[j] = b /\ At(b) = b
    BY <1>1, <1>2, Keys
  <2> HIDE DEF j
  <2>2. p < j
    BY <1>2, <1>3, <1>7, <2>1
  <2>3. j \in p + 1..N
    BY <1>2, <1>3, <2>1, <2>2
  <2> QED
    BY <2>1, <2>3 DEF j
<1>8. NewPlaces(f) = Maxima(f, L, p + 1..N, z)
  BY Zenon DEF NewPlaces, L, p, N, z, a
<1>9. N \in Nat
  BY <1>2
<1> HIDE DEF NewPlaces
<1> QED
  BY <1>3, <1>5, <1>6, <1>7, <1>8, <1>9 DEF IsNew, a, N, B, z, p, L

\* The table with k entries more.
GrownRight(f, k, s) ==
  /\ s \in Seq(Spot) /\ Len(s) = Len(f.flp) + k /\ Entries(Blue(f), s)
  /\ \A j \in 1..Len(f.flp) : s[j] = f.flp[j]
  /\ \A j \in 1..k : f.next[s[Len(f.flp) + j]] = List(f)[NewPlaces(f)[j]]
  /\ k > 0 => List(f)[NewPlaces(f)[k]] \in Addr /\ Beyond(Blue(f), s, List(f)[NewPlaces(f)[k]])

\* The table with some of these places is a table.
LEMMA GrownIs ==
  ASSUME NEW f, IsFl(f), Linked(f.next, Blue(f)), Entries(Blue(f), f.flp), Beyond(Blue(f), f.flp, f.beyond),
         NEW k \in 0..Len(NewPlaces(f))
  PROVE  GrownRight(f, k, GrownFlp(f, k))
<1> DEFINE L == List(f)
           a == StartNode(f)
           p == Place(L, a)
           new == NewPlaces(f)
           s == f.flp
           B == Blue(f)
           q == SubSeq(new, 1, k)
           t == Prevs(L, q)
           N == Len(s)
<1>1. IsNew(f, L, p, new)
  BY NewPlacesAre
<1>2. /\ new \in Seq(Nat) /\ Len(new) \in Nat /\ Len(L) \in Nat
      /\ \A j \in 1..Len(new) : new[j] \in p + 1..Len(L)
      /\ \A j, l \in 1..Len(new) : j < l => new[j] < new[l]
      /\ \A i \in p + 1..Len(L) : i \in 2..Len(L) /\ At(a) <= At(L[i - 1]) /\ L[i] \in B /\ L[i - 1] \in B \cup {FlHead}
  <2> HIDE DEF new, p, L, B, a
  <2> QED
    BY <1>1 DEF IsNew, IsMaxima, a, B
<1>3. B \in SUBSET Addr /\ s \in Seq(Spot) /\ N \in Nat /\ k \in Nat /\ k <= Len(new)
  <2>1. B \in SUBSET Addr /\ s \in Seq(Spot)
    BY BlueIs DEF IsFl
  <2> QED
    BY <1>2, <2>1, LenProperties
<1>4. /\ At(a) \in Nat /\ \A i \in 1..N : At(s[i]) < At(a) /\ At(s[i]) \in Nat
  <2>1. /\ At(a) \in Nat /\ \A i \in 1..N : At(s[i]) < At(a)
    BY StartNodeIs
  <2>2. \A i \in 1..N : s[i] \in Spot
    BY <1>3
  <2> QED
    BY <2>1, <2>2, Keys
<1>5. q \in Seq(Nat) /\ Len(q) = k /\ \A j \in 1..k : q[j] = new[j]
  <2> HIDE DEF new
  <2> QED
    BY <1>2, <1>3
<1> HIDE DEF q, new, p, a
<1>6. \A j \in 1..k : j \in 1..Len(new) /\ q[j] \in p + 1..Len(L) /\ q[j] \in 2..Len(L)
  <2>1. \A j \in 1..k : j \in 1..Len(new)
    BY <1>2, <1>3
  <2>2. ASSUME NEW j \in 1..k PROVE q[j] \in p + 1..Len(L) /\ q[j] \in 2..Len(L)
    <3>1. q[j] = new[j] /\ new[j] \in p + 1..Len(L)
      BY <1>2, <1>5, <2>1
    <3> QED
      BY <1>2, <3>1
  <2> QED
    BY <2>1, <2>2
<1>7. \A j, l \in 1..k : j < l => q[j] < q[l]
  BY <1>2, <1>5, <1>6
<1>8. /\ t \in Seq(Spot) /\ Len(t) = Len(q) /\ Entries(B, t)
      /\ \A j \in 1..Len(q) : t[j] = L[q[j] - 1] /\ q[j] - 1 \in 1..Len(L) - 1 /\ f.next[t[j]] = L[q[j]]
                                     /\ L[q[j]] \in After(B, t[j])
  <2>1. (\A j \in 1..Len(q) : q[j] \in 2..Len(L)) /\ \A j, l \in 1..Len(q) : j < l => q[j] < q[l]
    BY <1>5, <1>6, <1>7
  <2> QED
    BY <1>5, <2>1, PrevsAre
<1> HIDE DEF t
<1>9. \A i \in 1..N, j \in 1..Len(t) : t[j] \in After(B, s[i])
  <2> SUFFICES ASSUME NEW i \in 1..N, NEW j \in 1..Len(t) PROVE t[j] \in After(B, s[i])
    OBVIOUS
  <2>1. j \in 1..k /\ t[j] = L[q[j] - 1]
    BY <1>5, <1>8
  <2>2. At(a) <= At(t[j]) /\ t[j] \in B \cup {FlHead}
    BY <1>2, <1>6, <2>1
  <2>3. t[j] \in Spot /\ s[i] \in Spot
    BY <1>3, <1>8
  <2>4. At(s[i]) < At(t[j])
    BY <1>4, <2>2, <2>3, Keys
  <2>5. t[j] \in B /\ At(t[j]) = t[j]
    BY <1>3, <1>4, <2>2, <2>4, Keys
  <2> QED
    BY <1>3, <2>3, <2>4, <2>5, AfterIs
<1> DEFINE u == s \o t
<1>10. u \in Seq(Spot) /\ Len(u) = N + k /\ Entries(B, u)
  <2> HIDE DEF s, B
  <2>1. s \in Seq(Spot) /\ Entries(B, s)
    BY <1>3 DEF s, B
  <2> QED
    BY <1>3, <1>5, <1>8, <1>9, <2>1, EntriesConcat
<1>11. (\A j \in 1..N : u[j] = s[j]) /\ \A j \in 1..k : u[N + j] = t[j]
  <2> HIDE DEF s
  <2>1. Len(t) = k
    BY <1>5, <1>8
  <2> QED
    BY <1>3, <1>8, <2>1
<1> HIDE DEF u
<1>12. \A j \in 1..k : f.next[u[N + j]] = L[new[j]]
  BY <1>5, <1>8, <1>11
<1>13. ASSUME k > 0 PROVE L[new[k]] \in Addr /\ Beyond(B, u, L[new[k]])
  <2>1. k \in 1..k /\ k \in 1..Len(q)
    BY <1>3, <1>5, <1>13
  <2>2. u[N + k] = t[k] /\ L[new[k]] \in After(B, t[k])
    BY <1>5, <1>8, <1>11, <2>1
  <2>3. L[new[k]] \in B
    BY <2>2 DEF After
  <2>4. L[new[k]] \in After(B, u[Len(u)])
    BY <1>10, <2>2
  <2> DEFINE b == L[new[k]]
  <2> HIDE DEF b, B
  <2>5. Beyond(B, u, b)
    BY <1>3, <1>10, <2>3, <2>4, BeyondLast DEF b
  <2> QED
    BY <1>3, <2>3, <2>5 DEF b
<1>14. u = GrownFlp(f, k)
  BY DEF u, t, q, new, GrownFlp
<1> QED
  BY <1>10, <1>11, <1>12, <1>13, <1>14 DEF GrownRight, new

\* f with the table s and b.
TableOf(f, g, s, b) == /\ IsFl(g) /\ SameList(f, g) /\ g.flp = s /\ g.beyond = b
                       /\ Blue(g) = Blue(f) /\ (Threaded(f) => Threaded(g)) /\ List(g) = List(f)
                       /\ g.next = f.next /\ g.policy = f.policy
                       /\ \A x : Wosize(g, x) = Wosize(f, x)
                       /\ \A r, n : Gives(g, r, n) <=> Gives(f, r, n)

\* Only the table grows.
LEMMA GrownToIs ==
  ASSUME NEW f, IsFl(f), NEW k, NEW b \in Addr \cup {Null}, GrownFlp(f, k) \in Seq(Spot), Len(GrownFlp(f, k)) <= FLP_MAX
  PROVE  TableOf(f, GrownTo(f, k, b), GrownFlp(f, k), b)
<1> DEFINE s == GrownFlp(f, k)
           g == [f EXCEPT !.flp = s, !.beyond = b]
<1>1. GrownTo(f, k, b) = g
  BY DEF GrownTo
<1>2. IsFl(g) /\ SameList(f, g) /\ g.flp = s /\ g.beyond = b
  <2> HIDE DEF s
  <2>1. s \in Seq(Spot) /\ Len(s) <= FLP_MAX
    BY DEF s
  <2>2. IsFl(g)
    BY <2>1, NewTable, ZenonT(30)
  <2>3. SameList(f, g)
    BY <2>1, NewTable, ZenonT(30)
  <2>4. g.flp = s /\ g.beyond = b
    BY DEF IsFl
  <2> QED
    BY <2>2, <2>3, <2>4
<1> HIDE DEF g
<1>3. TableOf(f, g, s, b)
  BY <1>2, SameListIs DEF TableOf, SameList
<1> QED
  BY <1>1, <1>3

\* The table is grown up to the first entry that fits.
LEMMA TakeEntryIs ==
  ASSUME NEW f, IsFl(f), Threaded(f), FirstFitNow(f), NEW n \in 1..Words, NEW i \in 1..Len(f.flp), TableFor(f, i),
         Wosize(f, f.next[f.flp[i]]) >= n
  PROVE  Gives(f, TakeEntry(f, n, i), n)
<1> DEFINE prev == f.flp[i]
           oldsz == Wosize(f, f.next[prev])
<1>1. prev \in Blue(f) \cup {FlHead} /\ After(Blue(f), prev) # {}
  BY DEF TableFor, Entries
<1>2. oldsz \in Nat
  <2>1. f.next[prev] \in Blue(f)
    BY <1>1, EntryLeads DEF Threaded
  <2> QED
    BY <2>1, Sizes
<1> HIDE DEF prev, oldsz
<1>3. TakenFrom(f, UpdateFlp(AllocateBlock(f, n, i, prev, f.next[prev]), i, oldsz), n, prev)
  <2>1. Wosize(f, f.next[prev]) >= n
    BY DEF prev
  <2> QED
    BY <1>2, <2>1, TakeIs DEF prev
<1>4. TakenFrom(f, TakeEntry(f, n, i), n, prev)
  BY <1>3, Zenon DEF TakeEntry, prev, oldsz
<1> QED
  BY <1>1, <1>4 DEF Gives

\* The first-fit search finds what an entry leads to, and what is after the
\* place where the table ends.
LEMMA FirstFitIs ==
  ASSUME NEW f, IsFl(f), Threaded(f), FirstFitNow(f), NEW n \in 1..Words, Entries(Blue(f), f.flp),
         Beyond(Blue(f), f.flp, f.beyond) \/ Hits(f, n) = {Len(f.flp)}
  PROVE  /\ Gives(f, FirstFit(f, n), n) \/ Miss(f, FirstFit(f, n), n)
         /\ Hits(f, n) # {} => Gives(f, FirstFit(f, n), n)
         /\ \A b \in Blue(f) : Wosize(f, b) >= n /\ At(StartNode(f)) < b => Gives(f, FirstFit(f, n), n)
<1> DEFINE new == NewPlaces(f)
           small == SmallOnes(f, n)
           size == Len(f.flp)
           room == FLP_MAX - size
           L == List(f)
           hits == Hits(f, n)
           r == FirstFit(f, n)
<1>1. r = IF hits # {} THEN TakeEntry(f, n, Min(hits))
          ELSE IF small >= room
          THEN SlowFirstFit(GrownTo(f, room, IF room = 0 THEN Null ELSE L[new[room]]), n)
          ELSE IF small = Len(new) THEN NotFound(GrownTo(f, small, LastNode(f)), Last(L))
          ELSE TakeEntry(GrownTo(f, small + 1, L[new[small + 1]]), n, size + small + 1)
  BY FirstFitParts
<1>2. size \in Nat /\ room \in Nat /\ FLP_MAX \in Nat \ {0} /\ f.flp \in Seq(Spot) /\ Linked(f.next, Blue(f))
      /\ Blue(f) \in SUBSET Addr
  <2>1. f.flp \in Seq(Spot) /\ size <= FLP_MAX /\ FLP_MAX \in Nat \ {0} /\ Linked(f.next, Blue(f))
    BY HeapAssumption DEF IsFl, Threaded
  <2>2. size \in Nat
    BY <2>1, LenProperties
  <2> QED
    BY <2>1, <2>2, BlueIs
<1> HIDE DEF r
<1>3. CASE hits # {}
  <2>1. hits \in SUBSET Nat /\ hits \in SUBSET (1..size) /\ \A i \in hits : Wosize(f, f.next[f.flp[i]]) >= n
    BY <1>2 DEF Hits
  <2> DEFINE i == Min(hits)
  <2>2. i \in hits
    BY <1>3, <2>1, MinIs
  <2>3. hits = {size} => i = size
    BY <2>2
  <2>4. TableFor(f, i)
    BY <2>3 DEF TableFor
  <2>5. Gives(f, TakeEntry(f, n, i), n)
    <3> HIDE DEF i
    <3>1. i \in 1..Len(f.flp) /\ Wosize(f, f.next[f.flp[i]]) >= n
      BY <2>1, <2>2
    <3> QED
      BY <2>4, <3>1, TakeEntryIs
  <2> QED
    BY <1>1, <1>3, <2>5 DEF r
<1>4. CASE hits = {}
  <2>1. Beyond(Blue(f), f.flp, f.beyond)
    BY <1>4
  <2>2. \A k \in 1..size : Wosize(f, f.next[f.flp[k]]) < n
    <3> SUFFICES ASSUME NEW k \in 1..size PROVE Wosize(f, f.next[f.flp[k]]) < n
      OBVIOUS
    <3>1. ~ (Wosize(f, f.next[f.flp[k]]) >= n)
      BY <1>4 DEF Hits
    <3>2. Wosize(f, f.next[f.flp[k]]) \in Nat
      <4>1. f.flp[k] \in Blue(f) \cup {FlHead} /\ After(Blue(f), f.flp[k]) # {}
        BY DEF Entries
      <4>2. f.next[f.flp[k]] \in Blue(f)
        BY <1>2, <4>1, EntryLeads
      <4> QED
        BY <4>2, Sizes
    <3> QED
      BY <3>1, <3>2
  <2> DEFINE p == Place(L, StartNode(f))
             I == p + 1..Len(L)
             z == Wosize(f, Known(f))
  <2>3. IsNew(f, L, p, new)
    BY <1>2, <2>1, NewPlacesAre
  <2>4. IsMaxima(f, L, I, z, new) /\ p \in 1..Len(L) /\ Len(L) \in Nat
        /\ \A b \in Blue(f) : At(StartNode(f)) < b => Place(L, b) \in I /\ L[Place(L, b)] = b
    <3> HIDE DEF L, p, new
    <3> QED
      BY <2>3 DEF IsNew
  <2>5. small \in Nat /\ small <= Len(new) /\ \A k \in 1..Len(new) : Wosize(f, L[new[k]]) < n <=> k <= small
    <3> HIDE DEF L, new
    <3>1. /\ new \in Seq(Nat) /\ \A k \in 1..Len(new) : Wosize(f, L[new[k]]) \in Nat
          /\ \A k, l \in 1..Len(new) : k < l => Wosize(f, L[new[k]]) < Wosize(f, L[new[l]])
      BY <2>4 DEF IsMaxima
    <3>2. LET c == Smaller(f, L, new, n)
          IN  c \in Nat /\ c <= Len(new) /\ \A k \in 1..Len(new) : Wosize(f, L[new[k]]) < n <=> k <= c
      <4>1. n \in Nat
        OBVIOUS
      <4> QED
        BY <3>1, <4>1, SmallerIs
    <3>3. small = Smaller(f, L, new, n)
      BY DEF SmallOnes, L, new
    <3> QED
      BY <3>2, <3>3
  <2>6. /\ Len(new) \in Nat /\ z \in Nat
        /\ \A j \in I : Wosize(f, L[j]) > z => \E k \in 1..Len(new) : Wosize(f, L[new[k]]) >= Wosize(f, L[j])
        /\ \A k \in 1..Len(new) : \A j \in I : j < new[k] => Wosize(f, L[j]) < Wosize(f, L[new[k]])
        /\ \A k \in 1..Len(new) : new[k] \in I /\ Wosize(f, L[new[k]]) \in Nat
    <3>1. z \in Nat
      BY <1>2, <2>1, StartNodeIs
    <3> HIDE DEF L, new, I, z
    <3> QED
      BY <2>4, <3>1 DEF IsMaxima
  <2>7. ASSUME NEW k \in 0..Len(new) PROVE GrownRight(f, k, GrownFlp(f, k))
    <3> HIDE DEF new
    <3> QED
      BY <1>2, <2>1, <2>7, GrownIs DEF new
  <2>8. z < n
    <3>1. CASE size = 0
      <4>1. z = 0
        BY <3>1, Sizes DEF Known
      <4> QED
        BY <4>1
    <3>2. CASE size # 0
      <4>1. size \in 1..size /\ z = Wosize(f, f.next[f.flp[size]])
        BY <1>2, <3>2 DEF Known, Last
      <4> QED
        BY <2>2, <4>1
    <3> QED
      BY <3>1, <3>2
  <2>9. ASSUME NEW b \in Blue(f), Wosize(f, b) >= n, At(StartNode(f)) < b
        PROVE  /\ Place(L, b) \in I /\ L[Place(L, b)] = b /\ small # Len(new)
               /\ \A k \in 1..Len(new) : k <= small => new[k] < Place(L, b)
    <3> DEFINE j == Place(L, b)
    <3>1. j \in I /\ L[j] = b
      BY <2>4, <2>9
    <3>2. Wosize(f, b) \in Nat
      BY Sizes
    <3> HIDE DEF j
    <3>3. PICK k \in 1..Len(new) : Wosize(f, L[new[k]]) >= Wosize(f, b)
      <4>1. Wosize(f, L[j]) > z
        BY <2>6, <2>8, <2>9, <3>1, <3>2
      <4> HIDE DEF I, L, z, new
      <4> QED
        BY <2>6, <3>1, <4>1
    <3>4. ~ (k <= small)
      <4>1. Wosize(f, L[new[k]]) \in Nat
        BY <2>6
      <4> QED
        BY <2>5, <2>9, <3>2, <3>3, <4>1
    <3>5. small # Len(new)
      BY <2>5, <3>4
    <3>6. ASSUME NEW l \in 1..Len(new), l <= small PROVE new[l] < j
      <4>1. Wosize(f, L[new[l]]) < n /\ Wosize(f, L[new[l]]) \in Nat
        BY <2>5, <2>6, <3>6
      <4>2. new[l] # j
        BY <2>9, <3>1, <3>2, <4>1
      <4>3. ~ (j < new[l])
        BY <2>6, <2>9, <3>1, <3>2, <4>1
      <4>4. new[l] \in I
        BY <2>6
      <4>5. new[l] \in Nat /\ j \in Nat
        BY <2>4, <3>1, <4>4
      <4> QED
        BY <4>2, <4>3, <4>5
    <3> QED
      BY <3>1, <3>5, <3>6 DEF j
  <2> HIDE DEF p, I, z, new, small, L, room, size, hits
  <2>10. CASE small >= room
    <3> DEFINE bb == IF room = 0 THEN Null ELSE L[new[room]]
               g == GrownTo(f, room, bb)
               s == GrownFlp(f, room)
    <3>1. room \in 0..Len(new) /\ room <= Len(new) /\ size + room = FLP_MAX
      BY <1>2, <2>5, <2>6, <2>10 DEF room
    <3>2. GrownRight(f, room, s)
      BY <2>7, <3>1
    <3> HIDE DEF s
    <3>3. /\ s \in Seq(Spot) /\ Len(s) = size + room /\ Entries(Blue(f), s)
          /\ \A j \in 1..size : s[j] = f.flp[j]
          /\ \A j \in 1..room : f.next[s[size + j]] = L[new[j]]
          /\ room > 0 => L[new[room]] \in Addr /\ Beyond(Blue(f), s, L[new[room]])
      BY <3>2 DEF GrownRight, L, new, size
    <3>4. bb \in Addr \cup {Null} /\ Beyond(Blue(f), s, bb)
      <4>1. CASE room = 0
        BY <4>1 DEF Beyond
      <4>2. CASE room # 0
        <5>1. room > 0
          BY <1>2, <4>2
        <5> QED
          BY <3>3, <4>2, <5>1
      <4> QED
        BY <4>1, <4>2
    <3>5. TableOf(f, g, s, bb)
      <4> HIDE DEF bb
      <4>1. GrownFlp(f, room) \in Seq(Spot) /\ Len(GrownFlp(f, room)) <= FLP_MAX
        BY <1>2, <3>1, <3>3 DEF s
      <4> QED
        BY <3>4, <4>1, GrownToIs DEF s
    <3>6. r = SlowFirstFit(g, n)
      BY <1>1, <1>4, <2>10
    <3> HIDE DEF g, bb
    <3>7. /\ IsFl(g) /\ SameList(f, g) /\ g.flp = s /\ g.beyond = bb
          /\ Blue(g) = Blue(f) /\ Threaded(g) /\ List(g) = List(f)
          /\ g.next = f.next /\ FirstFitNow(g)
          /\ \A x : Wosize(g, x) = Wosize(f, x)
          /\ \A rr, m : Gives(g, rr, m) <=> Gives(f, rr, m)
      BY <3>5 DEF TableOf, FirstFitNow
    <3>8. TooSmall(g, n)
      <4> SUFFICES ASSUME NEW k \in 1..Len(s) PROVE Wosize(f, f.next[s[k]]) < n
        BY <3>7 DEF TooSmall
      <4>1. k \in 1..size \/ (k - size \in 1..room /\ size + (k - size) = k)
        BY <1>2, <3>3
      <4>2. CASE k \in 1..size
        BY <2>2, <3>3, <4>2
      <4>3. CASE k - size \in 1..room /\ size + (k - size) = k
        <5> DEFINE j == k - size
        <5>1. j \in 1..room /\ f.next[s[k]] = L[new[j]]
          BY <3>3, <4>3
        <5>2. j \in 1..Len(new) /\ j <= small
          BY <1>2, <2>5, <2>6, <2>10, <3>1, <5>1
        <5> QED
          BY <2>5, <5>1, <5>2
      <4> QED
        BY <4>1, <4>2, <4>3
    <3>9. Len(g.flp) # 0
      BY <1>2, <3>1, <3>3, <3>7
    <3>10. /\ Gives(g, r, n) \/ Miss(g, r, n)
           /\ \A b \in Blue(g) : Wosize(g, b) >= n /\ At(StartOf(g)) < b => Gives(g, r, n)
      BY <3>3, <3>4, <3>6, <3>7, <3>8, <3>9, SlowIs
    <3>11. Miss(g, r, n) => Miss(f, r, n)
      BY <3>7 DEF Miss, SameList, FirstFitNow
    <3>12. ASSUME NEW b \in Blue(f), Wosize(f, b) >= n, At(StartNode(f)) < b PROVE Gives(f, r, n)
      <4>1. At(StartOf(g)) < b
        <5>1. CASE room = 0
          <6>1. StartOf(g) = s[Len(s)] /\ Len(s) = size /\ size # 0
            BY <1>2, <3>1, <3>3, <3>7, <5>1 DEF StartOf, bb, Last
          <6>2. size \in 1..size /\ s[size] = f.flp[size]
            BY <1>2, <3>3, <6>1
          <6>3. At(f.flp[size]) < At(StartNode(f)) /\ At(StartNode(f)) \in Nat
            BY <1>2, <2>1, <6>2, StartNodeIs DEF size
          <6>4. At(f.flp[size]) \in Nat /\ b \in Nat
            <7>1. f.flp[size] \in Spot
              BY <1>2, <6>2 DEF size
            <7> QED
              BY <1>2, <7>1, Keys
          <6> QED
            BY <3>12, <6>1, <6>2, <6>3, <6>4
        <5>2. CASE room # 0
          <6>1. room \in 1..Len(new) /\ room <= small /\ bb = L[new[room]] /\ bb \in Addr
            BY <1>2, <2>10, <3>1, <3>3, <5>2 DEF bb
          <6>2. StartOf(g) = bb
            BY <3>7, <6>1, Spots DEF StartOf
          <6>3. new[room] < Place(L, b) /\ Place(L, b) \in I /\ L[Place(L, b)] = b
            BY <2>9, <3>12, <6>1
          <6>4. new[room] \in I
            BY <2>6, <6>1
          <6>5. \A i, j \in 1..Len(L) : i < j <=> At(L[i]) < At(L[j])
            BY <1>2, ChainAt DEF L
          <6>6. new[room] \in 1..Len(L) /\ Place(L, b) \in 1..Len(L)
            BY <2>4, <6>3, <6>4 DEF I
          <6>7. At(bb) < At(b)
            BY <6>1, <6>3, <6>5, <6>6
          <6>8. At(b) = b
            BY <1>2, Keys
          <6> QED
            BY <6>2, <6>7, <6>8
        <5> QED
          BY <5>1, <5>2
      <4>2. Gives(g, r, n)
        BY <3>7, <3>10, <3>12, <4>1
      <4> QED
        BY <3>7, <4>2
    <3> QED
      BY <1>4, <3>7, <3>10, <3>11, <3>12 DEF r, hits
  <2>11. CASE ~ (small >= room) /\ small = Len(new)
    <3> DEFINE bb == LastNode(f)
               g == GrownTo(f, small, bb)
               s == GrownFlp(f, small)
    <3>1. small \in 0..Len(new) /\ size + small <= FLP_MAX
      BY <1>2, <2>5, <2>6, <2>11 DEF room
    <3>2. GrownRight(f, small, s)
      BY <2>7, <3>1
    <3> HIDE DEF s
    <3>3. /\ s \in Seq(Spot) /\ Len(s) = size + small /\ Entries(Blue(f), s)
          /\ \A j \in 1..size : s[j] = f.flp[j]
          /\ \A j \in 1..small : f.next[s[size + j]] = L[new[j]]
      BY <3>2 DEF GrownRight, L, new, size
    <3>4. bb \in Addr \cup {Null} /\ Beyond(Blue(f), s, bb)
      BY <1>2, <3>3, LastNodeIs
    <3>5. TableOf(f, g, s, bb)
      <4> HIDE DEF bb
      <4>1. GrownFlp(f, small) \in Seq(Spot) /\ Len(GrownFlp(f, small)) <= FLP_MAX
        BY <3>1, <3>3 DEF s
      <4> QED
        BY <3>4, <4>1, GrownToIs DEF s
    <3>6. r = NotFound(g, Last(L))
      BY <1>1, <1>4, <2>11
    <3> HIDE DEF g, bb
    <3>7. /\ IsFl(g) /\ SameList(f, g) /\ g.flp = s /\ g.beyond = bb /\ Blue(g) = Blue(f)
      BY <3>5 DEF TableOf
    <3>8. \A k \in 1..Len(g.flp) : FirstFitNow(f) => Wosize(f, f.next[g.flp[k]]) < n
      <4> SUFFICES ASSUME NEW k \in 1..Len(s) PROVE Wosize(f, f.next[s[k]]) < n
        BY <3>7
      <4>1. k \in 1..size \/ (k - size \in 1..small /\ size + (k - size) = k)
        BY <1>2, <2>5, <3>3
      <4>2. CASE k \in 1..size
        BY <2>2, <3>3, <4>2
      <4>3. CASE k - size \in 1..small /\ size + (k - size) = k
        <5> DEFINE j == k - size
        <5>1. j \in 1..small /\ f.next[s[k]] = L[new[j]]
          BY <3>3, <4>3
        <5>2. j \in 1..Len(new) /\ j <= small
          BY <2>5, <2>11, <5>1
        <5> QED
          BY <2>5, <5>1, <5>2
      <4> QED
        BY <4>1, <4>2, <4>3
    <3>9. Tabled(g)
      BY <3>3, <3>4, <3>7 DEF Tabled
    <3>10. Miss(f, NotFound(g, Last(List(f))), n)
      BY <3>7, <3>8, <3>9, NotFoundIs
    <3>11. ~ \E b \in Blue(f) : Wosize(f, b) >= n /\ At(StartNode(f)) < b
      BY <2>9, <2>11
    <3> QED
      BY <1>4, <3>6, <3>10, <3>11 DEF r, hits, L
  <2>12. CASE ~ (small >= room) /\ small # Len(new)
    <3> DEFINE k == small + 1
               bb == L[new[k]]
               g == GrownTo(f, k, bb)
               s == GrownFlp(f, k)
               i == size + small + 1
    <3>1. k \in 0..Len(new) /\ k \in 1..Len(new) /\ k > 0 /\ size + k <= FLP_MAX /\ i = size + k /\ k \in 1..k
      BY <1>2, <2>5, <2>6, <2>12 DEF room
    <3>2. GrownRight(f, k, s)
      BY <2>7, <3>1
    <3> HIDE DEF s, k, i
    <3>3. /\ s \in Seq(Spot) /\ Len(s) = size + k /\ Entries(Blue(f), s)
          /\ \A j \in 1..k : f.next[s[size + j]] = L[new[j]]
          /\ k > 0 => L[new[k]] \in Addr
      BY <3>2 DEF GrownRight, L, new, size
    <3>4. bb \in Addr \cup {Null}
      BY <3>1, <3>3
    <3>5. TableOf(f, g, s, bb)
      <4> HIDE DEF bb
      <4>1. GrownFlp(f, k) \in Seq(Spot) /\ Len(GrownFlp(f, k)) <= FLP_MAX
        BY <3>1, <3>3 DEF s
      <4> QED
        BY <3>4, <4>1, GrownToIs DEF s
    <3>6. r = TakeEntry(g, n, i)
      BY <1>1, <1>4, <2>12 DEF k, i
    <3> HIDE DEF g, bb
    <3>7. /\ IsFl(g) /\ SameList(f, g) /\ g.flp = s
          /\ Blue(g) = Blue(f) /\ Threaded(g) /\ g.next = f.next /\ FirstFitNow(g)
          /\ \A x : Wosize(g, x) = Wosize(f, x)
          /\ \A rr, m : Gives(g, rr, m) <=> Gives(f, rr, m)
      BY <3>5 DEF TableOf, FirstFitNow
    <3>8. i = Len(g.flp) /\ i \in 1..Len(g.flp)
      BY <1>2, <3>1, <3>3, <3>7
    <3>9. Wosize(g, g.next[g.flp[i]]) >= n
      <4>1. g.next[g.flp[i]] = L[new[k]]
        BY <3>1, <3>3, <3>7
      <4>2. ~ (Wosize(f, L[new[k]]) < n) /\ Wosize(f, L[new[k]]) \in Nat
        BY <2>5, <2>6, <3>1 DEF k
      <4> QED
        BY <3>7, <4>1, <4>2
    <3>10. TableFor(g, i)
      BY <3>3, <3>7, <3>8 DEF TableFor
    <3>11. Gives(g, r, n)
      BY <3>6, <3>7, <3>8, <3>9, <3>10, TakeEntryIs
    <3>12. Gives(f, r, n)
      BY <3>7, <3>11
    <3> QED
      BY <3>12 DEF r
  <2> QED
    BY <2>10, <2>11, <2>12
<1> QED
  BY <1>3, <1>4

\* Allocation from the free list finds a block or finds nothing.
LEMMA FlAllocateIs ==
  ASSUME NEW f, IsFl(f), Threaded(f), Tabled(f), NEW n \in 1..Words
  PROVE  Gives(f, FlAllocate(f, n), n) \/ Miss(f, FlAllocate(f, n), n)
<1>1. CASE NextFitNow(f)
  BY <1>1, NextFitIs DEF FlAllocate, NextFitNow
<1>2. CASE FirstFitNow(f)
  <2>1. Entries(Blue(f), f.flp) /\ Beyond(Blue(f), f.flp, f.beyond)
    BY <1>2, TwoPolicies
  <2>2. Gives(f, FirstFit(f, n), n) \/ Miss(f, FirstFit(f, n), n)
    BY <1>2, <2>1, FirstFitIs
  <2> QED
    BY <1>2, <2>2 DEF FlAllocate, FirstFitNow
<1> QED
  BY <1>1, <1>2, TwoPolicies

-----------------------------------------------------------------------------
(* Insertion into the free list *)

\* g is f with the table cut back to what leads before the node a.
Truncated(f, g, a) ==
  /\ IsFl(g) /\ SameList(f, g) /\ Entries(Blue(f), g.flp) /\ Beyond(Blue(f), g.flp, g.beyond)
  /\ \A k \in 1..Len(g.flp) : f.next[g.flp[k]] < At(a) /\ At(g.flp[k]) < At(a) /\ f.next[g.flp[k]] \in Blue(f)
  /\ g.beyond # Null => g.beyond < At(a)

\* The table without the entries from a changed block on is right again.
LEMMA TruncateIs ==
  ASSUME NEW f, IsFl(f), Linked(f.next, Blue(f)), Entries(Blue(f), f.flp), Beyond(Blue(f), f.flp, f.beyond),
         NEW a \in Spot
  PROVE  Truncated(f, TruncateFlp(f, a), a)
<1> DEFINE s == f.flp
           B == Blue(f)
           next == f.next
           N == Len(s)
<1>1. B \in SUBSET Addr /\ s \in Seq(Spot) /\ f.beyond \in Addr \cup {Null} /\ N \in Nat /\ N <= FLP_MAX
      /\ FLP_MAX \in Nat
  <2>1. B \in SUBSET Addr /\ s \in Seq(Spot) /\ f.beyond \in Addr \cup {Null} /\ N <= FLP_MAX /\ FLP_MAX \in Nat
    BY BlueIs, HeapAssumption DEF IsFl
  <2> QED
    BY <2>1, LenProperties
<1>2. CASE a = FlHead
  <2> DEFINE g == [f EXCEPT !.flp = << >>, !.beyond = Null]
             e == << >>
  <2>1. g = TruncateFlp(f, a)
    BY <1>2 DEF TruncateFlp
  <2>2. e \in Seq(Spot) /\ Len(e) = 0 /\ Len(e) <= FLP_MAX /\ Null \in Addr \cup {Null}
    BY <1>1
  <2>3. IsFl(g)
    BY <2>2, NewTable, ZenonT(30)
  <2>4. SameList(f, g)
    BY <2>2, NewTable, ZenonT(30)
  <2>5. g.flp = e /\ g.beyond = Null
    BY DEF IsFl
  <2>6. Entries(B, e) /\ Beyond(B, e, Null)
    BY NoEntries DEF Beyond
  <2> HIDE DEF g, e
  <2>7. Truncated(f, g, a)
    BY <2>2, <2>3, <2>4, <2>5, <2>6 DEF Truncated
  <2> QED
    BY <2>1, <2>7
<1>3. CASE a # FlHead
  <2> DEFINE keep == {k \in 0..N : k = 0 \/ next[s[k]] < a}
             m == Max(keep)
             t == SubSeq(s, 1, m)
             b == IF f.beyond >= a THEN Null ELSE f.beyond
             g == [f EXCEPT !.flp = t, !.beyond = b]
  <2>1. g = TruncateFlp(f, a)
    BY <1>3 DEF TruncateFlp
  <2>2. m \in keep
    <3>1. keep \in SUBSET Nat /\ keep # {} /\ \A k \in keep : k <= N
      BY <1>1
    <3> HIDE DEF keep
    <3> QED
      BY <1>1, <3>1, MaxIs
  <2>3. m \in 0..N /\ m \in Nat /\ m <= N /\ (m # 0 => next[s[m]] < a)
    BY <1>1, <2>2
  <2> HIDE DEF m
  <2>4. t \in Seq(Spot) /\ Len(t) = m /\ \A k \in 1..m : t[k] = s[k] /\ k \in 1..N
    BY <1>1, <2>3
  <2>5. Entries(B, t)
    <3> HIDE DEF B, s
    <3>1. /\ s \in Seq(Spot) /\ Entries(B, s) /\ m <= Len(s) /\ 1 \in Nat \ {0}
      BY <1>1, <2>3 DEF B, s, N
    <3> QED
      BY <2>3, <3>1, EntriesPart
  <2> HIDE DEF t
  <2>6. b \in Addr \cup {Null} /\ Beyond(B, t, b)
    <3>1. Beyond(B, s, f.beyond)
      OBVIOUS
    <3> HIDE DEF s, B
    <3>2. Beyond(B, t, f.beyond)
      BY <2>4, <3>1 DEF Beyond
    <3>3. Beyond(B, t, Null)
      BY DEF Beyond
    <3> QED
      BY <1>1, <3>2, <3>3
  <2>7. b # Null => b < At(a)
    <3>1. At(a) = a /\ a \in Nat /\ \A x \in Addr : x \in Nat
      BY <1>3, Keys DEF Spot
    <3> QED
      BY <1>1, <3>1
  <2> HIDE DEF b
  <2>8. ASSUME NEW k \in 1..m PROVE next[t[k]] < At(a) /\ At(t[k]) < At(a) /\ next[t[k]] \in B
    <3>1. k \in 1..N /\ t[k] = s[k] /\ m \in 1..N /\ (k = m \/ k < m) /\ m # 0
      BY <2>3, <2>4
    <3>2. /\ s[k] \in B \cup {FlHead} /\ After(B, s[k]) # {} /\ s[m] \in B \cup {FlHead} /\ After(B, s[m]) # {}
      BY <3>1 DEF Entries
    <3>3. /\ next[s[k]] \in B /\ next[s[m]] \in B
          /\ NextBlock(B, s[k], next[s[k]]) /\ NextBlock(B, s[m], next[s[m]])
      <4> HIDE DEF s
      <4> QED
        BY <3>2, EntryLeads
    <3>4. At(a) = a /\ a \in Nat
      BY <1>3, Keys DEF Spot
    <3>5. next[s[k]] < a
      <4>1. CASE k = m
        BY <2>3, <3>1, <4>1
      <4>2. CASE k < m
        <5>1. s[m] \in B /\ At(s[k]) < s[m]
          BY <1>1, <3>1, <4>2, EntriesAre
        <5>2. next[s[k]] <= s[m] /\ At(s[m]) < next[s[m]]
          BY <3>3, <5>1 DEF NextBlock
        <5>3. At(s[m]) = s[m] /\ s[m] \in Nat /\ next[s[k]] \in Nat /\ next[s[m]] \in Nat
          BY <1>1, <3>3, <5>1, Keys
        <5>4. next[s[m]] < a
          BY <2>3, <3>1
        <5> QED
          BY <3>4, <5>2, <5>3, <5>4
      <4> QED
        BY <3>1, <4>1, <4>2
    <3>6. At(s[k]) < next[s[k]] /\ At(s[k]) \in Nat /\ next[s[k]] \in Nat
      <4>1. s[k] \in Spot
        BY <1>1, <3>1
      <4>2. At(s[k]) < next[s[k]]
        BY <3>3 DEF NextBlock
      <4> QED
        BY <1>1, <3>3, <4>1, <4>2, Keys
    <3> QED
      BY <3>1, <3>3, <3>4, <3>5, <3>6
  <2>9. Len(t) <= FLP_MAX
    BY <1>1, <2>3, <2>4
  <2>10. IsFl(g)
    BY <2>4, <2>6, <2>9, NewTable, ZenonT(30)
  <2>11. SameList(f, g)
    BY <2>4, <2>6, <2>9, NewTable, ZenonT(30)
  <2>12. g.flp = t /\ g.beyond = b
    BY DEF IsFl
  <2> HIDE DEF g
  <2>13. Truncated(f, g, a)
    BY <2>4, <2>5, <2>6, <2>7, <2>8, <2>10, <2>11, <2>12 DEF Truncated
  <2> QED
    BY <2>1, <2>13
<1> QED
  BY <1>2, <1>3

\* g is f with one more block, bp, that is not in the list yet.
WithBlock(f, g, bp, h) ==
  /\ g = [f EXCEPT !.hd = Over(MapsTo(bp, h), @)]
  /\ IsFl(g) /\ DOMAIN g.hd = DOMAIN f.hd \cup {bp} /\ g.hd[bp] = h /\ \A b \in DOMAIN f.hd : g.hd[b] = f.hd[b]
  /\ Blue(g) = IF h.color = "blue" THEN Blue(f) \cup {bp} ELSE Blue(f)
  /\ g.next = f.next /\ g.policy = f.policy /\ g.prev = f.prev /\ g.merge = f.merge
  /\ g.fragment = f.fragment /\ g.size = f.size /\ g.flp = f.flp /\ g.beyond = f.beyond
  /\ \A b \in Blue(f) : Wosize(g, b) = Wosize(f, b) /\ Whsize(g, b) = Whsize(f, b)
  /\ List(g) = List(f)

\* A header is added where there was none.
LEMMA WithBlockIs ==
  ASSUME NEW f, IsFl(f), NEW bp \in Addr \ DOMAIN f.hd, NEW h \in Block
  PROVE  WithBlock(f, [f EXCEPT !.hd = Over(MapsTo(bp, h), @)], bp, h)
<1> DEFINE hd == Over(MapsTo(bp, h), f.hd)
           g == [f EXCEPT !.hd = hd]
<1>1. /\ DOMAIN hd = DOMAIN f.hd \cup {bp} /\ hd[bp] = h /\ \A b \in DOMAIN f.hd : hd[b] = f.hd[b]
      /\ hd \in [DOMAIN hd -> Block] /\ DOMAIN hd \in SUBSET Addr
  <2>1. f.hd \in [DOMAIN f.hd -> Block] /\ DOMAIN f.hd \in SUBSET Addr
    BY DEF IsFl
  <2>2. DOMAIN MapsTo(bp, h) = {bp} /\ MapsTo(bp, h)[bp] = h
    BY DEF MapsTo
  <2>3. hd = [x \in DOMAIN f.hd \cup {bp} |-> IF x = bp THEN h ELSE f.hd[x]]
    BY <2>2 DEF Over
  <2> QED
    BY <2>1, <2>3
<1> HIDE DEF hd
<1>2. /\ g.hd = hd /\ g.next = f.next /\ g.policy = f.policy /\ g.prev = f.prev /\ g.merge = f.merge
      /\ g.fragment = f.fragment /\ g.size = f.size /\ g.flp = f.flp /\ g.beyond = f.beyond
  BY DEF IsFl
<1>3. IsFl(g)
  <2>1. g \in [hd : [DOMAIN hd -> Block], next : [Spot -> Addr \cup {Null}],
            policy : {"next fit", "first fit"}, prev : Spot, merge : Spot,
            fragment : Addr \cup {Null}, size : Int, flp : Seq(Spot), beyond : Addr \cup {Null}]
    BY <1>1 DEF IsFl
  <2>2. DOMAIN g.hd \in SUBSET Addr /\ Len(g.flp) <= FLP_MAX
    BY <1>1, <1>2 DEF IsFl
  <2> HIDE DEF g
  <2> QED
    BY <1>2, <2>1, <2>2 DEF IsFl
<1>4. Blue(g) = IF h.color = "blue" THEN Blue(f) \cup {bp} ELSE Blue(f)
  BY <1>1, <1>2 DEF Blue
<1>5. \A b \in Blue(f) : Wosize(g, b) = Wosize(f, b) /\ Whsize(g, b) = Whsize(f, b)
  BY <1>1, <1>2 DEF Blue, Wosize, Whsize
<1>6. List(g) = List(f)
  <2>1. g.next = f.next
    BY <1>2
  <2> HIDE DEF g
  <2> QED
    BY <2>1 DEF List
<1>7. g = [f EXCEPT !.hd = Over(MapsTo(bp, h), @)]
  BY DEF hd
<1> HIDE DEF g
<1>8. WithBlock(f, g, bp, h)
  BY <1>1, <1>2, <1>3, <1>4, <1>5, <1>6, <1>7 DEF WithBlock
<1> QED
  BY <1>7, <1>8

\* The node of the list after which a block belongs.
NodeBefore(L, bp) == L[Max({k \in DOMAIN L : k = 1 \/ L[k] < bp})]
\* The node that caml_fl_add_blocks finds is the last before the new block.
LEMMA NodeBeforeIs ==
  ASSUME NEW f, IsFl(f), Linked(f.next, Blue(f)), NEW bp \in Addr \ Blue(f)
  PROVE  LastBefore(Blue(f), NodeBefore(List(f), bp), bp)
<1> DEFINE L == List(f)
           N == Len(L)
           B == Blue(f)
           S == {k \in DOMAIN L : k = 1 \/ L[k] < bp}
           i == Max(S)
<1>1. /\ L \in Seq(Spot) /\ N \in Nat \ {0} /\ L[1] = FlHead
      /\ \A k \in 1..N : L[k] \in B \cup {FlHead} /\ At(L[k]) \in Nat /\ (k # 1 => L[k] \in B /\ At(L[k]) = L[k])
      /\ \A k, j \in 1..N : k < j <=> At(L[k]) < At(L[j])
      /\ \A x \in B \cup {FlHead} : Place(L, x) \in 1..N /\ L[Place(L, x)] = x
  BY ChainAt
<1>2. B \in SUBSET Addr /\ bp \in Nat /\ bp # FlHead /\ DOMAIN L = 1..N
  <2>1. B \in SUBSET Addr /\ bp \in Nat /\ bp # FlHead
    BY BlueIs, Keys
  <2>2. DOMAIN L = 1..N
    BY <1>1
  <2> QED
    BY <2>1, <2>2
<1>3. S = {k \in 1..N : k = 1 \/ L[k] < bp}
  BY <1>2
<1> HIDE DEF L, N, B, S
<1>4. S \in SUBSET Nat /\ 1 \in S /\ S # {} /\ N \in Nat /\ \A k \in S : k <= N
  BY <1>1, <1>3
<1>5. i \in S /\ \A k \in S : k <= i
  BY <1>4, MaxIs
<1> HIDE DEF i
<1>6. i \in 1..N /\ (i = 1 \/ L[i] < bp) /\ i \in Nat
  BY <1>1, <1>3, <1>5
<1>7. L[i] \in B \cup {FlHead} /\ (L[i] = FlHead \/ L[i] < bp)
  BY <1>1, <1>6
<1>8. ASSUME NEW b \in B, b < bp PROVE L[i] # FlHead /\ b <= L[i]
  <2> DEFINE j == Place(L, b)
  <2>1. j \in 1..N /\ L[j] = b /\ b # FlHead /\ At(b) = b /\ b \in Nat /\ b >= 1
    BY <1>1, <1>2, Keys
  <2> HIDE DEF j
  <2>2. j \in S /\ j <= i /\ j # 1
    BY <1>1, <1>3, <1>5, <1>8, <2>1
  <2>3. i # 1 /\ (j = i \/ j < i)
    BY <1>6, <2>1, <2>2
  <2>4. L[i] \in B /\ At(L[i]) = L[i]
    BY <1>1, <1>6, <2>3
  <2>5. L[i] # FlHead /\ L[i] \in Nat
    BY <1>2, <2>4, Keys
  <2>6. b <= L[i]
    <3>1. CASE j = i
      BY <2>1, <3>1
    <3>2. CASE j < i
      <4>1. At(L[j]) < At(L[i])
        BY <1>1, <1>6, <2>1, <3>2
      <4> QED
        BY <2>1, <2>4, <2>5, <4>1
    <3> QED
      BY <2>3, <3>1, <3>2
  <2> QED
    BY <2>5, <2>6
<1>9. LastBefore(B, L[i], bp)
  BY <1>7, <1>8 DEF LastBefore
<1> QED
  BY <1>9, Zenon DEF NodeBefore, L, B, i, S

\* The last node of the list.
LEMMA EndIs ==
  ASSUME NEW f, IsFl(f), Linked(f.next, Blue(f))
  PROVE  /\ Last(List(f)) \in Blue(f) \cup {FlHead} /\ f.next[Last(List(f))] = Null
         /\ After(Blue(f), Last(List(f))) = {}
         /\ \A b \in Blue(f) : Last(List(f)) # FlHead /\ b <= Last(List(f))
<1> DEFINE L == List(f)
           B == Blue(f)
           e == Last(L)
<1>1. IsChain(f, L) /\ B \in SUBSET Addr
  BY ListChain, BlueIs
<1> HIDE DEF L, B
<1>2. e = L[Len(L)] /\ Len(L) \in 1..Len(L) /\ f.next[L[Len(L)]] = Null /\ e \in B \cup {FlHead}
  <2>1. e = L[Len(L)] /\ Len(L) \in Nat \ {0} /\ f.next[L[Len(L)]] = Null
        /\ \A i \in 1..Len(L) : L[i] \in B \cup {FlHead}
    BY <1>1 DEF IsChain, B
  <2> QED
    BY <2>1
<1>3. After(B, e) = {}
  BY <1>1, <1>2, NextIs DEF B
<1>4. ASSUME NEW b \in B PROVE e # FlHead /\ b <= e
  <2>1. b \notin After(B, e)
    BY <1>3
  <2>2. e # FlHead /\ ~ (e < b)
    BY <2>1 DEF After
  <2>3. e \in Nat /\ b \in Nat
    BY <1>1, <1>2, <2>2, Keys
  <2> QED
    BY <2>2, <2>3
<1> QED
  BY <1>2, <1>3, <1>4 DEF L, B

NewBlue(w) == [wosize |-> w, color |-> "blue"]
\* h is the list g with the block bp put in after the node prev.
Inserted(g, h, bp, w, prev) ==
  /\ IsFl(h) /\ Threaded(h) /\ DOMAIN h.hd = DOMAIN g.hd \cup {bp} /\ h.hd[bp] = NewBlue(w)
  /\ \A b \in DOMAIN g.hd : h.hd[b] = g.hd[b]
  /\ Blue(h) = Blue(g) \cup {bp} /\ h.next[prev] = bp /\ \A a \in Spot \ {prev, bp} : h.next[a] = g.next[a]
  /\ Wosize(h, bp) = w /\ \A b \in Blue(g) : Wosize(h, b) = Wosize(g, b)
  /\ LastBefore(Blue(g), prev, bp)
  /\ h.merge = MergePoint(g, prev, bp) /\ h.policy = g.policy /\ h.fragment = g.fragment

\* A new free block, linked where it belongs, keeps the list.
LEMMA InsertIs ==
  ASSUME NEW g, IsFl(g), Threaded(g), NEW bp \in Addr \ DOMAIN g.hd, NEW w \in 1..Words, NEW f,
         WithBlock(g, f, bp, NewBlue(w)), NEW prev, LastBefore(Blue(g), prev, bp), NEW h, IsFl(h),
         h.hd = f.hd, h.policy = f.policy, h.prev = f.prev, h.fragment = f.fragment,
         h.size = f.size + Whsize(f, bp), h.next = [f.next EXCEPT ![bp] = f.next[prev], ![prev] = bp],
         h.merge = MergePoint(f, prev, bp)
  PROVE  Inserted(g, h, bp, w, prev)
<1> DEFINE B == Blue(g)
           next == g.next
           N == h.next
<1>1. /\ DOMAIN f.hd = DOMAIN g.hd \cup {bp} /\ f.hd[bp] = NewBlue(w) /\ \A b \in DOMAIN g.hd : f.hd[b] = g.hd[b]
      /\ f.next = next /\ f.policy = g.policy /\ f.prev = g.prev /\ f.merge = g.merge
      /\ f.fragment = g.fragment /\ f.size = g.size
      /\ Blue(f) = B \cup {bp} /\ \A b \in B : Wosize(f, b) = Wosize(g, b) /\ Whsize(f, b) = Whsize(g, b)
  <2>1. NewBlue(w).color = "blue"
    BY DEF NewBlue
  <2> QED
    BY <2>1 DEF WithBlock
<1>2. B \in SUBSET Addr /\ B \subseteq DOMAIN g.hd /\ bp \in Addr \ B /\ bp # FlHead
  <2>1. B \in SUBSET Addr /\ B \subseteq DOMAIN g.hd
    BY BlueIs
  <2> QED
    BY <2>1, Keys
<1>3. Wosize(f, bp) = w /\ Whsize(f, bp) = w + 1 /\ Wosize(h, bp) = w /\ Whsize(h, bp) = w + 1
  BY <1>1, <1>2 DEF Wosize, Whsize, NewBlue
<1>4. Blue(h) = B \cup {bp} /\ \A b \in B : Wosize(h, b) = Wosize(g, b) /\ Whsize(h, b) = Whsize(g, b)
  <2>1. Blue(h) = Blue(f)
    BY DEF Blue
  <2>2. \A b : Wosize(h, b) = Wosize(f, b) /\ Whsize(h, b) = Whsize(f, b)
    BY DEF Wosize, Whsize
  <2> QED
    BY <1>1, <2>1, <2>2
<1>5. next \in [Spot -> Addr \cup {Null}] /\ Linked(next, B)
  BY DEF IsFl, Threaded
<1>6. N = [next EXCEPT ![bp] = next[prev], ![prev] = bp]
  BY <1>1
<1> HIDE DEF B, next, N
<1>7. /\ N \in [Spot -> Addr \cup {Null}] /\ Linked(N, B \cup {bp})
      /\ N[prev] = bp /\ \A a \in Spot \ {prev, bp} : N[a] = next[a]
  <2>1. LastBefore(B, prev, bp)
    BY DEF B
  <2>2. LinkedWith(B, next, prev, bp, LinksWith(next, prev, bp))
    BY <1>2, <1>5, <2>1, LinkInsert
  <2>3. N = LinksWith(next, prev, bp)
    BY <1>6 DEF LinksWith
  <2> QED
    BY <2>2, <2>3 DEF LinkedWith
<1>8. h.size = WordsOf(h, B \cup {bp})
  <2>1. WordsOf(h, B \cup {bp}) = WordsOf(g, B) + Whsize(h, bp)
    <3>1. B \in SUBSET DOMAIN g.hd /\ bp \notin B /\ Whsize(h, bp) \in Int
      BY <1>2, <1>3
    <3> QED
      BY <1>4, <3>1, WordsAdded
  <2>2. g.size = WordsOf(g, B)
    BY DEF Threaded, B
  <2> QED
    BY <1>1, <1>3, <2>1, <2>2
<1>9. prev \in B \cup {FlHead}
  BY DEF LastBefore, B
<1>10. h.merge = MergePoint(g, prev, bp) /\ h.merge \in B \cup {bp} \cup {FlHead}
  <2>1. g.merge \in B \cup {FlHead}
    BY DEF Threaded, B
  <2> QED
    BY <1>1, <2>1 DEF MergePoint
<1>11. h.policy = "next fit" => h.prev \in B \cup {bp} \cup {FlHead}
  BY <1>1 DEF Threaded, B
<1>12. Threaded(h)
  BY <1>4, <1>7, <1>8, <1>10, <1>11 DEF Threaded, N
<1> QED
  BY <1>1, <1>3, <1>4, <1>7, <1>10, <1>12 DEF Inserted, B, N, next

\* The new block is at the end of the list.
LEMMA AddAtEnd ==
  ASSUME NEW g, IsFl(g), Threaded(g), NEW bp \in Addr \ DOMAIN g.hd, NEW w \in 1..Words, NEW f,
         WithBlock(g, f, bp, NewBlue(w)), NEW last, last = Last(List(g)), bp > last, NEW h, h = AddBlocks(f, bp, last)
  PROVE  /\ Inserted(g, h, bp, w, last) /\ h.beyond = g.beyond
         /\ h.flp = IF FirstFitNow(g) /\ Len(g.flp) < FLP_MAX THEN Append(g.flp, last) ELSE g.flp
<1>1. /\ f.next = g.next /\ f.policy = g.policy /\ f.flp = g.flp /\ f.beyond = g.beyond /\ IsFl(f)
      /\ f.hd[bp] = NewBlue(w)
  BY DEF WithBlock
<1>2. last \in Blue(g) \cup {FlHead} /\ g.next[last] = Null /\ \A b \in Blue(g) : last # FlHead /\ b <= last
  BY EndIs DEF Threaded
<1>3. last # FlHead /\ last \in Blue(g) /\ last \in Addr /\ bp # last /\ bp \notin Blue(g) /\ bp # FlHead
  <2>1. FlHead > Words + 1 /\ FlHead \in Nat /\ Words \in Nat /\ bp \in 1..Words
    BY Spots
  <2>2. last # FlHead
    BY <2>1
  <2> QED
    BY <1>2, <2>1, <2>2, BlueIs
<1>4. LastBefore(Blue(g), last, bp)
  <2>1. last < bp
    <3>1. last \in Nat /\ bp \in Nat
      BY <1>3, Keys
    <3> QED
      BY <3>1
  <2> QED
    BY <1>2, <1>3, <2>1 DEF LastBefore
<1>5. f.next \in [Spot -> Addr \cup {Null}] /\ f.flp \in Seq(Spot) /\ last \in Spot /\ bp \in Spot /\ f.size \in Int
      /\ f.merge \in Spot /\ Len(f.flp) \in Nat /\ Len(f.flp) <= FLP_MAX
  <2>1. f.next \in [Spot -> Addr \cup {Null}] /\ f.flp \in Seq(Spot) /\ last \in Spot /\ bp \in Spot /\ f.size \in Int
        /\ f.merge \in Spot /\ Len(f.flp) <= FLP_MAX
    BY <1>1, <1>3, Keys DEF IsFl
  <2> QED
    BY <2>1, LenProperties
<1>6. g.next[bp] = Null
  BY <1>3 DEF Threaded, Linked
<1> DEFINE N == [f.next EXCEPT ![last] = bp]
           m == MergePoint(f, last, bp)
           t == IF f.policy = "first fit" /\ Len(f.flp) < FLP_MAX THEN Append(f.flp, last) ELSE f.flp
           z == f.size + Whsize(f, bp)
           u == [f EXCEPT !.size = z, !.next = N, !.merge = m, !.flp = t]
<1>7. h = u
  BY DEF AddBlocks, IsFl
<1>8. N = [f.next EXCEPT ![bp] = f.next[last], ![last] = bp] /\ N \in [Spot -> Addr \cup {Null}]
  BY <1>1, <1>2, <1>5, <1>6
<1>9. m \in Spot /\ z \in Int /\ t \in Seq(Spot) /\ Len(t) <= FLP_MAX
  <2>1. m \in Spot
    BY <1>5 DEF MergePoint
  <2>2. z \in Int
    BY <1>1, <1>3, <1>5 DEF Whsize, Wosize, NewBlue
  <2>3. t \in Seq(Spot) /\ Len(t) <= FLP_MAX
    <3>1. Append(f.flp, last) \in Seq(Spot) /\ Len(Append(f.flp, last)) = Len(f.flp) + 1
      BY <1>5, AppendProperties
    <3>2. FLP_MAX \in Nat
      BY HeapAssumption
    <3>3. CASE f.policy = "first fit" /\ Len(f.flp) < FLP_MAX
      <4>1. t = Append(f.flp, last) /\ Len(f.flp) < FLP_MAX
        BY <3>3
      <4> HIDE DEF t
      <4>2. Len(t) = Len(f.flp) + 1 /\ t \in Seq(Spot)
        BY <3>1, <4>1
      <4>3. Len(f.flp) + 1 <= FLP_MAX
        BY <1>5, <3>2, <4>1
      <4> QED
        BY <4>2, <4>3
    <3>4. CASE ~ (f.policy = "first fit" /\ Len(f.flp) < FLP_MAX)
      <4>1. t = f.flp
        BY <3>4
      <4> QED
        BY <1>5, <4>1
    <3> QED
      BY <3>3, <3>4
  <2> QED
    BY <2>1, <2>2, <2>3
<1> HIDE DEF N, m, t, z
<1>10. /\ u.hd = f.hd /\ u.policy = f.policy /\ u.prev = f.prev /\ u.fragment = f.fragment /\ u.size = z
       /\ u.next = N /\ u.merge = m /\ u.flp = t /\ u.beyond = f.beyond
  BY <1>1 DEF IsFl
<1>11. IsFl(u)
  <2>1. u \in [hd : [DOMAIN f.hd -> Block], next : [Spot -> Addr \cup {Null}],
            policy : {"next fit", "first fit"}, prev : Spot, merge : Spot,
            fragment : Addr \cup {Null}, size : Int, flp : Seq(Spot), beyond : Addr \cup {Null}]
    BY <1>1, <1>8, <1>9 DEF IsFl
  <2>2. DOMAIN u.hd \in SUBSET Addr /\ Len(u.flp) <= FLP_MAX
    BY <1>1, <1>9, <1>10 DEF IsFl
  <2> HIDE DEF u
  <2> QED
    BY <1>10, <2>1, <2>2 DEF IsFl
<1> HIDE DEF u
<1>12. Inserted(g, u, bp, w, last)
  BY <1>4, <1>8, <1>10, <1>11, InsertIs DEF z, m
<1> QED
  BY <1>1, <1>7, <1>10, <1>12 DEF t, FirstFitNow

\* The new block comes in before another one.
LEMMA AddInside ==
  ASSUME NEW g, IsFl(g), Threaded(g), Tabled(g), NEW bp \in Addr \ DOMAIN g.hd, NEW w \in 1..Words, NEW f,
         WithBlock(g, f, bp, NewBlue(w)), NEW last, ~ (bp > last), NEW h, h = AddBlocks(f, bp, last)
  PROVE  \E p, prev : /\ Inserted(g, p, bp, w, prev) /\ p.flp = g.flp /\ p.beyond = g.beyond
                      /\ h = IF FirstFitNow(g) THEN TruncateFlp(p, bp) ELSE p
<1> DEFINE prev == NodeBefore(List(g), bp)
<1>1. /\ f.next = g.next /\ f.policy = g.policy /\ f.flp = g.flp /\ f.beyond = g.beyond /\ IsFl(f)
      /\ f.hd[bp] = NewBlue(w) /\ List(f) = List(g)
  BY DEF WithBlock
<1>2. bp \in Addr \ Blue(g) /\ bp # FlHead /\ bp \in Spot
  BY BlueIs, Keys
<1>3. LastBefore(Blue(g), prev, bp) /\ prev \in Spot
  <2>1. LastBefore(Blue(g), prev, bp)
    BY <1>2, NodeBeforeIs DEF Threaded
  <2> QED
    BY <2>1, BlueIs DEF LastBefore, Spot
<1> HIDE DEF prev
<1> DEFINE N == [f.next EXCEPT ![bp] = f.next[prev], ![prev] = bp]
           m == MergePoint(f, prev, bp)
           z == f.size + Whsize(f, bp)
           p == [f EXCEPT !.size = z, !.next = N, !.merge = m]
<1>4. h = IF FirstFitNow(g) THEN TruncateFlp(p, bp) ELSE p
  <2>1. List(f)[Max({k \in DOMAIN List(f) : k = 1 \/ List(f)[k] < bp})] = prev
    BY <1>1, Zenon DEF prev, NodeBefore
  <2> DEFINE i == Max({k \in DOMAIN List(f) : k = 1 \/ List(f)[k] < bp})
             q(x) == [[f EXCEPT !.size = @ + Whsize(f, bp)] EXCEPT !.next = [@ EXCEPT ![bp] = f.next[x], ![x] = bp],
                                                                  !.merge = MergePoint(f, x, bp)]
  <2>2. h = IF f.policy = "first fit" THEN TruncateFlp(q(List(f)[i]), bp) ELSE q(List(f)[i])
    BY Zenon DEF AddBlocks
  <2>3. h = IF f.policy = "first fit" THEN TruncateFlp(q(prev), bp) ELSE q(prev)
    BY <2>1, <2>2
  <2>4. q(prev) = p
    BY <1>1 DEF IsFl
  <2> QED
    BY <1>1, <2>3, <2>4 DEF FirstFitNow
<1>5. f.next \in [Spot -> Addr \cup {Null}] /\ f.size \in Int /\ f.merge \in Spot
  BY <1>1 DEF IsFl
<1>6. N \in [Spot -> Addr \cup {Null}]
  BY <1>2, <1>3, <1>5
<1>7. m \in Spot /\ z \in Int
  <2>1. m \in Spot
    BY <1>2, <1>5 DEF MergePoint
  <2>2. z \in Int
    BY <1>1, <1>2, <1>5 DEF Whsize, Wosize, NewBlue
  <2> QED
    BY <2>1, <2>2
<1> HIDE DEF N, m, z
<1>8. /\ p.hd = f.hd /\ p.policy = f.policy /\ p.prev = f.prev /\ p.fragment = f.fragment /\ p.size = z
      /\ p.next = N /\ p.merge = m /\ p.flp = f.flp /\ p.beyond = f.beyond
  BY <1>1 DEF IsFl
<1>9. IsFl(p)
  <2>1. p \in [hd : [DOMAIN f.hd -> Block], next : [Spot -> Addr \cup {Null}],
            policy : {"next fit", "first fit"}, prev : Spot, merge : Spot,
            fragment : Addr \cup {Null}, size : Int, flp : Seq(Spot), beyond : Addr \cup {Null}]
    BY <1>1, <1>6, <1>7 DEF IsFl
  <2>2. DOMAIN p.hd \in SUBSET Addr /\ Len(p.flp) <= FLP_MAX
    BY <1>1, <1>8 DEF IsFl
  <2> HIDE DEF p
  <2> QED
    BY <1>8, <2>1, <2>2 DEF IsFl
<1> HIDE DEF p
<1>10. Inserted(g, p, bp, w, prev)
  BY <1>3, <1>8, <1>9, InsertIs DEF N, z, m
<1> QED
  BY <1>1, <1>4, <1>8, <1>10

NoHit(g, n) == \A k \in 1..Len(g.flp) : FirstFitNow(g) => Wosize(g, g.next[g.flp[k]]) < n

\* The block at the end is found by the entry that was appended, or past the table.
LEMMA AddedAtEndFits ==
  ASSUME NEW g, IsFl(g), Threaded(g), FirstFitNow(g), Tabled(g), NEW n \in 1..Words, NoHit(g, n),
         NEW bp \in Addr \ DOMAIN g.hd, NEW w \in 1..Words, n <= w, NEW last, last = Last(List(g)), bp > last,
         NEW h, Inserted(g, h, bp, w, last), h.beyond = g.beyond,
         h.flp = IF FirstFitNow(g) /\ Len(g.flp) < FLP_MAX THEN Append(g.flp, last) ELSE g.flp
  PROVE  Gives(h, FirstFit(h, n), n)
<1> DEFINE s == g.flp
           B == Blue(g)
           C == Blue(h)
           N == Len(s)
<1>1. /\ IsFl(h) /\ Threaded(h) /\ C = B \cup {bp} /\ h.next[last] = bp /\ \A a \in Spot \ {last, bp} : h.next[a] = g.next[a]
      /\ Wosize(h, bp) = w /\ \A b \in B : Wosize(h, b) = Wosize(g, b)
      /\ LastBefore(B, last, bp) /\ h.policy = g.policy
  BY DEF Inserted
<1>2. FirstFitNow(h) /\ Entries(B, s) /\ Beyond(B, s, g.beyond)
  BY <1>1 DEF FirstFitNow, Tabled
<1>3. B \in SUBSET Addr /\ C \in SUBSET Addr /\ s \in Seq(Spot) /\ N \in Nat /\ bp \in C /\ bp \notin B /\ bp \in Nat /\ At(bp) = bp
      /\ bp # FlHead
  <2>1. B \in SUBSET Addr /\ C \in SUBSET Addr /\ s \in Seq(Spot) /\ bp \in C
    BY <1>1, BlueIs DEF IsFl
  <2>2. bp \notin B
    BY BlueIs
  <2> QED
    BY <2>1, <2>2, LenProperties, Keys
<1>4. last \in B \cup {FlHead} /\ After(B, last) = {} /\ last # FlHead /\ last \in B /\ last \in Spot /\ last \in Nat /\ At(last) = last
      /\ \A b \in B : b <= last
  <2>1. last \in B \cup {FlHead} /\ After(B, last) = {} /\ \A b \in B : b <= last
    BY EndIs DEF Threaded
  <2>2. last # FlHead
    <3>1. FlHead > Words + 1 /\ FlHead \in Nat /\ Words \in Nat /\ bp \in 1..Words
      BY Spots
    <3> QED
      BY <3>1
  <2> QED
    BY <1>3, <2>1, <2>2, Keys
<1>5. \A k \in 1..N : s[k] \in B \cup {FlHead} /\ After(B, s[k]) # {} /\ s[k] # last /\ s[k] # bp /\ s[k] \in Spot
  <2>1. \A k \in 1..N : s[k] \in B \cup {FlHead} /\ After(B, s[k]) # {} /\ s[k] \in Spot
    BY <1>2, <1>3 DEF Entries
  <2> QED
    BY <1>3, <1>4, <2>1
<1>6. \A k \in 1..N : h.next[s[k]] = g.next[s[k]] /\ g.next[s[k]] \in B /\ Wosize(h, h.next[s[k]]) < n
  <2> SUFFICES ASSUME NEW k \in 1..N
               PROVE h.next[s[k]] = g.next[s[k]] /\ g.next[s[k]] \in B /\ Wosize(h, h.next[s[k]]) < n
    OBVIOUS
  <2>1. h.next[s[k]] = g.next[s[k]]
    BY <1>1, <1>5
  <2>2. g.next[s[k]] \in B
    <3> DEFINE e == s[k]
    <3>1. e \in B \cup {FlHead} /\ After(B, e) # {}
      BY <1>5
    <3> HIDE DEF e
    <3> QED
      BY <3>1, EntryLeads DEF Threaded, e
  <2>3. Wosize(g, g.next[s[k]]) < n
    BY DEF NoHit
  <2> QED
    BY <1>1, <2>1, <2>2, <2>3
<1>7. CASE N < FLP_MAX
  <2> DEFINE t == Append(s, last)
  <2>1. h.flp = t
    BY <1>7
  <2>2. t \in Seq(Spot) /\ Len(t) = N + 1 /\ t[N + 1] = last /\ \A k \in 1..N : t[k] = s[k]
    <3> HIDE DEF s
    <3> QED
      BY <1>3, <1>4 DEF N
  <2> HIDE DEF t
  <2>3. \A k \in 1..N + 1 : k = N + 1 \/ k \in 1..N
    BY <1>3
  <2>4. Entries(C, t)
    <3>1. \A k \in 1..N + 1 : t[k] \in C \cup {FlHead} /\ \E b \in C : At(t[k]) < b
      <4> SUFFICES ASSUME NEW k \in 1..N + 1 PROVE t[k] \in C \cup {FlHead} /\ \E b \in C : At(t[k]) < b
        OBVIOUS
      <4>1. CASE k = N + 1
        <5>1. t[k] = last
          BY <2>2, <4>1
        <5> QED
          BY <1>1, <1>3, <1>4, <5>1
      <4>2. CASE k \in 1..N
        <5>1. t[k] = s[k] /\ s[k] \in B \cup {FlHead} /\ s[k] \in Spot /\ After(B, s[k]) # {}
          BY <1>5, <2>2, <4>2
        <5>2. PICK b \in After(B, s[k]) : TRUE
          BY <5>1
        <5>3. b \in B /\ At(s[k]) < b
          BY <1>3, <5>1, AfterIs
        <5> QED
          BY <1>1, <5>1, <5>3
      <4> QED
        BY <2>3, <4>1, <4>2
    <3>2. \A k, l \in 1..N + 1 : k < l => t[l] \in C /\ At(t[k]) < t[l]
      <4> SUFFICES ASSUME NEW k \in 1..N + 1, NEW l \in 1..N + 1, k < l PROVE t[l] \in C /\ At(t[k]) < t[l]
        OBVIOUS
      <4>1. k \in 1..N /\ t[k] = s[k]
        BY <1>3, <2>2
      <4>2. CASE l \in 1..N
        <5>1. s[l] \in B /\ At(s[k]) < s[l]
          BY <1>2, <1>3, <4>1, <4>2, EntriesAre
        <5> QED
          BY <1>1, <2>2, <4>1, <4>2, <5>1
      <4>3. CASE l = N + 1
        <5>1. PICK b \in After(B, s[k]) : TRUE
          BY <1>5, <4>1
        <5>2. b \in B /\ At(s[k]) < b
          BY <1>3, <1>5, <4>1, AfterIs
        <5>3. b <= last /\ b \in Nat /\ At(s[k]) \in Nat
          BY <1>3, <1>4, <1>5, <4>1, <5>2, Keys
        <5> QED
          BY <1>1, <1>4, <2>2, <4>1, <4>3, <5>2, <5>3
      <4> QED
        BY <2>3, <4>2, <4>3
    <3> QED
      BY <1>3, <2>2, <3>1, <3>2, EntriesAre
  <2>5. Hits(h, n) = {Len(h.flp)}
    <3>1. Wosize(h, h.next[t[N + 1]]) = w
      BY <1>1, <2>2
    <3>2. \A k \in 1..N : ~ (Wosize(h, h.next[t[k]]) >= n)
      <4> SUFFICES ASSUME NEW k \in 1..N PROVE ~ (Wosize(h, h.next[t[k]]) >= n)
        OBVIOUS
      <4>1. Wosize(h, h.next[t[k]]) < n /\ Wosize(h, h.next[t[k]]) \in Nat
        <5>1. t[k] = s[k] /\ h.next[s[k]] \in Blue(h)
          BY <1>1, <1>6, <2>2
        <5>2. Wosize(h, h.next[s[k]]) \in Nat
          BY <1>1, <5>1, Sizes
        <5> QED
          BY <1>6, <5>1, <5>2
      <4> QED
        BY <4>1
    <3>3. N + 1 \in 1..N + 1
      BY <1>3
    <3>4. Hits(h, n) = {i \in 1..N + 1 : Wosize(h, h.next[t[i]]) >= n}
      BY <2>1, <2>2 DEF Hits
    <3> QED
      BY <2>1, <2>2, <2>3, <3>1, <3>2, <3>3, <3>4
  <2>6. Hits(h, n) # {}
    BY <2>5
  <2> QED
    BY <1>1, <1>2, <2>1, <2>4, <2>5, <2>6, FirstFitIs
<1>8. CASE ~ (N < FLP_MAX)
  <2>1. h.flp = s
    BY <1>8
  <2>2. Entries(C, s) /\ Beyond(C, s, h.beyond)
    <3>1. \A a : After(B, a) \subseteq After(C, a)
      BY <1>1 DEF After
    <3>2. Entries(C, s)
      <4>1. \A k \in 1..N : s[k] \in C \cup {FlHead} /\ After(C, s[k]) # {}
        BY <1>1, <1>5, <3>1
      <4>2. \A k, l \in 1..N : k < l => s[l] \in After(C, s[k])
        BY <1>2, <3>1 DEF Entries
      <4> QED
        BY <4>1, <4>2 DEF Entries
    <3>3. Beyond(C, s, g.beyond)
      BY <1>1, <1>2, <3>1 DEF Beyond
    <3> QED
      BY <3>2, <3>3
  <2>3. At(StartNode(h)) < bp
    <3>1. N # 0
      <4>1. FLP_MAX \in Nat \ {0}
        BY HeapAssumption
      <4> HIDE DEF N
      <4> QED
        BY <1>3, <1>8, <4>1
    <3>2. StartNode(h) \in B
      <4>1. CASE h.beyond # Null
        <5>1. StartNode(h) = g.beyond
          BY <1>3, <2>1, <3>1, <4>1 DEF StartNode
        <5> QED
          BY <1>2, <4>1, <5>1 DEF Beyond
      <4>2. CASE h.beyond = Null
        <5>1. StartNode(h) = h.next[s[N]] /\ N \in 1..N
          <6>1. StartNode(h) = h.next[s[Len(s)]]
            BY <2>1, <3>1, <4>2 DEF StartNode, Known, Last
          <6> HIDE DEF N
          <6>2. N \in 1..N
            BY <1>3, <3>1
          <6> QED
            BY <6>1, <6>2 DEF N
        <5> QED
          BY <1>6, <5>1
      <4> QED
        BY <4>1, <4>2
    <3>3. StartNode(h) <= last /\ At(StartNode(h)) = StartNode(h) /\ StartNode(h) \in Nat
      BY <1>3, <1>4, <3>2, Keys
    <3> QED
      BY <1>3, <1>4, <3>3
  <2>4. Beyond(Blue(h), h.flp, h.beyond) /\ Entries(Blue(h), h.flp)
    BY <2>1, <2>2
  <2>5. bp \in Blue(h) /\ Wosize(h, bp) >= n
    BY <1>1, <1>3
  <2> QED
    BY <1>1, <1>2, <2>3, <2>4, <2>5, FirstFitIs
<1> QED
  BY <1>7, <1>8

\* A block put in elsewhere is past the table, which was cut back to it.
LEMMA AddedInsideFits ==
  ASSUME NEW g, IsFl(g), Threaded(g), FirstFitNow(g), Tabled(g), NEW n \in 1..Words,
         NEW bp \in Addr \ DOMAIN g.hd, NEW w \in 1..Words, n <= w, NEW prev,
         NEW p, Inserted(g, p, bp, w, prev), p.flp = g.flp, p.beyond = g.beyond
  PROVE  LET h == TruncateFlp(p, bp) IN IsFl(h) /\ SameList(p, h) /\ Gives(h, FirstFit(h, n), n)
<1> DEFINE h == TruncateFlp(p, bp)
           s == g.flp
           B == Blue(g)
           C == Blue(p)
<1>1. /\ IsFl(p) /\ Threaded(p) /\ C = B \cup {bp} /\ Wosize(p, bp) = w /\ p.policy = g.policy
  BY DEF Inserted
<1>2. Entries(B, s) /\ Beyond(B, s, g.beyond)
  BY DEF FirstFitNow, Tabled
<1>3. Entries(C, s) /\ Beyond(C, s, p.beyond)
  <2>1. \A a : After(B, a) \subseteq After(C, a)
    BY <1>1 DEF After
  <2>2. Entries(C, s)
    <3>1. \A k \in 1..Len(s) : s[k] \in C \cup {FlHead} /\ After(C, s[k]) # {}
      BY <1>1, <1>2, <2>1 DEF Entries
    <3>2. \A k, l \in 1..Len(s) : k < l => s[l] \in After(C, s[k])
      BY <1>2, <2>1 DEF Entries
    <3> QED
      BY <3>1, <3>2 DEF Entries
  <2>3. Beyond(C, s, g.beyond)
    BY <1>1, <1>2, <2>1 DEF Beyond
  <2> QED
    BY <2>2, <2>3
<1>4. bp \in Spot /\ At(bp) = bp /\ bp \in Nat /\ bp # FlHead /\ bp >= 1
  BY Keys
<1>5. Truncated(p, h, bp)
  BY <1>1, <1>3, <1>4, TruncateIs DEF Threaded
<1> HIDE DEF h
<1>6. /\ IsFl(h) /\ SameList(p, h) /\ Entries(C, h.flp) /\ Beyond(C, h.flp, h.beyond)
      /\ \A k \in 1..Len(h.flp) : p.next[h.flp[k]] < bp /\ p.next[h.flp[k]] \in C
      /\ h.beyond # Null => h.beyond < bp
  BY <1>4, <1>5 DEF Truncated
<1>7. Blue(h) = C /\ Threaded(h) /\ Wosize(h, bp) = w /\ h.next = p.next /\ FirstFitNow(h)
  <2>1. Blue(h) = C /\ (Threaded(p) => Threaded(h)) /\ \A b : Wosize(h, b) = Wosize(p, b)
    BY <1>1, <1>6, SameListIs
  <2>2. h.next = p.next /\ FirstFitNow(h)
    BY <1>1, <1>6 DEF SameList, FirstFitNow
  <2> QED
    BY <1>1, <2>1, <2>2
<1>8. At(StartNode(h)) < bp
  <2>0. C \in SUBSET Addr /\ h.flp \in Seq(Spot) /\ Len(h.flp) \in Nat
    <3>1. C \in SUBSET Addr /\ h.flp \in Seq(Spot)
      BY <1>1, <1>6, BlueIs DEF IsFl
    <3> QED
      BY <3>1, LenProperties
  <2>1. CASE Len(h.flp) = 0
    <3>1. StartNode(h) = FlHead
      BY <2>1 DEF StartNode, Known
    <3> QED
      BY <1>4, <3>1, Keys
  <2>2. CASE Len(h.flp) # 0 /\ h.beyond # Null
    <3>1. StartNode(h) = h.beyond /\ h.beyond \in C
      BY <1>6, <2>0, <2>2 DEF StartNode, Beyond
    <3> QED
      BY <1>6, <2>0, <2>2, <3>1, Keys
  <2>3. CASE Len(h.flp) # 0 /\ h.beyond = Null
    <3>1. StartNode(h) = p.next[h.flp[Len(h.flp)]] /\ Len(h.flp) \in 1..Len(h.flp)
      BY <1>7, <2>0, <2>3 DEF StartNode, Known, Last
    <3>2. StartNode(h) < bp /\ StartNode(h) \in C
      BY <1>6, <3>1
    <3> QED
      BY <2>0, <3>2, Keys
  <2> QED
    BY <2>1, <2>2, <2>3
<1>9. bp \in Blue(h) /\ Wosize(h, bp) >= n
  BY <1>1, <1>7
<1>10. Gives(h, FirstFit(h, n), n)
  BY <1>6, <1>7, <1>8, <1>9, FirstFitIs
<1> QED
  BY <1>6, <1>10 DEF h

\* The allocation that follows the growth of the heap finds a block.
LEMMA AddedFits ==
  ASSUME NEW g, IsFl(g), Threaded(g), Tabled(g), NEW n \in 1..Words, NoHit(g, n),
         NEW bp \in Addr \ DOMAIN g.hd, NEW w \in 1..Words, n <= w, NEW f, WithBlock(g, f, bp, NewBlue(w)),
         NEW last, last = Last(List(g)), NEW h, h = AddBlocks(f, bp, last)
  PROVE  \E p, prev : /\ Inserted(g, p, bp, w, prev) /\ SameList(p, h) /\ IsFl(h)
                      /\ Gives(h, FlAllocate(h, n), n)
<1>1. CASE bp > last
  <2>1. /\ Inserted(g, h, bp, w, last) /\ h.beyond = g.beyond
        /\ h.flp = IF FirstFitNow(g) /\ Len(g.flp) < FLP_MAX THEN Append(g.flp, last) ELSE g.flp
    BY <1>1, AddAtEnd
  <2>2. IsFl(h) /\ Threaded(h) /\ h.policy = g.policy /\ bp \in Blue(h) /\ Wosize(h, bp) = w
    BY <2>1 DEF Inserted
  <2>3. Gives(h, FlAllocate(h, n), n)
    <3>1. CASE FirstFitNow(g)
      <4>1. Gives(h, FirstFit(h, n), n)
        BY <1>1, <2>1, <3>1, AddedAtEndFits
      <4> QED
        BY <2>2, <3>1, <4>1 DEF FlAllocate, FirstFitNow
    <3>2. CASE NextFitNow(g)
      <4>1. Gives(h, NextFit(h, n), n)
        BY <2>2, <3>2, NextFitIs DEF NextFitNow
      <4> QED
        BY <2>2, <3>2, <4>1 DEF FlAllocate, NextFitNow
    <3> QED
      BY <3>1, <3>2, TwoPolicies
  <2>4. SameList(h, h)
    BY DEF SameList
  <2> QED
    BY <2>1, <2>2, <2>3, <2>4
<1>2. CASE ~ (bp > last)
  <2>1. PICK p, prev : /\ Inserted(g, p, bp, w, prev) /\ p.flp = g.flp /\ p.beyond = g.beyond
                       /\ h = IF FirstFitNow(g) THEN TruncateFlp(p, bp) ELSE p
    BY <1>2, AddInside
  <2>2. IsFl(p) /\ Threaded(p) /\ p.policy = g.policy /\ bp \in Blue(p) /\ Wosize(p, bp) = w
    BY <2>1 DEF Inserted
  <2>3. CASE FirstFitNow(g)
    <3>1. h = TruncateFlp(p, bp)
      BY <2>1, <2>3
    <3>2. IsFl(h) /\ SameList(p, h) /\ Gives(h, FirstFit(h, n), n)
      BY <2>1, <2>3, <3>1, AddedInsideFits
    <3>3. Gives(h, FlAllocate(h, n), n)
      BY <2>2, <2>3, <3>2 DEF FlAllocate, FirstFitNow, SameList
    <3> QED
      BY <2>1, <3>2, <3>3
  <2>4. CASE NextFitNow(g)
    <3>1. h = p
      BY <2>1, <2>4, TwoPolicies
    <3>2. Gives(p, NextFit(p, n), n)
      BY <2>2, <2>4, NextFitIs DEF NextFitNow
    <3>3. Gives(h, FlAllocate(h, n), n)
      BY <2>2, <2>4, <3>1, <3>2 DEF FlAllocate, NextFitNow
    <3>4. SameList(p, h)
      BY <3>1 DEF SameList
    <3> QED
      BY <2>1, <2>2, <3>1, <3>3, <3>4
  <2> QED
    BY <2>3, <2>4, TwoPolicies
<1> QED
  BY <1>1, <1>2

-----------------------------------------------------------------------------
(* A block is merged into the free list *)

\* The parts of MergeBlock.
MTail(f, bp) == f.fragment # Null /\ f.fragment + 1 = bp
MStart(f, bp) == IF MTail(f, bp) THEN f.fragment ELSE bp
MSize0(f, bp) == Wosize(f, bp) + IF MTail(f, bp) THEN 1 ELSE 0
MCur(f) == f.next[f.merge]
MEats(f, bp) == MCur(f) # Null /\ MStart(f, bp) + MSize0(f, bp) + 1 = MCur(f)
MSize(f, bp) == MSize0(f, bp) + IF MEats(f, bp) THEN Whsize(f, MCur(f)) ELSE 0
MGlued(f, bp) == f.merge # FlHead /\ f.merge + Whsize(f, f.merge) = MStart(f, bp)
MGone(f, bp) == ({bp} \ {MStart(f, bp)}) \cup (IF MEats(f, bp) THEN {MCur(f)} ELSE {})
                \cup (IF MGlued(f, bp) THEN {MStart(f, bp)} ELSE {})
MTotal(f, bp) == f.size + Whsize(f, bp) + IF MTail(f, bp) THEN 1 ELSE 0
MTable(f) == IF f.policy = "first fit" THEN TruncateFlp(f, f.merge) ELSE f
MList(f, bp) == IF MEats(f, bp) THEN Unlink(MTable(f), f.merge, MCur(f)) ELSE MTable(f)
MPut(f, bp, m, at) == Over(MapsTo(at, [wosize |-> m, color |-> "blue"]), Without(MTable(f).hd, MGone(f, bp)))

\* The cases of caml_fl_merge_block.
LEMMA MergeBlockParts ==
  ASSUME NEW f, NEW bp
  PROVE  LET b == MStart(f, bp)
             n == MSize(f, bp)
             prev == f.merge
             g == MList(f, bp)
         IN  MergeBlock(f, bp) =
               [adj |-> b + n + 1,
                f |-> IF MGlued(f, bp)
                      THEN [g EXCEPT !.hd = MPut(f, bp, Whsize(f, prev) + n, prev), !.size = MTotal(f, bp)]
                      ELSE IF n # 0
                      THEN [g EXCEPT !.hd = MPut(f, bp, n, b),
                                     !.next = [@ EXCEPT ![b] = g.next[prev], ![prev] = b],
                                     !.merge = b, !.size = MTotal(f, bp)]
                      ELSE [g EXCEPT !.fragment = bp, !.size = MTotal(f, bp) - 1]]
BY Zenon DEF MergeBlock, MStart, MSize, MSize0, MTail, MEats, MCur, MGlued, MGone, MTotal, MTable, MList, MPut

\* The blocks of a heap do not overlap.
Apart(hd) == \A a, b \in DOMAIN hd : a < b => Stop(hd, a) <= b
Inside1(hd) == \A a \in DOMAIN hd : Stop(hd, a) <= Words + 1

\* What holds of a white block that is being merged.
Mergeable(f, bp) ==
  /\ IsFl(f) /\ Sound(f.hd) /\ Threaded(f) /\ Tabled(f) /\ Apart(f.hd) /\ Inside1(f.hd)
  /\ bp \in DOMAIN f.hd /\ f.hd[bp].color = "white"
  /\ LastBefore(Blue(f), f.merge, bp) /\ FragmentAt(f, bp)

\* The block is white, and so is the fragment before it.
StartFacts(f, bp, b, n0) ==
  /\ b \in DOMAIN f.hd /\ b \notin Blue(f) /\ f.hd[b].color = "white" /\ b <= bp /\ (b # bp => b + 1 = bp)
  /\ n0 \in Nat /\ b + n0 + 1 = Stop(f.hd, bp) /\ LastBefore(Blue(f), f.merge, b)
  /\ n0 + 1 = Whsize(f, bp) + (IF MTail(f, bp) THEN 1 ELSE 0) /\ b \in Nat
  /\ b # bp => n0 # 0
  /\ b \in Addr /\ b < Stop(f.hd, bp)
  /\ b # bp => f.hd[b].wosize = 0

\* The block to be merged starts at the fragment before it, if there is one.
LEMMA StartFactsAre ==
  ASSUME NEW f, NEW bp, Mergeable(f, bp)
  PROVE  StartFacts(f, bp, MStart(f, bp), MSize0(f, bp))
<1> DEFINE b == MStart(f, bp)
           n0 == MSize0(f, bp)
<1>1. /\ IsFl(f) /\ Sound(f.hd) /\ Threaded(f) /\ bp \in DOMAIN f.hd /\ f.hd[bp].color = "white"
      /\ LastBefore(Blue(f), f.merge, bp) /\ FragmentAt(f, bp)
  BY DEF Mergeable
<1>2. bp \in Addr /\ bp \in Nat /\ Wosize(f, bp) = f.hd[bp].wosize /\ Wosize(f, bp) \in Nat /\ bp # FlHead /\ bp # Null
  <2>1. bp \in Addr
    BY <1>1 DEF IsFl
  <2> QED
    BY <1>1, <2>1, Sizes, Keys
<1>3. bp \notin Blue(f) /\ Whsize(f, bp) = Wosize(f, bp) + 1 /\ Stop(f.hd, bp) = bp + Wosize(f, bp) + 1
  <2>1. bp \notin Blue(f)
    BY <1>1 DEF Blue
  <2> QED
    BY <1>2, <2>1 DEF Whsize, Stop
<1>4. CASE MTail(f, bp)
  <2>1. b = f.fragment /\ b + 1 = bp /\ b # Null /\ n0 = Wosize(f, bp) + 1
    BY <1>4 DEF MTail, MStart, MSize0
  <2>2. b \in DOMAIN f.hd /\ f.hd[b] = [wosize |-> 0, color |-> "white"]
    BY <1>1, <2>1 DEF FragmentAt
  <2>3. f.hd[b].color = "white" /\ f.hd[b].wosize = 0
    BY <2>2
  <2>4. b \notin Blue(f) /\ b \in Addr
    BY <1>1, <2>2, <2>3 DEF Blue, IsFl
  <2>5. b \in Nat
    BY <2>4, Keys
  <2> HIDE DEF b, n0
  <2>6. LastBefore(Blue(f), f.merge, b)
    <3>1. f.merge \in Blue(f) \cup {FlHead} /\ (f.merge = FlHead \/ f.merge < bp)
          /\ \A x \in Blue(f) : x < bp => f.merge # FlHead /\ x <= f.merge
      BY <1>1 DEF LastBefore
    <3>2. \A x \in Blue(f) : x \in Nat /\ x # b
      BY <1>1, <2>4, BlueIs, Keys
    <3>3. f.merge = FlHead \/ f.merge < b
      BY <1>2, <2>1, <2>5, <3>1, <3>2
    <3>4. \A x \in Blue(f) : x < b => f.merge # FlHead /\ x <= f.merge
      BY <1>2, <2>1, <2>5, <3>1, <3>2
    <3> QED
      BY <3>1, <3>3, <3>4 DEF LastBefore
  <2>7. n0 \in Nat /\ b + n0 + 1 = Stop(f.hd, bp) /\ b <= bp /\ n0 + 1 = Whsize(f, bp) + 1 /\ b < Stop(f.hd, bp) /\ n0 # 0
    BY <1>2, <1>3, <2>1, <2>5
  <2> QED
    BY <1>4, <2>1, <2>2, <2>3, <2>4, <2>5, <2>6, <2>7 DEF StartFacts, b, n0
<1>5. CASE ~ MTail(f, bp)
  <2>1. b = bp /\ n0 = Wosize(f, bp)
    BY <1>2, <1>5 DEF MStart, MSize0
  <2> HIDE DEF b, n0
  <2>2. n0 \in Nat /\ b + n0 + 1 = Stop(f.hd, bp) /\ b <= bp /\ n0 + 1 = Whsize(f, bp) + 0 /\ b < Stop(f.hd, bp)
    BY <1>2, <1>3, <2>1
  <2> QED
    BY <1>1, <1>2, <1>3, <1>5, <2>1, <2>2 DEF StartFacts, b, n0
<1> QED
  BY <1>4, <1>5

MAdj(f, bp) == MStart(f, bp) + MSize(f, bp) + 1
MLo(f, bp) == IF MGlued(f, bp) THEN f.merge ELSE MStart(f, bp)

EatFacts(f, bp, cur, n0, n, adj) ==
  /\ cur \in Blue(f) /\ cur \in After(Blue(f), f.merge) /\ cur = Stop(f.hd, bp) /\ adj = Stop(f.hd, cur)
  /\ n = n0 + Whsize(f, cur) /\ Whsize(f, cur) \in Nat /\ Whsize(f, cur) >= 1 /\ cur \in DOMAIN f.hd /\ cur \in Nat
  /\ cur # f.merge /\ Whsize(f, cur) = f.hd[cur].wosize + 1

\* The free block right after it is eaten.
LEMMA EatFactsAre ==
  ASSUME NEW f, NEW bp, Mergeable(f, bp), MEats(f, bp)
  PROVE  EatFacts(f, bp, MCur(f), MSize0(f, bp), MSize(f, bp), MAdj(f, bp))
<1> DEFINE b == MStart(f, bp)
           n0 == MSize0(f, bp)
           cur == MCur(f)
           n == MSize(f, bp)
           adj == MAdj(f, bp)
           prev == f.merge
<1>1. IsFl(f) /\ Threaded(f) /\ Linked(f.next, Blue(f)) /\ prev \in Blue(f) \cup {FlHead} /\ Blue(f) \in SUBSET Addr
  BY BlueIs DEF Mergeable, Threaded
<1>2. StartFacts(f, bp, b, n0)
  BY StartFactsAre
<1>3. cur # Null /\ b + n0 + 1 = cur
  BY DEF MEats
<1>4. cur \in After(Blue(f), prev) /\ cur \in Blue(f) /\ cur # prev
  BY <1>1, <1>3, NextIs DEF MCur
<1>5. n = n0 + Whsize(f, cur) /\ adj = b + n + 1
  BY DEF MSize, MAdj
<1> HIDE DEF b, n0, cur, n, adj
<1>6. cur \in DOMAIN f.hd /\ cur \in Nat /\ cur # FlHead /\ Wosize(f, cur) = f.hd[cur].wosize /\ Wosize(f, cur) \in Nat
  BY <1>1, <1>4, BlueIs, Sizes, Keys
<1>7. Whsize(f, cur) = Wosize(f, cur) + 1
  BY DEF Whsize
<1>8. b \in Nat /\ n0 \in Nat /\ b + n0 + 1 = Stop(f.hd, bp)
  BY <1>2 DEF StartFacts
<1>9. Stop(f.hd, cur) = cur + Wosize(f, cur) + 1
  BY <1>6 DEF Stop
<1>10. adj = Stop(f.hd, cur)
  BY <1>3, <1>5, <1>6, <1>7, <1>8, <1>9
<1>11. Whsize(f, cur) \in Nat /\ Whsize(f, cur) >= 1 /\ Whsize(f, cur) = f.hd[cur].wosize + 1
  BY <1>6, <1>7
<1> QED
  BY <1>3, <1>4, <1>5, <1>6, <1>8, <1>10, <1>11 DEF EatFacts, b, n0, cur, n, adj

\* The block cur is the free block after bp, when it is eaten.
Eaten(f, bp) == IF MEats(f, bp) THEN {MCur(f)} ELSE {}
\* What is merged: the words from lo on, up to adj.
Region(f, bp, lo, b, n, adj) ==
  /\ adj \in Nat /\ n \in Nat /\ adj = b + n + 1 /\ adj <= Words + 1 /\ bp < adj /\ b < adj
  /\ lo \in DOMAIN f.hd /\ lo \in Nat /\ lo <= b /\ lo >= 1
  /\ MGone(f, bp) = {x \in DOMAIN f.hd : lo < x /\ x < adj}
  /\ \A x \in Blue(f) \ Eaten(f, bp) : At(f.merge) < x => adj <= x
  /\ n = 0 => b = bp /\ f.hd[bp].wosize = 0 /\ ~ MEats(f, bp)
  /\ MGlued(f, bp) => f.merge \in Blue(f) /\ Stop(f.hd, f.merge) = b /\ lo = f.merge /\ f.merge < b
                      /\ Whsize(f, f.merge) + n = adj - lo - 1 /\ Whsize(f, f.merge) = f.hd[f.merge].wosize + 1
  /\ ~ MGlued(f, bp) => lo = b
  /\ adj = IF MEats(f, bp) THEN Stop(f.hd, MCur(f)) ELSE Stop(f.hd, bp)

\* The words that become one free block, from the first to the last.
LEMMA RegionIs ==
  ASSUME NEW f, NEW bp, Mergeable(f, bp)
  PROVE  Region(f, bp, MLo(f, bp), MStart(f, bp), MSize(f, bp), MAdj(f, bp))
<1> DEFINE hd == f.hd
           B == Blue(f)
           prev == f.merge
           cur == MCur(f)
           b == MStart(f, bp)
           n0 == MSize0(f, bp)
           n == MSize(f, bp)
           adj == MAdj(f, bp)
           lo == MLo(f, bp)
           gone == MGone(f, bp)
           eats == MEats(f, bp)
           glued == MGlued(f, bp)
<1>1. /\ IsFl(f) /\ Linked(f.next, B) /\ prev \in B \cup {FlHead} /\ B \in SUBSET Addr /\ bp \in DOMAIN hd
      /\ DOMAIN hd \in SUBSET Addr /\ B \subseteq DOMAIN hd /\ Apart(hd) /\ Inside1(hd) /\ LastBefore(B, prev, bp)
      /\ \A x \in DOMAIN hd : hd[x] \in Block
  BY BlueIs DEF Mergeable, Threaded, IsFl
<1>2. StartFacts(f, bp, b, n0)
  BY StartFactsAre
<1>3. eats => EatFacts(f, bp, cur, n0, n, adj)
  BY EatFactsAre
<1>4. /\ adj = b + n + 1 /\ (~ eats => n = n0 + 0) /\ lo = (IF glued THEN prev ELSE b)
      /\ gone = ({bp} \ {b}) \cup (IF eats THEN {cur} ELSE {}) \cup (IF glued THEN {b} ELSE {})
      /\ (glued <=> prev # FlHead /\ prev + Whsize(f, prev) = b)
  BY DEF MAdj, MSize, MLo, MGone, MGlued
<1> HIDE DEF hd, B, prev, cur, b, n0, n, adj, lo, gone, eats, glued
<1>5. Words \in Nat /\ \A x \in DOMAIN hd : /\ x \in Nat /\ x >= 1 /\ x <= Words /\ x # FlHead /\ At(x) = x
                                            /\ hd[x].wosize \in Nat /\ Stop(hd, x) = x + hd[x].wosize + 1
                                            /\ Stop(hd, x) \in Nat /\ x < Stop(hd, x)
                                            /\ Stop(hd, x) <= Words + 1
  <2>1. \A x \in DOMAIN hd : hd[x].wosize \in Nat
    BY <1>1, Spots DEF Block
  <2>2. \A x \in DOMAIN hd : x \in Nat /\ x >= 1 /\ x <= Words /\ x # FlHead /\ At(x) = x
    BY <1>1, Keys, Spots
  <2>3. \A x \in DOMAIN hd : Stop(hd, x) = x + hd[x].wosize + 1
    BY DEF Stop
  <2>4. \A x \in DOMAIN hd : Stop(hd, x) <= Words + 1
    BY <1>1 DEF Inside1
  <2> QED
    BY <2>1, <2>2, <2>3, <2>4, Spots
<1>6. /\ b \in DOMAIN hd /\ b \notin B /\ b <= bp /\ (b # bp => b + 1 = bp) /\ n0 \in Nat /\ b + n0 + 1 = Stop(hd, bp)
      /\ (b # bp => n0 # 0) /\ b < Stop(hd, bp) /\ LastBefore(B, prev, b)
      /\ b \in Nat
  BY <1>2 DEF StartFacts, hd, B, prev
<1>7. ASSUME eats
      PROVE  /\ cur \in B /\ cur \in DOMAIN hd /\ cur = Stop(hd, bp) /\ adj = Stop(hd, cur) /\ n \in Nat /\ n # 0
             /\ cur \in Nat /\ At(prev) < cur /\ cur < adj /\ bp < cur
  <2>1. /\ cur \in B /\ cur \in After(B, prev) /\ cur = Stop(hd, bp) /\ adj = Stop(hd, cur)
        /\ n = n0 + Whsize(f, cur) /\ Whsize(f, cur) \in Nat /\ Whsize(f, cur) >= 1 /\ cur \in DOMAIN hd
    BY <1>3, <1>7 DEF EatFacts, B, prev, hd
  <2>2. At(prev) < cur
    <3>1. prev \in Spot
      BY <1>1 DEF Spot
    <3> QED
      BY <1>1, <2>1, <3>1, AfterIs
  <2>3. n \in Nat /\ n # 0
    BY <1>6, <2>1
  <2> QED
    BY <1>1, <1>5, <2>1, <2>2, <2>3
<1>8. ~ eats => adj = Stop(hd, bp) /\ n = n0
  BY <1>4, <1>6
<1>9. adj \in Nat /\ n \in Nat /\ adj <= Words + 1 /\ bp < adj /\ b < adj /\ Stop(hd, bp) <= adj
  <2>1. CASE eats
    BY <1>1, <1>5, <1>6, <1>7, <2>1
  <2>2. CASE ~ eats
    BY <1>1, <1>5, <1>6, <1>8, <2>2
  <2> QED
    BY <2>1, <2>2
<1>10. ASSUME glued
       PROVE  /\ prev \in B /\ Stop(hd, prev) = b /\ lo = prev /\ prev < b /\ prev \in DOMAIN hd
              /\ Whsize(f, prev) = hd[prev].wosize + 1 /\ Whsize(f, prev) + n = adj - lo - 1
  <2>1. prev \in B /\ prev # FlHead /\ prev + Whsize(f, prev) = b /\ lo = prev
    BY <1>1, <1>4, <1>10
  <2>2. Whsize(f, prev) = hd[prev].wosize + 1
    BY <1>1, <2>1, Sizes DEF Whsize, hd, B
  <2>3. prev \in DOMAIN hd
    BY <1>1, <2>1
  <2>4. Stop(hd, prev) = b /\ prev < b
    BY <1>5, <2>1, <2>2, <2>3
  <2>5. Whsize(f, prev) + n = adj - lo - 1
    BY <1>4, <1>5, <1>6, <1>9, <2>1, <2>2, <2>3
  <2> QED
    BY <2>1, <2>2, <2>3, <2>4, <2>5
<1>11. lo \in DOMAIN hd /\ lo \in Nat /\ lo <= b /\ lo >= 1
  <2>1. CASE glued
    BY <1>5, <1>6, <1>10, <2>1
  <2>2. CASE ~ glued
    BY <1>4, <1>5, <1>6, <2>2
  <2> QED
    BY <2>1, <2>2
<1>12. \A x \in DOMAIN hd : \A y \in DOMAIN hd : x < y => Stop(hd, x) <= y
  BY <1>1 DEF Apart
<1>13. gone = {x \in DOMAIN hd : lo < x /\ x < adj}
  <2>1. ASSUME NEW x \in gone PROVE x \in DOMAIN hd /\ lo < x /\ x < adj
    <3>1. (x = bp /\ x # b) \/ (eats /\ x = cur) \/ (glued /\ x = b)
      BY <1>4, <2>1
    <3>2. CASE x = bp /\ x # b
      BY <1>1, <1>5, <1>6, <1>9, <1>11, <3>2
    <3>3. CASE eats /\ x = cur
      BY <1>1, <1>5, <1>6, <1>7, <1>11, <3>3
    <3>4. CASE glued /\ x = b
      BY <1>6, <1>9, <1>10, <3>4
    <3> QED
      BY <3>1, <3>2, <3>3, <3>4
  <2>2. ASSUME NEW x \in DOMAIN hd, lo < x, x < adj PROVE x \in gone
    <3>0. x \in Nat /\ x < Stop(hd, x) /\ Stop(hd, x) \in Nat
      BY <1>5
    <3>1. x < b \/ x = b \/ (b < x /\ x < bp) \/ x = bp \/ bp < x
      BY <1>1, <1>5, <1>6
    <3>2. CASE x < b
      <4>1. CASE glued
        <5>1. Stop(hd, prev) <= x /\ Stop(hd, prev) = b
          BY <1>10, <1>12, <2>2, <4>1
        <5> QED
          BY <1>6, <3>0, <3>2, <5>1
      <4>2. CASE ~ glued
        BY <1>4, <1>6, <2>2, <3>0, <3>2, <4>2
      <4> QED
        BY <4>1, <4>2
    <3>3. CASE x = b
      <4>1. CASE glued
        BY <1>4, <3>3, <4>1
      <4>2. CASE ~ glued
        BY <1>4, <1>6, <2>2, <3>3, <4>2
      <4> QED
        BY <4>1, <4>2
    <3>4. CASE b < x /\ x < bp
      BY <1>1, <1>5, <1>6, <3>0, <3>4
    <3>5. CASE x = bp
      <4>1. CASE b = bp
        BY <3>3, <3>5, <4>1
      <4>2. CASE b # bp
        BY <1>4, <3>5, <4>2
      <4> QED
        BY <4>1, <4>2
    <3>6. CASE bp < x
      <4>1. Stop(hd, bp) <= x
        BY <1>1, <1>12, <3>6
      <4>2. CASE eats
        <5>1. x = cur \/ cur < x
          BY <1>7, <3>0, <4>1, <4>2
        <5>2. CASE cur < x
          <6>1. Stop(hd, cur) <= x
            BY <1>7, <1>12, <4>2, <5>2
          <6> QED
            BY <1>7, <1>9, <2>2, <3>0, <4>2, <6>1
        <5> QED
          BY <1>4, <4>2, <5>1, <5>2
      <4>3. CASE ~ eats
        BY <1>8, <1>9, <2>2, <3>0, <4>1, <4>3
      <4> QED
        BY <4>2, <4>3
    <3> QED
      BY <3>1, <3>2, <3>3, <3>4, <3>5, <3>6
  <2>3. \A x \in gone : x \in DOMAIN hd /\ lo < x /\ x < adj
    BY <2>1
  <2>4. \A x \in DOMAIN hd : lo < x /\ x < adj => x \in gone
    BY <2>2
  <2> QED
    BY <2>3, <2>4
<1>14. ASSUME NEW x \in B, ~ (eats /\ x = cur), At(prev) < x PROVE adj <= x
  <2>1. x \in DOMAIN hd /\ x \in Nat /\ x # bp
    <3>1. bp \notin B
      BY DEF Mergeable, B, Blue
    <3> QED
      BY <1>1, <1>5, <3>1
  <2>2. ~ (x < bp)
    <3>1. prev \in Spot /\ At(prev) \in Nat
      BY <1>1, Keys DEF Spot
    <3>2. x < bp => prev # FlHead /\ x <= prev
      BY <1>1 DEF LastBefore
    <3>3. prev # FlHead => At(prev) = prev
      BY DEF At
    <3> QED
      BY <1>14, <2>1, <3>1, <3>2, <3>3
  <2>3. Stop(hd, bp) <= x
    BY <1>1, <1>5, <1>12, <2>1, <2>2
  <2>4. CASE eats
    <3>1. x # cur /\ cur <= x
      BY <1>7, <1>14, <2>3, <2>4
    <3>2. Stop(hd, cur) <= x
      BY <1>7, <1>12, <2>1, <2>4, <3>1
    <3> QED
      BY <1>7, <2>4, <3>2
  <2>5. CASE ~ eats
    BY <1>8, <2>3, <2>5
  <2> QED
    BY <2>4, <2>5
<1>15. n = 0 => b = bp /\ hd[bp].wosize = 0 /\ ~ eats
  <2> SUFFICES ASSUME n = 0 PROVE b = bp /\ hd[bp].wosize = 0 /\ ~ eats
    OBVIOUS
  <2>1. ~ eats /\ n0 = 0
    BY <1>7, <1>8
  <2>2. b = bp
    BY <1>6, <2>1
  <2> QED
    BY <1>1, <1>5, <1>6, <2>1, <2>2
<1>16. ~ glued => lo = b
  BY <1>4
<1>17. \A x \in B \ Eaten(f, bp) : At(prev) < x => adj <= x
  BY <1>14 DEF Eaten, eats, cur
<1>18. adj = IF eats THEN Stop(hd, cur) ELSE Stop(hd, bp)
  BY <1>7, <1>8
<1> QED
  BY <1>4, <1>9, <1>10, <1>11, <1>13, <1>15, <1>16, <1>17, <1>18
     DEF Region, hd, B, prev, cur, b, n, adj, lo, gone, eats, glued

\* A table stays one when blocks are added.
LEMMA EntriesGrow ==
  ASSUME NEW B, NEW C, B \subseteq C, NEW s
  PROVE  /\ Entries(B, s) => Entries(C, s)
         /\ \A b : Beyond(B, s, b) => Beyond(C, s, b)
<1>1. \A a : After(B, a) \subseteq After(C, a)
  BY DEF After
<1>2. Entries(B, s) => Entries(C, s)
  BY <1>1 DEF Entries
<1>3. \A b : Beyond(B, s, b) => Beyond(C, s, b)
  BY <1>1 DEF Beyond
<1> QED
  BY <1>2, <1>3

\* The list and the table before the block is put in.
ListBefore(f, g, C) ==
  /\ IsFl(g) /\ g.hd = f.hd /\ g.policy = f.policy /\ g.merge = f.merge /\ g.fragment = f.fragment /\ g.size = f.size
  /\ Linked(g.next, C) /\ (NextFitNow(f) => g.prev \in C \cup {FlHead})
  /\ (FirstFitNow(f) => Entries(C, g.flp) /\ Beyond(C, g.flp, g.beyond))
  /\ C \in SUBSET Addr

\* The table is truncated before the list is changed.
LEMMA TableBeforeIs ==
  ASSUME NEW f, IsFl(f), Threaded(f), Tabled(f)
  PROVE  /\ IsFl(MTable(f)) /\ SameList(f, MTable(f))
         /\ FirstFitNow(f) => Truncated(f, MTable(f), f.merge)
<1>1. CASE FirstFitNow(f)
  <2>1. f.merge \in Spot
    BY DEF IsFl
  <2>2. Truncated(f, TruncateFlp(f, f.merge), f.merge)
    BY <1>1, <2>1, TruncateIs DEF Threaded, Tabled, FirstFitNow
  <2>3. MTable(f) = TruncateFlp(f, f.merge)
    BY <1>1 DEF MTable, FirstFitNow
  <2> QED
    BY <2>2, <2>3 DEF Truncated
<1>2. CASE ~ FirstFitNow(f)
  <2>1. MTable(f) = f
    BY <1>2 DEF MTable, FirstFitNow
  <2> QED
    BY <1>2, <2>1 DEF SameList
<1> QED
  BY <1>1, <1>2

\* Unlinking changes the links and fl_prev only.
LEMMA UnlinkIs ==
  ASSUME NEW t, IsFl(t), NEW prev \in Spot, NEW cur \in Spot
  PROVE  LET g == Unlink(t, prev, cur)
         IN  /\ IsFl(g) /\ g.hd = t.hd /\ g.policy = t.policy /\ g.merge = t.merge /\ g.fragment = t.fragment
             /\ g.size = t.size /\ g.flp = t.flp /\ g.beyond = t.beyond
             /\ g.next = [t.next EXCEPT ![prev] = t.next[cur], ![cur] = Null]
             /\ g.prev = IF NextFitNow(t) /\ t.prev = cur THEN prev ELSE t.prev
<1> DEFINE N == [t.next EXCEPT ![prev] = t.next[cur], ![cur] = Null]
           p == IF t.policy = "next fit" /\ t.prev = cur THEN prev ELSE t.prev
           g == [t EXCEPT !.next = N, !.prev = p]
<1>1. g = Unlink(t, prev, cur)
  BY DEF Unlink, IsFl
<1>2. N \in [Spot -> Addr \cup {Null}] /\ p \in Spot
  <2>1. t.next \in [Spot -> Addr \cup {Null}] /\ t.prev \in Spot
    BY DEF IsFl
  <2> QED
    BY <2>1
<1> HIDE DEF N, p
<1>3. /\ g.hd = t.hd /\ g.policy = t.policy /\ g.merge = t.merge /\ g.fragment = t.fragment
      /\ g.size = t.size /\ g.flp = t.flp /\ g.beyond = t.beyond /\ g.next = N /\ g.prev = p
  BY DEF IsFl
<1>4. IsFl(g)
  <2>1. g \in [hd : [DOMAIN t.hd -> Block], next : [Spot -> Addr \cup {Null}],
            policy : {"next fit", "first fit"}, prev : Spot, merge : Spot,
            fragment : Addr \cup {Null}, size : Int, flp : Seq(Spot), beyond : Addr \cup {Null}]
    BY <1>2 DEF IsFl
  <2>2. DOMAIN g.hd \in SUBSET Addr /\ Len(g.flp) <= FLP_MAX
    BY <1>3 DEF IsFl
  <2> HIDE DEF g
  <2> QED
    BY <1>3, <2>1, <2>2 DEF IsFl
<1> HIDE DEF g
<1> QED
  BY <1>1, <1>3, <1>4 DEF N, p, NextFitNow

\* The list once the block that is eaten is out of it.
LEMMA ListBeforeIs ==
  ASSUME NEW f, NEW bp, Mergeable(f, bp)
  PROVE  ListBefore(f, MList(f, bp), Blue(f) \ Eaten(f, bp))
<1> DEFINE t == MTable(f)
           B == Blue(f)
           prev == f.merge
           cur == MCur(f)
           g == MList(f, bp)
           C == B \ Eaten(f, bp)
<1>1. IsFl(f) /\ Threaded(f) /\ Tabled(f) /\ Linked(f.next, B) /\ prev \in B \cup {FlHead} /\ B \in SUBSET Addr
      /\ prev \in Spot
  BY BlueIs DEF Mergeable, Threaded, IsFl
<1>2. IsFl(t) /\ SameList(f, t) /\ (FirstFitNow(f) => Truncated(f, t, prev))
  BY <1>1, TableBeforeIs
<1>3. FirstFitNow(f) => /\ Entries(B, t.flp) /\ Beyond(B, t.flp, t.beyond)
                        /\ \A k \in 1..Len(t.flp) : /\ f.next[t.flp[k]] < At(prev) /\ f.next[t.flp[k]] \in B
                                                    /\ At(t.flp[k]) < At(prev)
                        /\ t.beyond # Null => t.beyond < At(prev)
  BY <1>2 DEF Truncated
<1> HIDE DEF t
<1>4. CASE ~ MEats(f, bp)
  <2>1. g = t /\ C = B
    BY <1>4 DEF MList, Eaten, t
  <2>2. NextFitNow(f) => t.prev \in B \cup {FlHead}
    BY <1>1, <1>2 DEF SameList, NextFitNow, Threaded
  <2>3. Linked(t.next, B)
    BY <1>1, <1>2 DEF SameList
  <2> QED
    BY <1>1, <1>2, <1>3, <2>1, <2>2, <2>3 DEF ListBefore, SameList
<1>5. CASE MEats(f, bp)
  <2>1. cur \in B /\ cur \in After(B, prev) /\ cur # prev /\ cur # Null
    BY <1>5, EatFactsAre DEF EatFacts, MEats
  <2>2. g = Unlink(t, prev, cur) /\ C = B \ {cur}
    BY <1>5 DEF MList, Eaten, t
  <2>3. cur \in Spot /\ At(prev) < cur /\ cur \in Nat /\ At(prev) \in Nat /\ cur = f.next[prev]
    BY <1>1, <2>1, AfterIs, Keys DEF Spot, MCur
  <2> HIDE DEF g, C, cur, prev
  <2>4. /\ IsFl(g) /\ g.hd = t.hd /\ g.policy = t.policy /\ g.merge = t.merge /\ g.fragment = t.fragment
        /\ g.size = t.size /\ g.flp = t.flp /\ g.beyond = t.beyond
        /\ g.next = [t.next EXCEPT ![prev] = t.next[cur], ![cur] = Null]
        /\ g.prev = IF NextFitNow(t) /\ t.prev = cur THEN prev ELSE t.prev
    BY <1>1, <1>2, <2>2, <2>3, UnlinkIs
  <2> DEFINE next == f.next
             N == g.next
  <2>5. next \in [Spot -> Addr \cup {Null}] /\ N = [next EXCEPT ![prev] = next[cur], ![cur] = Null] /\ cur = next[prev]
    BY <1>1, <1>2, <2>3, <2>4 DEF IsFl, SameList
  <2>6. Linked(next, B)
    BY <1>1
  <2> HIDE DEF next, N, B
  <2>7. Linked(N, B \ {cur})
    BY <1>1, <2>1, <2>5, <2>6, LinkRemove DEF prev
  <2>8. NextFitNow(f) => g.prev \in C \cup {FlHead}
    <3>1. NextFitNow(f) => t.prev \in B \cup {FlHead}
      BY <1>1, <1>2 DEF SameList, NextFitNow, Threaded, B
    <3>2. NextFitNow(f) => NextFitNow(t)
      BY <1>2 DEF NextFitNow, SameList
    <3>3. prev \in (B \ {cur}) \cup {FlHead}
      BY <1>1, <2>1 DEF prev
    <3> QED
      BY <2>2, <2>4, <3>1, <3>2, <3>3
  <2>9. FirstFitNow(f) => Entries(C, t.flp) /\ Beyond(C, t.flp, t.beyond)
    <3> SUFFICES ASSUME FirstFitNow(f) PROVE Entries(C, t.flp) /\ Beyond(C, t.flp, t.beyond)
      OBVIOUS
    <3> DEFINE s == t.flp
    <3>1. /\ Entries(B, s) /\ Beyond(B, s, t.beyond) /\ s \in Seq(Spot)
          /\ \A k \in 1..Len(s) : f.next[s[k]] < At(prev) /\ f.next[s[k]] \in B /\ At(s[k]) < At(prev)
          /\ t.beyond # Null => t.beyond < At(prev)
      BY <1>2, <1>3 DEF IsFl, prev
    <3>2. \A k \in 1..Len(s) : s[k] \in B \cup {FlHead} /\ s[k] \in Spot /\ s[k] # cur
      <4>1. \A k \in 1..Len(s) : s[k] \in B \cup {FlHead} /\ s[k] \in Spot
        BY <3>1 DEF Entries
      <4>2. At(cur) = cur
        BY <1>1, <2>1, Keys DEF B
      <4> QED
        BY <2>3, <3>1, <4>1, <4>2
    <3>3. ASSUME NEW k \in 1..Len(s) PROVE f.next[s[k]] \in After(B \ {cur}, s[k])
      <4> DEFINE e == s[k]
      <4>1. e \in B \cup {FlHead} /\ After(B, e) # {} /\ f.next[e] < At(prev) /\ f.next[e] \in B
        BY <3>1 DEF Entries
      <4> HIDE DEF e
      <4>2. f.next[e] \in After(B, e)
        BY <1>1, <4>1, NextIs DEF B
      <4>3. f.next[e] # cur
        <5>1. f.next[e] \in Nat
          BY <1>1, <4>1, Keys DEF B
        <5> QED
          BY <2>3, <4>1, <5>1
      <4> QED
        BY <4>2, <4>3 DEF After, e
    <3> HIDE DEF s
    <3>4. Entries(B \ {cur}, s)
      <4>1. Len(s) # 0 => After(B \ {cur}, s[Len(s)]) # {}
        <5>1. Len(s) \in Nat
          BY <3>1, LenProperties
        <5>2. Len(s) # 0 => Len(s) \in 1..Len(s)
          BY <5>1
        <5> QED
          BY <3>3, <5>2
      <4>2. B \in SUBSET Addr /\ \A k \in 1..Len(s) : s[k] \in (B \ {cur}) \cup {FlHead}
        BY <1>1, <3>2 DEF B
      <4> QED
        BY <3>1, <4>1, <4>2, EntriesIn
    <3>5. Beyond(B \ {cur}, s, t.beyond)
      <4> SUFFICES ASSUME t.beyond # Null PROVE Beyond(B \ {cur}, s, t.beyond)
        BY DEF Beyond
      <4>1. t.beyond \in B /\ \A k \in 1..Len(s) : t.beyond \in After(B, s[k])
        BY <3>1 DEF Beyond
      <4>2. t.beyond # cur
        <5>1. t.beyond \in Nat
          BY <1>1, <4>1, Keys DEF B
        <5> QED
          BY <2>3, <3>1, <5>1
      <4> QED
        BY <4>1, <4>2 DEF Beyond, After
    <3> QED
      BY <2>2, <3>4, <3>5 DEF s
  <2>10. C \in SUBSET Addr
    BY <1>1, <2>2 DEF B
  <2> QED
    BY <1>2, <2>2, <2>4, <2>7, <2>8, <2>9, <2>10 DEF ListBefore, SameList, N, C, g, B
<1> QED
  BY <1>4, <1>5

\* The words that are free after the merge.
LEMMA MergeWords ==
  ASSUME NEW f, NEW bp, Mergeable(f, bp)
  PROVE  LET C == Blue(f) \ Eaten(f, bp)
         IN  WordsOf(f, C) \in Int /\ MTotal(f, bp) = WordsOf(f, C) + MSize(f, bp) + 1
<1> DEFINE B == Blue(f)
           C == B \ Eaten(f, bp)
           n0 == MSize0(f, bp)
           n == MSize(f, bp)
           t == IF MTail(f, bp) THEN 1 ELSE 0
           w == Whsize(f, bp)
           total == MTotal(f, bp)
           S == WordsOf(f, B)
           W == WordsOf(f, C)
           e == Whsize(f, MCur(f))
<1>1. IsFl(f) /\ f.size = S /\ bp \in DOMAIN f.hd
  BY DEF Mergeable, Threaded
<1>2. B \in SUBSET DOMAIN f.hd /\ w \in Int
  BY <1>1, BlueIs, BlueFinite
<1>3. total = S + w + t
  BY <1>1 DEF MTotal
<1>4. n0 + 1 = w + t /\ n0 \in Nat
  BY StartFactsAre DEF StartFacts
<1>5. CASE MEats(f, bp)
  <2>1. EatFacts(f, bp, MCur(f), n0, n, MAdj(f, bp))
    BY <1>5, EatFactsAre
  <2>2. n = n0 + e /\ e \in Nat /\ MCur(f) \in B
    BY <2>1 DEF EatFacts
  <2>3. C = B \ {MCur(f)}
    BY <1>5 DEF Eaten
  <2>4. WordsOf(f, B \ {MCur(f)}) = WordsOf(f, B) - Whsize(f, MCur(f)) /\ WordsOf(f, B) \in Int
    BY <1>1, <1>2, <2>2, WordsTaken
  <2>5. W = S - e /\ S \in Int
    BY <2>3, <2>4
  <2> HIDE DEF B, C, n0, n, t, w, total, S, W, e
  <2>6. t \in Int
    BY DEF t
  <2>7. W \in Int /\ total = W + n + 1
    BY <1>2, <1>3, <1>4, <2>2, <2>5, <2>6
  <2> QED
    BY <2>7 DEF B, C, n, total, W
<1>6. CASE ~ MEats(f, bp)
  <2>1. C = B /\ n = n0 + 0
    BY <1>6 DEF Eaten, MSize
  <2>2. S \in Int
    <3>1. S = SumFunctionOnSet([b \in B |-> Whsize(f, b)], B)
      BY WordsAre
    <3>2. IsFiniteSet(B) /\ \A b \in B : Whsize(f, b) \in Int
      BY <1>1, <1>2, BlueFinite
    <3>3. \A b \in B : [x \in B |-> Whsize(f, x)][b] \in Int
      BY <3>2
    <3> QED
      BY <3>1, <3>2, <3>3, SumType
  <2>3. W = S
    BY <2>1
  <2> HIDE DEF B, C, n0, n, t, w, total, S, W, e
  <2>4. t \in Int
    BY DEF t
  <2>5. W \in Int /\ total = W + n + 1
    BY <1>2, <1>3, <1>4, <2>1, <2>2, <2>3, <2>4
  <2> QED
    BY <2>5 DEF B, C, n, total, W
<1> QED
  BY <1>5, <1>6

\* The blocks after the merge: one from lo on, up to adj.
MergedHd(f, hd, lo, adj) ==
  /\ lo \in DOMAIN f.hd /\ lo \in Nat /\ adj \in Nat /\ lo < adj /\ adj <= Words + 1
  /\ hd \in [DOMAIN hd -> Block]
  /\ DOMAIN hd = {x \in DOMAIN f.hd : ~ (lo < x /\ x < adj)}
  /\ \A x \in DOMAIN hd \ {lo} : hd[x] = f.hd[x]
  /\ hd[lo].wosize = adj - lo - 1 /\ hd[lo].color = IF adj = lo + 1 THEN "white" ELSE "blue"

\* What was there is free, empty or the block that is merged.
Freed(f, bp, lo, adj) ==
  /\ \A x \in DOMAIN f.hd : lo <= x /\ x < adj => x = bp \/ f.hd[x].color = "blue" \/ f.hd[x].wosize = 0
  /\ lo <= bp /\ bp < adj

Merged(f, h, bp, lo, adj) ==
  /\ MergedHd(f, h.hd, lo, adj) /\ Freed(f, bp, lo, adj)
  /\ IsFl(h) /\ Threaded(h) /\ Tabled(h) /\ h.policy = f.policy
  /\ LastBefore(Blue(h), h.merge, adj) /\ FragmentAt(h, adj)

\* The headers when the block is blue.
LEMMA PutIs ==
  ASSUME NEW f, NEW bp, Mergeable(f, bp), MSize(f, bp) # 0 \/ MGlued(f, bp)
  PROVE  LET lo == MLo(f, bp)
             adj == MAdj(f, bp)
             hd == MPut(f, bp, adj - lo - 1, lo)
         IN  MergedHd(f, hd, lo, adj) /\ adj # lo + 1 /\ adj - lo - 1 \in 1..Words
<1> DEFINE lo == MLo(f, bp)
           adj == MAdj(f, bp)
           m == adj - lo - 1
           b == MStart(f, bp)
           n == MSize(f, bp)
           gone == MGone(f, bp)
           hd == MPut(f, bp, m, lo)
           ohd == f.hd
<1>1. Region(f, bp, lo, b, n, adj)
  BY RegionIs
<1>2. IsFl(f) /\ MTable(f).hd = ohd
  <2>1. IsFl(f) /\ Threaded(f) /\ Tabled(f)
    BY DEF Mergeable
  <2>2. SameList(f, MTable(f))
    BY <2>1, TableBeforeIs
  <2> QED
    BY <2>1, <2>2 DEF SameList
<1>3. hd = Over(MapsTo(lo, NewBlue(m)), Without(ohd, gone))
  BY <1>2 DEF MPut, NewBlue
<1>4. /\ adj \in Nat /\ n \in Nat /\ adj = b + n + 1 /\ adj <= Words + 1 /\ b < adj
      /\ lo \in DOMAIN ohd /\ lo \in Nat /\ lo <= b /\ lo >= 1
      /\ gone = {x \in DOMAIN ohd : lo < x /\ x < adj}
      /\ (MGlued(f, bp) => lo = f.merge /\ f.merge < b) /\ (~ MGlued(f, bp) => lo = b)
      /\ b \in Nat
  <2>1. b \in Nat
    BY StartFactsAre DEF StartFacts
  <2> QED
    BY <1>1, <2>1 DEF Region
<1>5. Words \in Nat
  BY Spots
<1>6. DOMAIN ohd \in SUBSET Addr /\ \A x \in DOMAIN ohd : ohd[x] \in Block /\ x \in Nat
  BY <1>2, Keys DEF IsFl
<1> HIDE DEF lo, adj, m, b, n, gone, hd, ohd
<1>7. adj # lo + 1 /\ lo < adj
  <2>1. CASE MGlued(f, bp)
    BY <1>4, <2>1
  <2>2. CASE ~ MGlued(f, bp)
    <3>1. n # 0
      BY <2>2 DEF n
    <3> QED
      BY <1>4, <2>2, <3>1
  <2> QED
    BY <2>1, <2>2
<1>8. m \in 1..Words
  BY <1>4, <1>5, <1>7 DEF m
<1>9. NewBlue(m) \in Block /\ NewBlue(m).wosize = m /\ NewBlue(m).color = "blue"
  BY <1>5, <1>8 DEF NewBlue, Block
<1>10. DOMAIN hd = {x \in DOMAIN ohd : ~ (lo < x /\ x < adj)}
  <2>1. DOMAIN hd = {lo} \cup (DOMAIN ohd \ gone)
    BY <1>3 DEF Over, MapsTo, Without
  <2>2. lo \notin gone
    BY <1>4
  <2> QED
    BY <1>4, <2>1, <2>2
<1>11. hd[lo] = NewBlue(m)
  BY <1>3 DEF Over, MapsTo
<1>12. ASSUME NEW x \in DOMAIN hd \ {lo} PROVE hd[x] = ohd[x]
  <2>1. x \in DOMAIN ohd \ gone
    BY <1>4, <1>10, <1>12
  <2> QED
    BY <1>3, <1>12, <2>1 DEF Over, MapsTo, Without
<1>13. hd \in [DOMAIN hd -> Block]
  <2>1. \A x \in DOMAIN hd : hd[x] \in Block
    BY <1>6, <1>9, <1>10, <1>11, <1>12
  <2>2. hd = [x \in DOMAIN hd |-> hd[x]]
    BY <1>3 DEF Over
  <2> QED
    BY <2>1, <2>2
<1>14. hd[lo].wosize = adj - lo - 1 /\ hd[lo].color = IF adj = lo + 1 THEN "white" ELSE "blue"
  <2>1. hd[lo].wosize = m /\ hd[lo].color = "blue"
    BY <1>9, <1>11
  <2> QED
    BY <1>7, <2>1 DEF m
<1>15. MergedHd(f, hd, lo, adj)
  BY <1>4, <1>7, <1>10, <1>12, <1>13, <1>14 DEF MergedHd, ohd
<1>16. adj - lo - 1 \in 1..Words
  BY <1>8 DEF m
<1> QED
  BY <1>7, <1>15, <1>16 DEF lo, adj, m, hd

\* The words that become free are those of the blocks that go.
LEMMA FreedIs ==
  ASSUME NEW f, NEW bp, Mergeable(f, bp)
  PROVE  Freed(f, bp, MLo(f, bp), MAdj(f, bp))
<1> DEFINE lo == MLo(f, bp)
           adj == MAdj(f, bp)
           b == MStart(f, bp)
           hd == f.hd
<1>1. Region(f, bp, lo, b, MSize(f, bp), adj)
  BY RegionIs
<1>2. StartFacts(f, bp, b, MSize0(f, bp))
  BY StartFactsAre
<1>3. lo \in Nat /\ b \in Nat /\ lo <= b /\ b <= bp /\ bp < adj /\ bp \in Nat
      /\ MGone(f, bp) = {x \in DOMAIN hd : lo < x /\ x < adj} /\ (MGlued(f, bp) => lo = f.merge /\ f.merge \in Blue(f))
      /\ (~ MGlued(f, bp) => lo = b) /\ (b # bp => hd[b].wosize = 0)
  <2>1. bp \in Nat
    BY Keys DEF Mergeable, IsFl
  <2> QED
    BY <1>1, <1>2, <2>1 DEF Region, StartFacts
<1>4. \A x \in MGone(f, bp) : x = bp \/ x = b \/ x \in Blue(f)
  <2>1. MEats(f, bp) => MCur(f) \in Blue(f)
    BY EatFactsAre DEF EatFacts
  <2> QED
    BY <2>1 DEF MGone
<1>5. \A x \in Blue(f) : hd[x].color = "blue"
  BY DEF Blue
<1>6. \A x \in DOMAIN hd : x \in Nat
  BY Keys DEF Mergeable, IsFl
<1> HIDE DEF lo, adj, b, hd
<1>7. ASSUME NEW x \in DOMAIN hd, lo <= x, x < adj PROVE x = bp \/ hd[x].color = "blue" \/ hd[x].wosize = 0
  <2>1. x = lo \/ x \in MGone(f, bp)
    BY <1>3, <1>6, <1>7
  <2>2. x = bp \/ x = b \/ x \in Blue(f)
    BY <1>3, <1>4, <2>1
  <2> QED
    BY <1>3, <1>5, <2>2
<1>8. lo <= bp
  BY <1>3
<1> QED
  BY <1>3, <1>7, <1>8 DEF Freed, lo, adj, hd

\* The free blocks after the merge.
LEMMA BlueMerged ==
  ASSUME NEW f, NEW bp, Mergeable(f, bp), NEW h, MergedHd(f, h.hd, MLo(f, bp), MAdj(f, bp)),
         MAdj(f, bp) # MLo(f, bp) + 1
  PROVE  /\ Blue(h) = (Blue(f) \ Eaten(f, bp)) \cup {MLo(f, bp)}
         /\ MGlued(f, bp) => MLo(f, bp) \in Blue(f) \ Eaten(f, bp)
         /\ ~ MGlued(f, bp) => MLo(f, bp) \notin Blue(f)
<1> DEFINE lo == MLo(f, bp)
           adj == MAdj(f, bp)
           b == MStart(f, bp)
           hd == f.hd
           B == Blue(f)
           E == Eaten(f, bp)
           gone == MGone(f, bp)
<1>1. Region(f, bp, lo, b, MSize(f, bp), adj)
  BY RegionIs
<1>2. b \notin B /\ bp \notin B
  <2>1. b \notin B
    BY StartFactsAre DEF StartFacts
  <2>2. bp \notin B
    BY DEF Mergeable, Blue
  <2> QED
    BY <2>1, <2>2
<1>3. MEats(f, bp) => MCur(f) \in B /\ MCur(f) # f.merge
  BY EatFactsAre DEF EatFacts
<1>4. /\ gone = {x \in DOMAIN hd : lo < x /\ x < adj} /\ (MGlued(f, bp) => lo = f.merge /\ f.merge \in B)
      /\ (~ MGlued(f, bp) => lo = b)
  BY <1>1 DEF Region
<1>5. B \cap gone = E
  BY <1>2, <1>3 DEF MGone, Eaten
<1>6. lo \notin E
  <2>1. CASE MGlued(f, bp)
    BY <1>3, <1>4, <2>1 DEF Eaten
  <2>2. CASE ~ MGlued(f, bp)
    BY <1>2, <1>3, <1>4, <2>2 DEF Eaten
  <2> QED
    BY <2>1, <2>2
<1>7. /\ DOMAIN h.hd = {x \in DOMAIN hd : ~ (lo < x /\ x < adj)} /\ lo \in DOMAIN hd
      /\ \A x \in DOMAIN h.hd \ {lo} : h.hd[x] = hd[x]
      /\ h.hd[lo].color = "blue"
  BY DEF MergedHd
<1>8. B \subseteq DOMAIN hd /\ Blue(h) = {x \in DOMAIN h.hd : h.hd[x].color = "blue"}
      /\ B = {x \in DOMAIN hd : hd[x].color = "blue"}
  BY DEF Blue
<1>9. DOMAIN h.hd = DOMAIN hd \ gone
  BY <1>4, <1>7
<1>10. lo \in DOMAIN h.hd
  <2>1. lo \in Nat
    BY <1>1 DEF Region
  <2> QED
    BY <1>7, <2>1
<1> HIDE DEF lo, adj, b, hd, B, E, gone
<1>11. Blue(h) = (B \ E) \cup {lo}
  <2>1. ASSUME NEW x \in Blue(h) PROVE x \in (B \ E) \cup {lo}
    BY <1>5, <1>7, <1>8, <1>9, <2>1
  <2>2. ASSUME NEW x \in (B \ E) \cup {lo} PROVE x \in Blue(h)
    <3>1. CASE x = lo
      BY <1>7, <1>8, <1>10, <3>1
    <3>2. CASE x # lo
      <4>1. x \in B /\ x \notin gone
        BY <1>5, <2>2, <3>2
      <4> QED
        BY <1>7, <1>8, <1>9, <3>2, <4>1
    <3> QED
      BY <3>1, <3>2
  <2> QED
    BY <2>1, <2>2
<1>12. MGlued(f, bp) => lo \in B \ E
  BY <1>4, <1>6
<1>13. ~ MGlued(f, bp) => lo \notin B
  BY <1>2, <1>4
<1> QED
  BY <1>11, <1>12, <1>13 DEF lo, adj, B, E

\* The words of the free blocks after the merge.
LEMMA WordsMerged ==
  ASSUME NEW f, NEW bp, Mergeable(f, bp), NEW h, IsFl(h), MergedHd(f, h.hd, MLo(f, bp), MAdj(f, bp)),
         MAdj(f, bp) # MLo(f, bp) + 1
  PROVE  WordsOf(h, Blue(h)) = MTotal(f, bp)
<1> DEFINE lo == MLo(f, bp)
           adj == MAdj(f, bp)
           b == MStart(f, bp)
           n == MSize(f, bp)
           C == Blue(f) \ Eaten(f, bp)
           v == Whsize(h, lo)
           p == Whsize(f, lo)
           W == WordsOf(f, C)
           total == MTotal(f, bp)
<1>1. Blue(h) = C \cup {lo} /\ (MGlued(f, bp) => lo \in C) /\ (~ MGlued(f, bp) => lo \notin C)
  BY BlueMerged
<1>2. W \in Int /\ total = W + n + 1
  BY MergeWords
<1>3. IsFl(f) /\ C \in SUBSET DOMAIN f.hd
  BY BlueIs DEF Mergeable
<1>4. lo \in DOMAIN h.hd /\ h.hd[lo].wosize = adj - lo - 1 /\ lo \in Nat /\ adj \in Nat
  BY DEF MergedHd
<1>5. v = adj - lo
  <2>1. v = h.hd[lo].wosize + 1
    BY <1>4, BlueFinite
  <2> HIDE DEF v, lo, adj
  <2> QED
    BY <1>4, <2>1
<1>6. \A x \in C \ {lo} : Whsize(h, x) = Whsize(f, x)
  <2>1. \A x \in C \ {lo} : x \in DOMAIN h.hd /\ h.hd[x] = f.hd[x]
    <3>1. \A x \in C \ {lo} : x \in Blue(h)
      BY <1>1
    <3>2. \A x \in Blue(h) : x \in DOMAIN h.hd
      BY DEF Blue
    <3>3. \A x \in DOMAIN h.hd \ {lo} : h.hd[x] = f.hd[x]
      BY DEF MergedHd
    <3> QED
      BY <3>1, <3>2, <3>3
  <2>2. \A x \in DOMAIN h.hd : Whsize(h, x) = h.hd[x].wosize + 1
    BY BlueFinite
  <2>3. \A x \in DOMAIN f.hd : Whsize(f, x) = f.hd[x].wosize + 1
    BY <1>3, BlueFinite
  <2> QED
    BY <1>3, <2>1, <2>2, <2>3
<1>7. Region(f, bp, lo, b, n, adj)
  BY RegionIs
<1>8. n \in Nat /\ b \in Nat /\ adj = b + n + 1 /\ (MGlued(f, bp) => lo = f.merge /\ Whsize(f, f.merge) + n = adj - lo - 1)
      /\ (~ MGlued(f, bp) => lo = b)
  BY <1>7, StartFactsAre DEF Region, StartFacts
<1>9. CASE MGlued(f, bp)
  <2>1. lo \in C /\ Blue(h) = C
    BY <1>1, <1>9
  <2>2. v \in Int /\ p \in Int
    <3>1. p \in Int
      BY <1>3, <2>1, BlueFinite
    <3> QED
      BY <1>4, <1>5, <3>1
  <2>3. WordsOf(h, C) = W - p + v
    BY <1>3, <1>6, <2>1, <2>2, WordsChanged
  <2>4. p + n = adj - lo - 1
    BY <1>8, <1>9
  <2> HIDE DEF lo, adj, b, n, C, v, p, W, total
  <2>5. W - p + v = total
    BY <1>2, <1>4, <1>5, <1>8, <2>2, <2>4
  <2> QED
    BY <2>1, <2>3, <2>5 DEF total
<1>10. CASE ~ MGlued(f, bp)
  <2>1. lo \notin C /\ Blue(h) = C \cup {lo}
    BY <1>1, <1>10
  <2>2. v \in Int
    BY <1>4, <1>5
  <2>3. \A x \in C : Whsize(h, x) = Whsize(f, x)
    BY <1>6, <2>1
  <2>4. WordsOf(h, C \cup {lo}) = W + v
    BY <1>3, <2>1, <2>2, <2>3, WordsAdded
  <2> HIDE DEF lo, adj, b, n, C, v, p, W, total
  <2>5. W + v = total
    BY <1>2, <1>4, <1>5, <1>8, <1>10
  <2> QED
    BY <2>1, <2>4, <2>5 DEF total
<1> QED
  BY <1>9, <1>10

\* New headers and a new size.
PutRecord(g, H, s) == [g EXCEPT !.hd = H, !.size = s]
LinkRecord(g, H, N, b, s) == [g EXCEPT !.hd = H, !.next = N, !.merge = b, !.size = s]

\* A record of the free list with other headers and another size.
LEMMA PutRecordIs ==
  ASSUME NEW g, IsFl(g), NEW H, H \in [DOMAIN H -> Block], DOMAIN H \in SUBSET Addr, NEW s \in Int
  PROVE  LET u == PutRecord(g, H, s)
         IN  /\ IsFl(u) /\ u.hd = H /\ u.size = s /\ u.next = g.next /\ u.policy = g.policy /\ u.prev = g.prev
             /\ u.merge = g.merge /\ u.fragment = g.fragment /\ u.flp = g.flp /\ u.beyond = g.beyond
<1> DEFINE u == PutRecord(g, H, s)
<1>1. /\ u.hd = H /\ u.size = s /\ u.next = g.next /\ u.policy = g.policy /\ u.prev = g.prev
      /\ u.merge = g.merge /\ u.fragment = g.fragment /\ u.flp = g.flp /\ u.beyond = g.beyond
  BY DEF IsFl, PutRecord
<1>2. u \in [hd : [DOMAIN H -> Block], next : [Spot -> Addr \cup {Null}],
             policy : {"next fit", "first fit"}, prev : Spot, merge : Spot,
             fragment : Addr \cup {Null}, size : Int, flp : Seq(Spot), beyond : Addr \cup {Null}]
  BY DEF IsFl, PutRecord
<1>3. Len(g.flp) <= FLP_MAX
  BY DEF IsFl
<1> HIDE DEF u
<1>4. IsFl(u)
  BY <1>1, <1>2, <1>3 DEF IsFl
<1> QED
  BY <1>1, <1>4 DEF u

\* A record of the free list with other headers, links, merge point and size.
LEMMA LinkRecordIs ==
  ASSUME NEW g, IsFl(g), NEW H, H \in [DOMAIN H -> Block], DOMAIN H \in SUBSET Addr, NEW s \in Int,
         NEW N \in [Spot -> Addr \cup {Null}], NEW b \in Spot
  PROVE  LET u == LinkRecord(g, H, N, b, s)
         IN  /\ IsFl(u) /\ u.hd = H /\ u.size = s /\ u.next = N /\ u.policy = g.policy /\ u.prev = g.prev
             /\ u.merge = b /\ u.fragment = g.fragment /\ u.flp = g.flp /\ u.beyond = g.beyond
<1> DEFINE u == LinkRecord(g, H, N, b, s)
<1>1. /\ u.hd = H /\ u.size = s /\ u.next = N /\ u.policy = g.policy /\ u.prev = g.prev
      /\ u.merge = b /\ u.fragment = g.fragment /\ u.flp = g.flp /\ u.beyond = g.beyond
  BY DEF IsFl, LinkRecord
<1>2. u \in [hd : [DOMAIN H -> Block], next : [Spot -> Addr \cup {Null}],
             policy : {"next fit", "first fit"}, prev : Spot, merge : Spot,
             fragment : Addr \cup {Null}, size : Int, flp : Seq(Spot), beyond : Addr \cup {Null}]
  BY DEF IsFl, LinkRecord
<1>3. Len(g.flp) <= FLP_MAX
  BY DEF IsFl
<1> HIDE DEF u
<1>4. IsFl(u)
  BY <1>1, <1>2, <1>3 DEF IsFl
<1> QED
  BY <1>1, <1>4 DEF u

\* h is the list after a merge into a free block.
IntoBlue(f, g, h, C, lo, total) ==
  /\ IsFl(h) /\ h.policy = f.policy /\ h.merge = lo /\ h.fragment = f.fragment /\ h.size = total
  /\ h.prev = g.prev /\ h.flp = g.flp /\ h.beyond = g.beyond /\ Linked(h.next, C \cup {lo})

\* A region that becomes one free block leaves the heap as a merge should.
LEMMA IntoBlueIs ==
  ASSUME NEW f, NEW bp, Mergeable(f, bp), NEW h, MergedHd(f, h.hd, MLo(f, bp), MAdj(f, bp)),
         MAdj(f, bp) # MLo(f, bp) + 1,
         IntoBlue(f, MList(f, bp), h, Blue(f) \ Eaten(f, bp), MLo(f, bp), MTotal(f, bp))
  PROVE  Merged(f, h, bp, MLo(f, bp), MAdj(f, bp))
<1> DEFINE lo == MLo(f, bp)
           adj == MAdj(f, bp)
           b == MStart(f, bp)
           C == Blue(f) \ Eaten(f, bp)
           g == MList(f, bp)
           B == Blue(h)
           prev == f.merge
<1>1. ListBefore(f, g, C)
  BY ListBeforeIs
<1>2. IntoBlue(f, g, h, C, lo, MTotal(f, bp)) /\ IsFl(h)
  BY DEF IntoBlue
<1>3. B = C \cup {lo} /\ C \subseteq B
  BY BlueMerged
<1>4. Freed(f, bp, lo, adj)
  BY FreedIs
<1>5. h.size = WordsOf(h, B)
  BY <1>2, WordsMerged DEF IntoBlue
<1>6. Region(f, bp, lo, b, MSize(f, bp), adj) /\ StartFacts(f, bp, b, MSize0(f, bp))
  BY RegionIs, StartFactsAre
<1>7. /\ lo \in Nat /\ adj \in Nat /\ lo < adj /\ lo <= b /\ b \in Nat /\ LastBefore(Blue(f), prev, b)
      /\ (MGlued(f, bp) => lo = prev) /\ (~ MGlued(f, bp) => lo = b)
      /\ (\A x \in C : At(prev) < x => adj <= x) /\ lo <= bp /\ bp < adj
  BY <1>4, <1>6 DEF Region, StartFacts, MergedHd, Freed
<1>8. \A x \in B : x \in Nat /\ At(x) = x
  BY <1>2, BlueIs, Keys
<1>9. IsFl(f) /\ FragmentAt(f, bp) /\ bp \in Nat /\ prev \in Spot /\ lo \in Addr /\ lo # FlHead
  <2>1. IsFl(f) /\ FragmentAt(f, bp) /\ bp \in Addr
    BY DEF Mergeable, IsFl
  <2>2. lo \in Addr
    BY <2>1 DEF MergedHd, IsFl
  <2> QED
    BY <2>1, <2>2, Keys DEF IsFl
<1> HIDE DEF lo, adj, b, C, g, B
<1>10. LastBefore(B, lo, adj)
  <2>1. ASSUME NEW x \in B, x < adj PROVE x <= lo
    <3>1. CASE x = lo
      BY <1>7, <3>1
    <3>2. CASE x # lo
      <4>1. x \in C
        BY <1>3, <3>2
      <4>2. ~ (At(prev) < x)
        BY <1>7, <1>8, <2>1, <4>1
      <4>3. prev # FlHead /\ x <= prev
        <5>1. prev # FlHead => At(prev) = prev
          BY DEF At
        <5>2. At(FlHead) = 0 /\ x >= 1 /\ x \in Nat /\ At(prev) \in Nat
          BY <1>2, <1>8, <1>9, BlueIs, Keys DEF B
        <5> QED
          BY <4>2, <5>1, <5>2
      <4>4. prev <= lo
        <5>1. CASE MGlued(f, bp)
          BY <1>7, <5>1
        <5>2. CASE ~ MGlued(f, bp)
          <6>1. prev < b
            BY <1>7, <4>3 DEF LastBefore
          <6>2. prev \in Nat
            BY <1>9, <4>3, Keys DEF Spot
          <6> QED
            BY <1>7, <5>2, <6>1, <6>2
        <5> QED
          BY <5>1, <5>2
      <4>5. prev \in Nat
        BY <1>9, <4>3, Keys DEF Spot
      <4> QED
        BY <1>7, <1>8, <4>3, <4>4, <4>5
    <3> QED
      BY <3>1, <3>2
  <2>2. lo \in B
    BY <1>3
  <2>3. \A x \in B : x < adj => lo # FlHead /\ x <= lo
    BY <1>9, <2>1
  <2> QED
    BY <1>7, <2>2, <2>3 DEF LastBefore
<1>11. FragmentAt(h, adj)
  <2> SUFFICES ASSUME h.fragment # Null
               PROVE  h.fragment < adj /\ h.fragment + 1 # adj
    BY DEF FragmentAt
  <2>1. h.fragment = f.fragment /\ f.fragment \in Nat
    <3>1. h.fragment = f.fragment
      BY <1>2 DEF IntoBlue
    <3>2. f.fragment \in Addr \cup {Null}
      BY <1>9 DEF IsFl
    <3> QED
      BY <3>1, <3>2, Keys
  <2>2. f.fragment < bp
    BY <1>9, <2>1 DEF FragmentAt
  <2> QED
    BY <1>7, <1>9, <2>1, <2>2
<1>12. Threaded(h)
  <2>1. Linked(h.next, B) /\ h.merge \in B \cup {FlHead}
    BY <1>2, <1>3 DEF IntoBlue
  <2>2. h.policy = "next fit" => h.prev \in B \cup {FlHead}
    BY <1>1, <1>2, <1>3 DEF IntoBlue, ListBefore, NextFitNow
  <2> QED
    BY <1>5, <2>1, <2>2 DEF Threaded, B
<1>13. Tabled(h)
  <2> SUFFICES ASSUME h.policy = "first fit"
               PROVE  Entries(B, h.flp) /\ Beyond(B, h.flp, h.beyond)
    BY DEF Tabled, B
  <2>1. Entries(C, g.flp) /\ Beyond(C, g.flp, g.beyond) /\ h.flp = g.flp /\ h.beyond = g.beyond
    BY <1>1, <1>2 DEF IntoBlue, ListBefore, FirstFitNow
  <2> QED
    BY <1>3, <2>1, EntriesGrow
<1>14. h.policy = f.policy /\ h.merge = lo
  BY <1>2 DEF IntoBlue
<1>15. MergedHd(f, h.hd, lo, adj)
  BY DEF lo, adj
<1> QED
  BY <1>2, <1>4, <1>10, <1>11, <1>12, <1>13, <1>14, <1>15 DEF Merged, lo, adj, B

\* A block of no words is a fragment.
LEMMA FragmentKept ==
  ASSUME NEW f, NEW bp, Mergeable(f, bp), MSize(f, bp) = 0, ~ MGlued(f, bp)
  PROVE  Merged(f, [MList(f, bp) EXCEPT !.fragment = bp, !.size = MTotal(f, bp) - 1], bp, MLo(f, bp), MAdj(f, bp))
<1> DEFINE lo == MLo(f, bp)
           adj == MAdj(f, bp)
           b == MStart(f, bp)
           g == MList(f, bp)
           C == Blue(f) \ Eaten(f, bp)
           s == MTotal(f, bp) - 1
           h == [g EXCEPT !.fragment = bp, !.size = s]
<1>1. ListBefore(f, g, C)
  BY ListBeforeIs
<1>2. Region(f, bp, lo, b, MSize(f, bp), adj)
  BY RegionIs
<1>3. b = bp /\ f.hd[bp].wosize = 0 /\ ~ MEats(f, bp) /\ lo = bp /\ adj = bp + 1 /\ adj \in Nat /\ adj <= Words + 1
      /\ bp \in Nat
  <2>1. b = bp /\ f.hd[bp].wosize = 0 /\ ~ MEats(f, bp) /\ lo = b /\ adj = b + MSize(f, bp) + 1 /\ adj \in Nat
        /\ adj <= Words + 1
    BY <1>2 DEF Region
  <2>2. bp \in Nat
    BY Keys DEF Mergeable, IsFl
  <2> HIDE DEF lo, adj, b
  <2> QED
    BY <2>1, <2>2
<1>4. IsFl(f) /\ Threaded(f) /\ bp \in DOMAIN f.hd /\ f.hd[bp].color = "white" /\ LastBefore(Blue(f), f.merge, bp)
      /\ bp \in Addr
  BY DEF Mergeable, IsFl
<1>5. C = Blue(f)
  BY <1>3 DEF Eaten
<1>6. s = WordsOf(f, Blue(f)) /\ s \in Int
  <2>1. WordsOf(f, C) \in Int /\ MTotal(f, bp) = WordsOf(f, C) + MSize(f, bp) + 1
    BY MergeWords
  <2> DEFINE W == WordsOf(f, C)
             total == MTotal(f, bp)
  <2> HIDE DEF W, total, C
  <2>2. total - 1 = W /\ W \in Int
    BY <2>1 DEF W, total
  <2> QED
    BY <1>5, <2>2 DEF W, total
<1> HIDE DEF lo, adj, b, g, C, s
<1>7. /\ h.hd = f.hd /\ h.next = g.next /\ h.policy = f.policy /\ h.prev = g.prev /\ h.merge = f.merge
      /\ h.fragment = bp /\ h.size = s /\ h.flp = g.flp /\ h.beyond = g.beyond
  BY <1>1 DEF ListBefore, IsFl
<1>8. h \in [hd : [DOMAIN f.hd -> Block], next : [Spot -> Addr \cup {Null}],
            policy : {"next fit", "first fit"}, prev : Spot, merge : Spot,
            fragment : Addr \cup {Null}, size : Int, flp : Seq(Spot), beyond : Addr \cup {Null}]
  <2>1. IsFl(g) /\ g.hd = f.hd
    BY <1>1 DEF ListBefore
  <2> QED
    BY <1>4, <1>6, <2>1 DEF IsFl
<1> HIDE DEF h
<1>9. IsFl(h)
  <2>1. Len(g.flp) <= FLP_MAX
    BY <1>1 DEF ListBefore, IsFl
  <2>2. DOMAIN f.hd \in SUBSET Addr
    BY <1>4 DEF IsFl
  <2> QED
    BY <1>7, <1>8, <2>1, <2>2 DEF IsFl
<1>10. Blue(h) = Blue(f)
  BY <1>7 DEF Blue
<1>11. Threaded(h)
  <2>1. Linked(h.next, Blue(h))
    BY <1>1, <1>5, <1>7, <1>10 DEF ListBefore
  <2>2. h.merge \in Blue(h) \cup {FlHead}
    BY <1>4, <1>7, <1>10 DEF Threaded
  <2>3. h.policy = "next fit" => h.prev \in Blue(h) \cup {FlHead}
    BY <1>1, <1>5, <1>7, <1>10 DEF ListBefore, NextFitNow
  <2>4. WordsOf(h, Blue(h)) = WordsOf(f, Blue(f))
    <3>1. \A x \in Blue(f) : Whsize(h, x) = Whsize(f, x)
      BY <1>7 DEF Whsize, Wosize
    <3> QED
      BY <1>10, <3>1, WordsSame
  <2> QED
    BY <1>6, <1>7, <2>1, <2>2, <2>3, <2>4 DEF Threaded
<1>12. Tabled(h)
  BY <1>1, <1>5, <1>7, <1>10 DEF Tabled, ListBefore, FirstFitNow
<1>13. LastBefore(Blue(h), h.merge, adj)
  <2>1. f.merge \in Blue(f) \cup {FlHead} /\ (f.merge = FlHead \/ f.merge < bp)
        /\ \A x \in Blue(f) : x < bp => f.merge # FlHead /\ x <= f.merge
    BY <1>4 DEF LastBefore
  <2>2. \A x \in Blue(f) : x \in Nat /\ x # bp
    <3>1. bp \notin Blue(f)
      BY <1>4 DEF Blue
    <3> QED
      BY <1>4, <3>1, BlueIs, Keys
  <2>3. f.merge = FlHead \/ f.merge < adj
    BY <1>3, <2>1, <2>2
  <2>4. \A x \in Blue(f) : x < adj => f.merge # FlHead /\ x <= f.merge
    BY <1>3, <2>1, <2>2
  <2> QED
    BY <1>7, <1>10, <2>1, <2>3, <2>4 DEF LastBefore
<1>14. f.hd[bp] = [wosize |-> 0, color |-> "white"] /\ f.hd[bp].wosize = 0 /\ f.hd[bp].color = "white"
  <2>1. f.hd[bp] \in Block
    BY <1>4 DEF IsFl
  <2> QED
    BY <1>3, <1>4, <2>1 DEF Block
<1>15. FragmentAt(h, adj)
  BY <1>3, <1>4, <1>7, <1>14 DEF FragmentAt
<1>16. MergedHd(f, h.hd, lo, adj)
  <2>1. DOMAIN f.hd = {x \in DOMAIN f.hd : ~ (lo < x /\ x < adj)}
    <3>1. \A x \in DOMAIN f.hd : x \in Nat
      BY <1>4, Keys DEF IsFl
    <3> QED
      BY <1>3, <3>1
  <2>2. f.hd \in [DOMAIN f.hd -> Block]
    BY <1>4 DEF IsFl
  <2>3. lo < adj /\ adj = lo + 1 /\ f.hd[lo].wosize = adj - lo - 1 /\ lo \in Nat
    BY <1>3
  <2>4. f.hd[lo].color = IF adj = lo + 1 THEN "white" ELSE "blue"
    BY <1>3, <1>4, <2>3
  <2> QED
    BY <1>3, <1>4, <1>7, <2>1, <2>2, <2>3, <2>4 DEF MergedHd
<1>17. Freed(f, bp, lo, adj)
  BY FreedIs DEF lo, adj
<1> QED
  BY <1>7, <1>9, <1>11, <1>12, <1>13, <1>15, <1>16, <1>17 DEF Merged, h, g, s, lo, adj

\* The case where the region is glued to the free block before it.
LEMMA GluedMerge ==
  ASSUME NEW f, NEW bp, Mergeable(f, bp), MGlued(f, bp)
  PROVE  Merged(f, [MList(f, bp) EXCEPT !.hd = MPut(f, bp, Whsize(f, f.merge) + MSize(f, bp), f.merge),
                                        !.size = MTotal(f, bp)], bp, MLo(f, bp), MAdj(f, bp))
<1> DEFINE lo == MLo(f, bp)
           adj == MAdj(f, bp)
           b == MStart(f, bp)
           g == MList(f, bp)
           C == Blue(f) \ Eaten(f, bp)
           s == MTotal(f, bp)
           m == Whsize(f, f.merge) + MSize(f, bp)
           H == MPut(f, bp, m, f.merge)
           h == PutRecord(g, H, s)
<1>1. ListBefore(f, g, C)
  BY ListBeforeIs
<1>2. Region(f, bp, lo, b, MSize(f, bp), adj)
  BY RegionIs
<1>3. lo = f.merge /\ m = adj - lo - 1
  BY <1>2 DEF Region
<1>4. MergedHd(f, H, lo, adj) /\ adj # lo + 1
  <2>1. MergedHd(f, MPut(f, bp, adj - lo - 1, lo), lo, adj) /\ adj # lo + 1
    BY PutIs
  <2> QED
    BY <1>3, <2>1
<1>5. s \in Int
  <2>1. WordsOf(f, C) \in Int /\ MTotal(f, bp) = WordsOf(f, C) + MSize(f, bp) + 1 /\ MSize(f, bp) \in Nat
    BY <1>2, MergeWords DEF Region
  <2> DEFINE W == WordsOf(f, C)
             n == MSize(f, bp)
  <2> HIDE DEF W, n, s, C
  <2>2. W + n + 1 \in Int
    BY <2>1 DEF W, n
  <2> QED
    BY <2>1, <2>2 DEF W, n, s
<1>6. DOMAIN f.hd \in SUBSET Addr
  BY DEF Mergeable, IsFl
<1>7. H \in [DOMAIN H -> Block] /\ DOMAIN H \in SUBSET Addr
  <2> HIDE DEF H, lo, adj
  <2> QED
    BY <1>4, <1>6 DEF MergedHd
<1>8. IsFl(g)
  BY <1>1 DEF ListBefore
<1> HIDE DEF lo, adj, b, g, C, s, m, H
<1>9. /\ IsFl(h) /\ h.hd = H /\ h.size = s /\ h.next = g.next /\ h.policy = g.policy /\ h.prev = g.prev
      /\ h.merge = g.merge /\ h.fragment = g.fragment /\ h.flp = g.flp /\ h.beyond = g.beyond
  BY <1>5, <1>7, <1>8, PutRecordIs
<1>10. h = [g EXCEPT !.hd = H, !.size = s]
  BY DEF PutRecord
<1> HIDE DEF h
<1>11. lo \in C
  <2>1. MergedHd(f, h.hd, MLo(f, bp), MAdj(f, bp))
    BY <1>4, <1>9 DEF lo, adj
  <2>2. MAdj(f, bp) # MLo(f, bp) + 1
    BY <1>4 DEF lo, adj
  <2> QED
    BY <2>1, <2>2, BlueMerged DEF lo, C
<1>12. IntoBlue(f, g, h, C, lo, s)
  <2>1. C \cup {lo} = C
    BY <1>11
  <2> QED
    BY <1>1, <1>3, <1>9, <2>1 DEF IntoBlue, ListBefore
<1>13. MergedHd(f, h.hd, lo, adj)
  BY <1>4, <1>9
<1>14. Merged(f, h, bp, lo, adj)
  BY <1>4, <1>12, <1>13, IntoBlueIs DEF g, C, lo, adj, s
<1> QED
  BY <1>10, <1>14 DEF g, H, s, m, lo, adj

\* The case where the region becomes a free block of its own.
LEMMA NewMerge ==
  ASSUME NEW f, NEW bp, Mergeable(f, bp), ~ MGlued(f, bp), MSize(f, bp) # 0
  PROVE  Merged(f, [MList(f, bp) EXCEPT !.hd = MPut(f, bp, MSize(f, bp), MStart(f, bp)),
                                        !.next = [@ EXCEPT ![MStart(f, bp)] = MList(f, bp).next[f.merge],
                                                           ![f.merge] = MStart(f, bp)],
                                        !.merge = MStart(f, bp), !.size = MTotal(f, bp)],
                bp, MLo(f, bp), MAdj(f, bp))
<1> DEFINE lo == MLo(f, bp)
           adj == MAdj(f, bp)
           b == MStart(f, bp)
           g == MList(f, bp)
           C == Blue(f) \ Eaten(f, bp)
           s == MTotal(f, bp)
           m == MSize(f, bp)
           H == MPut(f, bp, m, b)
           prev == f.merge
           next == g.next
           N == LinksWith(next, prev, b)
           h == LinkRecord(g, H, N, b, s)
<1>1. ListBefore(f, g, C)
  BY ListBeforeIs
<1>2. Region(f, bp, lo, b, m, adj)
  BY RegionIs
<1>3. lo = b /\ m = adj - lo - 1
  <2>1. lo = b /\ adj = b + m + 1 /\ m \in Nat /\ lo \in Nat
    BY <1>2 DEF Region
  <2> HIDE DEF lo, b, m, adj
  <2> QED
    BY <2>1
<1>4. MergedHd(f, H, lo, adj) /\ adj # lo + 1
  <2>1. MergedHd(f, MPut(f, bp, adj - lo - 1, lo), lo, adj) /\ adj # lo + 1
    BY PutIs
  <2> QED
    BY <1>3, <2>1
<1>5. s \in Int
  <2>1. WordsOf(f, C) \in Int /\ MTotal(f, bp) = WordsOf(f, C) + MSize(f, bp) + 1 /\ MSize(f, bp) \in Nat
    BY <1>2, MergeWords DEF Region
  <2> DEFINE W == WordsOf(f, C)
             n == MSize(f, bp)
  <2> HIDE DEF W, n, s, C
  <2>2. W + n + 1 \in Int
    BY <2>1 DEF W, n
  <2> QED
    BY <2>1, <2>2 DEF W, n, s
<1>6. DOMAIN f.hd \in SUBSET Addr
  BY DEF Mergeable, IsFl
<1>7. H \in [DOMAIN H -> Block] /\ DOMAIN H \in SUBSET Addr
  <2> HIDE DEF H, lo, adj
  <2> QED
    BY <1>4, <1>6 DEF MergedHd
<1>8. IsFl(g) /\ C \in SUBSET Addr /\ next \in [Spot -> Addr \cup {Null}] /\ Linked(next, C)
  BY <1>1 DEF ListBefore, IsFl
<1>9. b \in Addr /\ b \notin C /\ b \in Spot /\ LastBefore(Blue(f), prev, b)
  <2>1. b \in Addr /\ b \notin Blue(f) /\ LastBefore(Blue(f), prev, b)
    BY StartFactsAre DEF StartFacts
  <2> QED
    BY <2>1, Keys
<1>10. LastBefore(C, prev, b)
  <2>1. prev \in C \cup {FlHead}
    <3>1. MEats(f, bp) => MCur(f) # prev
      BY EatFactsAre DEF EatFacts
    <3>2. prev \in Blue(f) \cup {FlHead}
      BY <1>9 DEF LastBefore
    <3> QED
      BY <3>1, <3>2 DEF Eaten
  <2> HIDE DEF b, prev
  <2> QED
    BY <1>9, <2>1 DEF LastBefore
<1> HIDE DEF lo, adj, b, g, C, s, m, H, prev, next
<1>11. LinkedWith(C, next, prev, b, N)
  <2>1. b \in Addr \ C
    BY <1>9
  <2> QED
    BY <1>8, <1>10, <2>1, LinkInsert
<1>12. N \in [Spot -> Addr \cup {Null}] /\ Linked(N, C \cup {b})
  BY <1>11 DEF LinkedWith
<1>13. h = [g EXCEPT !.hd = H, !.next = [@ EXCEPT ![b] = g.next[prev], ![prev] = b], !.merge = b, !.size = s]
  BY DEF LinkRecord, LinksWith, next
<1> HIDE DEF N
<1>14. /\ IsFl(h) /\ h.hd = H /\ h.size = s /\ h.next = N /\ h.policy = g.policy /\ h.prev = g.prev
       /\ h.merge = b /\ h.fragment = g.fragment /\ h.flp = g.flp /\ h.beyond = g.beyond
  BY <1>5, <1>7, <1>8, <1>9, <1>12, LinkRecordIs
<1> HIDE DEF h
<1>15. IntoBlue(f, g, h, C, lo, s)
  BY <1>1, <1>3, <1>12, <1>14 DEF IntoBlue, ListBefore
<1>16. MergedHd(f, h.hd, lo, adj)
  BY <1>4, <1>14
<1>17. Merged(f, h, bp, lo, adj)
  BY <1>4, <1>15, <1>16, IntoBlueIs DEF g, C, lo, adj, s
<1> QED
  BY <1>13, <1>17 DEF g, H, s, m, lo, adj, b, prev

\* The block bp is merged.
LEMMA MergeIs ==
  ASSUME NEW f, NEW bp, Mergeable(f, bp)
  PROVE  MergeBlock(f, bp).adj = MAdj(f, bp) /\ Merged(f, MergeBlock(f, bp).f, bp, MLo(f, bp), MAdj(f, bp))
<1>1. MergeBlock(f, bp).adj = MAdj(f, bp)
  BY MergeBlockParts DEF MAdj
<1>2. CASE MGlued(f, bp)
  <2>1. MergeBlock(f, bp).f = [MList(f, bp) EXCEPT !.hd = MPut(f, bp, Whsize(f, f.merge) + MSize(f, bp), f.merge),
                                                   !.size = MTotal(f, bp)]
    BY <1>2, MergeBlockParts
  <2> QED
    BY <1>1, <1>2, <2>1, GluedMerge
<1>3. CASE ~ MGlued(f, bp) /\ MSize(f, bp) # 0
  <2>1. MergeBlock(f, bp).f = [MList(f, bp) EXCEPT !.hd = MPut(f, bp, MSize(f, bp), MStart(f, bp)),
                                        !.next = [@ EXCEPT ![MStart(f, bp)] = MList(f, bp).next[f.merge],
                                                           ![f.merge] = MStart(f, bp)],
                                        !.merge = MStart(f, bp), !.size = MTotal(f, bp)]
    BY <1>3, MergeBlockParts
  <2> QED
    BY <1>1, <1>3, <2>1, NewMerge
<1>4. CASE ~ MGlued(f, bp) /\ MSize(f, bp) = 0
  <2>1. MergeBlock(f, bp).f = [MList(f, bp) EXCEPT !.fragment = bp, !.size = MTotal(f, bp) - 1]
    BY <1>4, MergeBlockParts
  <2>2. Merged(f, [MList(f, bp) EXCEPT !.fragment = bp, !.size = MTotal(f, bp) - 1], bp, MLo(f, bp), MAdj(f, bp))
    BY <1>4, FragmentKept, ZenonT(30)
  <2> QED
    BY <1>1, <2>1, <2>2, Zenon
<1> QED
  BY <1>2, <1>3, <1>4

=============================================================================
