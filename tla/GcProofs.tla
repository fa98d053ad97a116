------------------------------ MODULE GcProofs ------------------------------
(***************************************************************************)
(* What the collector of Gc keeps for any number of blocks, fields, roots  *)
(* and gray values, when a program does not use weak arrays and finalised  *)
(* values together (NotBoth).                                              *)
(*                                                                         *)
(* The proof rests on the set Safe of what this collection will not free:  *)
(* what is marked, and what the marker will come to from there; between    *)
(* collections everything, and while sweeping what the sweeper will pass.  *)
(* The roots are in it (RootInv), it is closed (ClosedInv), and what the   *)
(* weak arrays hold is in it from the turn that cleaned them (WeakInv).    *)
(* The barrier keeps all that in every step of the program: darkening      *)
(* loses nothing (DarkerKeeps), and a field overwritten while its block    *)
(* waits to be marked leaves its value marked (ModifyMajor).               *)
(***************************************************************************)
EXTENDS Gc, FiniteSetTheorems, SequenceTheorems, WellFoundedInduction, TLAPS

-----------------------------------------------------------------------------
(* Numbers *)

\* Induction over the naturals, for a set.
LEMMA SetInduction ==
  ASSUME NEW S, 0 \in S, \A n \in Nat : n \in S => n + 1 \in S
  PROVE  \A n \in Nat : n \in S
<1> DEFINE less == {p \in Nat \X Nat : p[1] < p[2]}
           T == Nat \ S
<1> SUFFICES ASSUME T # {} PROVE FALSE
  OBVIOUS
<1>1. IsWellFoundedOn(less, Nat)
  <2>1. less = OpToRel(<, Nat)
    BY DEF OpToRel
  <2> QED
    BY <2>1, NatLessThanWellFounded
<1>2. PICK m \in T : \A k \in T : <<k, m>> \notin less
  BY <1>1, WFMin
<1>3. m \in Nat /\ m # 0 /\ m - 1 \in Nat
  OBVIOUS
<1>4. <<m - 1, m>> \in less
  BY <1>3
<1>5. m - 1 \in S
  BY <1>2, <1>3, <1>4
<1> QED
  BY <1>3, <1>5

\* The least number of a set.
LEMMA LeastNumber ==
  ASSUME NEW S \in SUBSET Nat, S # {}
  PROVE  \E m \in S : \A k \in S : m <= k
<1> DEFINE less == {p \in Nat \X Nat : p[1] < p[2]}
<1>1. IsWellFoundedOn(less, Nat)
  <2>1. less = OpToRel(<, Nat)
    BY DEF OpToRel
  <2> QED
    BY <2>1, NatLessThanWellFounded
<1>2. PICK m \in S : \A k \in S : <<k, m>> \notin less
  BY <1>1, WFMin
<1>3. \A k \in S : ~ (k < m)
  BY <1>2
<1> QED
  BY <1>2, <1>3

-----------------------------------------------------------------------------
(* The invariant *)

\* The marker will look into such a block.
Scans(b) == b.kind = "plain" /\ b.color # "black"

\* C holds what is marked, and what the marker will come to from there.
IsMarking(m, C) ==
  \A a \in Major : /\ m[a].color \in {"gray", "black"} => a \in C
                   /\ a \in C /\ Scans(m[a]) => \A i \in Field : m[a].f[i] \in Major => m[a].f[i] \in C

\* The blocks that will be black at the end of marking, if nothing else happens.
Marked(m) == {a \in Major : \A C \in SUBSET Major : IsMarking(m, C) => a \in C}

\* The blocks of the major heap that this collection will not free.
Kept == IF phase = "idle" THEN {a \in Major : mem[a].color # "free"}
        ELSE IF phase = "sweep"
        THEN {a \in Major : mem[a].color = "black" \/ (mem[a].color = "white" /\ a < sweep_hp)}
        ELSE Marked(mem)

\* With the young values, which no slice frees.
Safe == DOMAIN young \cup Kept

SafeOrNone(v) == v = None \/ v \in Safe

\* No program uses both weak arrays and finalised values. caml_final_update
\* revives what a weak array may hold after the array was cleaned, but not what
\* that leads to: MCGc_weak.cfg shows what becomes of it.
NotBoth == \A p \in Programs : ~ ({"weak", "final"} \subseteq p)

\* A free block holds nothing.
FreeInv == \A a \in Major : mem[a].color = "free" => mem[a] = FreeBlock

\* The gray values are in the stack once, or the walk of the heap will find them.
GrayInv == IsInjective(gray) /\ GrayIsFound

\* Between the phases of marking nothing is gray; before it nothing is black, and
\* behind the sweeper nothing is.
PhaseInv ==
  /\ ~ Marking => gray = << >> /\ markhp = None /\ pure /\ \A a \in Major : mem[a].color # "gray"
  /\ phase = "idle" => \A a \in Major : mem[a].color # "black"
  /\ phase = "sweep" => sweep_hp >= 1 /\ \A a \in Major : a < sweep_hp => mem[a].color # "black"

\* What the program can get at without looking into a block will not be freed.
RootInv == \A v \in Range(root) \cup GenValue \cup final.todo \cup final.recent : SafeOrNone(v)

\* What will not be freed leads to nothing that will.
ClosedInv ==
  \A o \in Safe : Scanned(o) => \A i \in Field : SafeOrNone(Content(o)[i])

\* Until the sweeper starts no block points to a free one, dead blocks included.
HeapInv ==
  phase # "sweep" => \A a \in Major, i \in Field : mem[a].f[i] = None \/ Allocated(mem[a].f[i])

\* The finalised values are blocks of the major heap; once the dead ones have been
\* taken out, the others are marked.
OldInv ==
  /\ \A v \in final.old : v \in Major /\ Allocated(v) /\ (phase \in {"final", "sweep"} => v \in Safe)
  /\ final.todo \subseteq Major

\* The generational root is in the list that the next scan of its value needs.
GenInv ==
  gen.reg => (gen.val \in Young => gen.young) /\ (gen.val \in Major => gen.young \/ gen.old)

\* Pointers to the minor heap are in the table for the kind of their block.
RememberInv ==
  /\ \A l \in ref_table : mem[l[1]].color # "free" /\ mem[l[1]].kind = "plain"
  /\ \A l \in weak_ref_table : mem[l[1]].color # "free" /\ mem[l[1]].kind = "weak"
  /\ \A a \in Major, i \in Field : mem[a].f[i] \in Young =>
       /\ mem[a].f[i] \in DOMAIN young
       /\ <<a, i>> \in IF mem[a].kind = "plain" THEN ref_table ELSE weak_ref_table
  /\ DOMAIN young = {} => ref_table = {} /\ weak_ref_table = {}

\* The subphase weak1 has cleared the k-th weak array of what is dead.
Cleaned(k) == phase \in {"weak2", "final", "sweep"} \/ (phase = "weak1" /\ k < WeakAt)

\* The subphase weak2 has seen that the k-th weak array is not dead.
Passed(k) == phase \in {"final", "sweep"} \/ (phase = "weak2" /\ k < WeakAt)

\* The list holds the weak arrays, and what has been cleared of dead values holds
\* none.
WeakInv ==
  /\ IsInjective(weaks)
  /\ \A k \in DOMAIN weaks : IsWeak(weaks[k])
  /\ \A a \in Major : IsWeak(a) /\ (phase \in {"idle", "main", "weak1"} \/ a \in Safe) => a \in Range(weaks)
  /\ phase \in {"weak1", "weak2"} => weak_prev = None \/ weak_prev \in Range(weaks)
  /\ \A k \in DOMAIN weaks, i \in Field : Cleaned(k) => SafeOrNone(mem[weaks[k]].f[i])
  /\ \A k \in DOMAIN weaks : Passed(k) => weaks[k] \in Safe

\* A program that does not use them has no weak arrays, or no finalised values.
UsesInv ==
  /\ "weak" \notin uses => weaks = << >> /\ \A a \in Major : mem[a].kind = "plain"
  /\ "final" \notin uses => final = [old |-> {}, recent |-> {}, todo |-> {}]

\* The inductive invariant.
IInv ==
  /\ TypeOK /\ FreeInv /\ GrayInv /\ PhaseInv /\ RootInv /\ ClosedInv
  /\ HeapInv /\ OldInv /\ GenInv /\ RememberInv /\ WeakInv /\ UsesInv

-----------------------------------------------------------------------------
(* What is reachable *)

\* One more generation of the values that S leads to.
Further(S) == S \cup UNION {Range(Content(o)) \ {None} : o \in {p \in S : Scanned(p)}}

\* The generations of what is reachable form a function.
LEMMA ReachExists ==
  ASSUME NEW V
  PROVE  \A N \in Nat : \E f : f = [n \in 0 .. N |-> IF n = 0 THEN V \ {None} ELSE Further(f[n - 1])]
<1> DEFINE S == {N \in Nat : \E f : f = [n \in 0 .. N |-> IF n = 0 THEN V \ {None} ELSE Further(f[n - 1])]}
<1>1. 0 \in S
  <2> DEFINE g == [n \in 0 .. 0 |-> V \ {None}]
  <2>1. g = [n \in 0 .. 0 |-> IF n = 0 THEN V \ {None} ELSE Further(g[n - 1])]
    OBVIOUS
  <2> HIDE DEF g
  <2> QED
    BY <2>1
<1>2. \A N \in Nat : N \in S => N + 1 \in S
  <2> SUFFICES ASSUME NEW N \in Nat, N \in S PROVE N + 1 \in S
    OBVIOUS
  <2>1. PICK f : f = [n \in 0 .. N |-> IF n = 0 THEN V \ {None} ELSE Further(f[n - 1])]
    OBVIOUS
  <2> DEFINE g == [n \in 0 .. N + 1 |-> IF n = 0 THEN V \ {None} ELSE Further(f[n - 1])]
  <2>2. \A n \in 0 .. N : g[n] = f[n]
    <3> SUFFICES ASSUME NEW n \in 0 .. N PROVE g[n] = f[n]
      OBVIOUS
    <3>1. f[n] = IF n = 0 THEN V \ {None} ELSE Further(f[n - 1])
      BY <2>1
    <3> QED
      BY <3>1
  <2>3. g = [n \in 0 .. N + 1 |-> IF n = 0 THEN V \ {None} ELSE Further(g[n - 1])]
    <3>1. \A n \in 0 .. N + 1 : n # 0 => n - 1 \in 0 .. N
      OBVIOUS
    <3>2. \A n \in 0 .. N + 1 : n # 0 => g[n - 1] = f[n - 1]
      BY <3>1, <2>2
    <3>3. g = [n \in 0 .. N + 1 |-> IF n = 0 THEN V \ {None} ELSE Further(f[n - 1])]
      OBVIOUS
    <3> HIDE DEF g
    <3>4. \A n \in 0 .. N + 1 : (IF n = 0 THEN V \ {None} ELSE Further(f[n - 1]))
                               = (IF n = 0 THEN V \ {None} ELSE Further(g[n - 1]))
      BY <3>2
    <3> QED
      BY <3>3, <3>4
  <2> HIDE DEF g
  <2> QED
    BY <2>3
<1> HIDE DEF S
<1>3. \A N \in Nat : N \in S
  BY <1>1, <1>2, SetInduction
<1> QED
  BY <1>3 DEF S

\* What is reachable comes generation by generation.
LEMMA ReachUnfolds ==
  ASSUME NEW V
  PROVE  \E from : /\ from[0] = V \ {None}
                   /\ \A n \in Nat : n + 1 \in 0 .. M + Y => from[n + 1] = Further(from[n])
                   /\ Reach(V) = from[M + Y]
<1> DEFINE from[n \in 0 .. M + Y] == IF n = 0 THEN V \ {None} ELSE Further(from[n - 1])
<1>0. M + Y \in Nat
  BY GcAssumption
<1>1. from = [n \in 0 .. M + Y |-> IF n = 0 THEN V \ {None} ELSE Further(from[n - 1])]
  <2>1. \E f : f = [n \in 0 .. M + Y |-> IF n = 0 THEN V \ {None} ELSE Further(f[n - 1])]
    <3>1. PICK N \in Nat : N = M + Y
      BY <1>0
    <3>2. \E f : f = [n \in 0 .. N |-> IF n = 0 THEN V \ {None} ELSE Further(f[n - 1])]
      BY ReachExists
    <3> QED
      BY <3>1, <3>2
  <2> QED
    BY <2>1
<1>2. Reach(V) = from[M + Y]
  BY DEF Reach, Further
<1> HIDE DEF from
<1>3. \A n \in 0 .. M + Y : from[n] = IF n = 0 THEN V \ {None} ELSE Further(from[n - 1])
  BY <1>1
<1>4. from[0] = V \ {None}
  BY <1>0, <1>3
<1>5. ASSUME NEW n \in Nat, n + 1 \in 0 .. M + Y PROVE from[n + 1] = Further(from[n])
  <2>1. n + 1 # 0 /\ (n + 1) - 1 = n
    OBVIOUS
  <2> QED
    BY <1>3, <1>5, <2>1
<1> QED
  BY <1>2, <1>4, <1>5

\* A set that values do not lead out of.
Closed(C) == \A o \in C : Scanned(o) => \A v \in Range(Content(o)) : v = None \/ v \in C

\* What is reachable from V is in every closed set that V is in.
LEMMA ReachLeast ==
  ASSUME NEW V, NEW C, \A v \in V : v = None \/ v \in C, Closed(C)
  PROVE  Reach(V) \subseteq C
<1>1. PICK from : /\ from[0] = V \ {None}
                  /\ \A n \in Nat : n + 1 \in 0 .. M + Y => from[n + 1] = Further(from[n])
                  /\ Reach(V) = from[M + Y]
  BY ReachUnfolds
<1> DEFINE S == {n \in Nat : n \in 0 .. M + Y => from[n] \subseteq C}
<1>2. 0 \in S
  BY <1>1
<1>3. \A n \in Nat : n \in S => n + 1 \in S
  <2> SUFFICES ASSUME NEW n \in Nat, n \in S, n + 1 \in 0 .. M + Y PROVE from[n + 1] \subseteq C
    OBVIOUS
  <2>1. n \in 0 .. M + Y /\ from[n] \subseteq C
    BY GcAssumption
  <2>2. Further(from[n]) \subseteq C
    BY <2>1 DEF Further, Closed
  <2> QED
    BY <1>1, <2>2
<1> HIDE DEF S
<1>4. \A n \in Nat : n \in S
  BY <1>2, <1>3, SetInduction
<1>5. M + Y \in Nat /\ M + Y \in 0 .. M + Y
  BY GcAssumption
<1> QED
  BY <1>1, <1>4, <1>5 DEF S

\* It holds what it starts from and is closed: there are enough generations.
LEMMA ReachCloses ==
  ASSUME TypeOK, NEW V \in SUBSET Value
  PROVE  /\ \A v \in V : v = None \/ v \in Reach(V)
         /\ Reach(V) \subseteq Value \ {None}
         /\ Closed(Reach(V))
<1> DEFINE All == 1 .. M + Y
<1>0. M + Y \in Nat /\ Value \ {None} = All /\ IsFiniteSet(All) /\ Cardinality(All) = M + Y
  <2>1. M + Y \in Nat /\ Value \ {None} = All
    BY GcAssumption DEF Value, None
  <2>2. IsFiniteSet(All) /\ Cardinality(All) = IF 1 > M + Y THEN 0 ELSE (M + Y) - 1 + 1
    BY <2>1, FS_Interval
  <2> QED
    BY <2>1, <2>2, GcAssumption
<1>1. PICK from : /\ from[0] = V \ {None}
                  /\ \A n \in Nat : n + 1 \in 0 .. M + Y => from[n + 1] = Further(from[n])
                  /\ Reach(V) = from[M + Y]
  BY ReachUnfolds
<1>2. ASSUME NEW o, Scanned(o) PROVE Range(Content(o)) \subseteq Value
  <2>1. CASE o \in DOMAIN young
    BY <2>1 DEF TypeOK, Content, Range
  <2>2. CASE o \in Major /\ o \notin Young
    BY <2>2 DEF TypeOK, Content, Range, Block
  <2>3. Young \cap Major = {}
    BY GcAssumption DEF Young, Major
  <2> QED
    BY <1>2, <2>1, <2>2, <2>3 DEF Scanned
<1>3. ASSUME NEW S, S \subseteq All PROVE Further(S) \subseteq All /\ S \subseteq Further(S)
  BY <1>0, <1>2, <1>3 DEF Further
<1> HIDE DEF All
<1>4. ASSUME NEW S, Further(S) = S PROVE Closed(S)
  BY <1>4 DEF Closed, Further
<1> DEFINE P == {n \in Nat : n \in 0 .. M + Y =>
                   /\ from[n] \subseteq All /\ V \ {None} \subseteq from[n]
                   /\ Further(from[n]) = from[n] \/ Cardinality(from[n]) >= n}
<1>5. 0 \in P
  <2>1. from[0] \subseteq All /\ IsFiniteSet(from[0])
    BY <1>0, <1>1, FS_Subset
  <2>2. Cardinality(from[0]) >= 0
    BY <2>1, FS_CardinalityType
  <2> QED
    BY <1>1, <2>1, <2>2
<1>6. \A n \in Nat : n \in P => n + 1 \in P
  <2> SUFFICES ASSUME NEW n \in Nat, n \in P, n + 1 \in 0 .. M + Y
               PROVE  /\ from[n + 1] \subseteq All /\ V \ {None} \subseteq from[n + 1]
                      /\ Further(from[n + 1]) = from[n + 1] \/ Cardinality(from[n + 1]) >= n + 1
    OBVIOUS
  <2>1. /\ from[n] \subseteq All /\ V \ {None} \subseteq from[n]
        /\ Further(from[n]) = from[n] \/ Cardinality(from[n]) >= n
    BY <1>0
  <2> HIDE DEF P
  <2>2. from[n + 1] = Further(from[n])
    BY <1>1
  <2>3. from[n + 1] \subseteq All /\ from[n] \subseteq from[n + 1]
    BY <1>3, <2>1, <2>2
  <2>4. CASE Further(from[n]) = from[n]
    BY <2>1, <2>2, <2>3, <2>4
  <2>5. CASE Further(from[n]) # from[n] /\ Cardinality(from[n]) >= n
    <3>1. IsFiniteSet(from[n + 1])
      BY <1>0, <2>3, FS_Subset
    <3>2. /\ IsFiniteSet(from[n]) /\ Cardinality(from[n]) <= Cardinality(from[n + 1])
          /\ Cardinality(from[n]) = Cardinality(from[n + 1]) => from[n] = from[n + 1]
      BY <2>3, <3>1, FS_Subset
    <3>3. Cardinality(from[n]) \in Nat /\ Cardinality(from[n + 1]) \in Nat
      BY <3>1, <3>2, FS_CardinalityType
    <3>4. Cardinality(from[n]) # Cardinality(from[n + 1])
      BY <2>2, <2>5, <3>2
    <3>5. Cardinality(from[n + 1]) >= n + 1
      BY <2>5, <3>2, <3>3, <3>4
    <3> QED
      BY <2>1, <2>3, <3>5
  <2> QED
    BY <2>1, <2>4, <2>5
<1> HIDE DEF P
<1>7. \A n \in Nat : n \in P
  BY <1>5, <1>6, SetInduction
<1>8. M + Y \in 0 .. M + Y
  BY <1>0
<1> DEFINE R == Reach(V)
<1> HIDE DEF R
<1>9. R \subseteq All /\ V \ {None} \subseteq R /\ (Further(R) = R \/ Cardinality(R) >= M + Y)
  BY <1>0, <1>1, <1>7, <1>8 DEF P, R
<1>10. Further(R) = R
  <2>1. CASE Cardinality(R) >= M + Y
    <3>1. /\ IsFiniteSet(R) /\ Cardinality(R) <= Cardinality(All)
          /\ Cardinality(R) = Cardinality(All) => R = All
      BY <1>0, <1>9, FS_Subset
    <3>2. Cardinality(R) \in Nat
      BY <3>1, FS_CardinalityType
    <3>3. R = All
      BY <1>0, <2>1, <3>1, <3>2
    <3> QED
      BY <1>3, <3>3
  <2> QED
    BY <1>9, <2>1
<1> QED
  BY <1>0, <1>4, <1>9, <1>10 DEF R

-----------------------------------------------------------------------------
(* What the marker will come to *)

\* What the marker will come to is closed for the marker.
LEMMA MarkedIs ==
  ASSUME NEW m
  PROVE  Marked(m) \subseteq Major /\ IsMarking(m, Marked(m))
<1>1. ASSUME NEW a \in Major, m[a].color \in {"gray", "black"} PROVE a \in Marked(m)
  BY <1>1 DEF Marked, IsMarking
<1>2. ASSUME NEW a \in Major, a \in Marked(m), Scans(m[a]), NEW i \in Field, m[a].f[i] \in Major
      PROVE  m[a].f[i] \in Marked(m)
  <2> SUFFICES ASSUME NEW C \in SUBSET Major, IsMarking(m, C) PROVE m[a].f[i] \in C
    BY <1>2 DEF Marked
  <2>1. a \in C
    BY <1>2 DEF Marked
  <2> QED
    BY <1>2, <2>1 DEF IsMarking
<1> QED
  BY <1>1, <1>2 DEF IsMarking, Marked

\* And the least such set.
LEMMA MarkedLeast ==
  ASSUME NEW m, NEW C \in SUBSET Major, IsMarking(m, C)
  PROVE  Marked(m) \subseteq C
  BY DEF Marked

\* Nothing marked is free, when blocks lead to blocks.
LEMMA MarkedAllocated ==
  ASSUME NEW m, \A a \in Major, i \in Field : m[a].color # "free" /\ m[a].f[i] \in Major => m[m[a].f[i]].color # "free"
  PROVE  \A a \in Marked(m) : m[a].color # "free"
<1> DEFINE C == {a \in Major : m[a].color # "free"}
<1>1. IsMarking(m, C)
  BY DEF IsMarking
<1> QED
  BY <1>1, MarkedLeast

\* When nothing is gray, the marker has come to everything it will come to.
LEMMA MarkedAtEnd ==
  ASSUME NEW m, \A a \in Major : m[a].color # "gray"
  PROVE  Marked(m) = {a \in Major : m[a].color = "black"}
<1> DEFINE C == {a \in Major : m[a].color = "black"}
<1>1. IsMarking(m, C)
  BY DEF IsMarking, Scans
<1>2. C \subseteq Marked(m)
  BY MarkedIs DEF IsMarking
<1> QED
  BY <1>1, <1>2, MarkedLeast

\* n is m with some white blocks of V darkened.
Darker(m, n, V) ==
  /\ n \in [Major -> Block]
  /\ \A a \in Major : /\ n[a].kind = m[a].kind /\ n[a].f = m[a].f
                      /\ \/ n[a].color = m[a].color
                         \/ /\ a \in V /\ m[a].color = "white"
                            /\ n[a].color = "gray" \/ (n[a].color = "black" /\ m[a].kind = "weak")

\* Darkening twice.
LEMMA DarkerTrans ==
  ASSUME NEW m, NEW n, NEW k, NEW V, NEW W, Darker(m, n, V), Darker(n, k, W)
  PROVE  Darker(m, k, V \cup W)
<1> SUFFICES ASSUME NEW a \in Major
             PROVE  /\ k[a].kind = m[a].kind /\ k[a].f = m[a].f
                    /\ \/ k[a].color = m[a].color
                       \/ /\ a \in V \cup W /\ m[a].color = "white"
                          /\ k[a].color = "gray" \/ (k[a].color = "black" /\ m[a].kind = "weak")
  BY DEF Darker
<1>1. /\ n[a].kind = m[a].kind /\ n[a].f = m[a].f
      /\ \/ n[a].color = m[a].color
         \/ /\ a \in V /\ m[a].color = "white"
            /\ n[a].color = "gray" \/ (n[a].color = "black" /\ m[a].kind = "weak")
  BY DEF Darker
<1>2. /\ k[a].kind = n[a].kind /\ k[a].f = n[a].f
      /\ \/ k[a].color = n[a].color
         \/ /\ a \in W /\ n[a].color = "white"
            /\ k[a].color = "gray" \/ (k[a].color = "black" /\ n[a].kind = "weak")
  BY DEF Darker
<1> QED
  BY <1>1, <1>2

\* Darkening loses nothing, and adds nothing that was marked anyway.
LEMMA DarkerKeeps ==
  ASSUME NEW m, NEW n, NEW V, Darker(m, n, V)
  PROVE  Marked(m) \subseteq Marked(n)
<1> DEFINE C == Marked(n)
<1>0. C \subseteq Major /\ IsMarking(n, C)
  BY MarkedIs
<1> HIDE DEF C
<1>1. ASSUME NEW a \in Major, m[a].color \in {"gray", "black"} PROVE a \in C
  <2>1. n[a].color = m[a].color
    BY <1>1 DEF Darker
  <2> QED
    BY <1>0, <1>1, <2>1 DEF IsMarking
<1>2. ASSUME NEW a \in Major, a \in C, Scans(m[a]), NEW i \in Field, m[a].f[i] \in Major
      PROVE  m[a].f[i] \in C
  <2>1. Scans(n[a]) /\ n[a].f[i] = m[a].f[i]
    BY <1>2 DEF Darker, Scans
  <2> QED
    BY <1>0, <1>2, <2>1 DEF IsMarking
<1>3. IsMarking(m, C)
  BY <1>1, <1>2 DEF IsMarking
<1> QED
  BY <1>0, <1>3, MarkedLeast DEF C

\* And marks nothing more, if the values were marked already.
LEMMA DarkerAdds ==
  ASSUME NEW m, NEW n, NEW V, Darker(m, n, V), V \cap Major \subseteq Marked(m)
  PROVE  Marked(n) \subseteq Marked(m)
<1> DEFINE C == Marked(m)
<1>0. C \subseteq Major /\ IsMarking(m, C)
  BY MarkedIs
<1> HIDE DEF C
<1>1. ASSUME NEW a \in Major, n[a].color \in {"gray", "black"} PROVE a \in C
  <2>1. CASE n[a].color = m[a].color
    BY <1>0, <1>1, <2>1 DEF IsMarking
  <2>2. CASE a \in V
    BY <2>2 DEF C
  <2> QED
    BY <2>1, <2>2 DEF Darker
<1>2. ASSUME NEW a \in Major, a \in C, Scans(n[a]), NEW i \in Field, n[a].f[i] \in Major
      PROVE  n[a].f[i] \in C
  <2>1. Scans(m[a]) /\ n[a].f[i] = m[a].f[i]
    BY <1>2 DEF Darker, Scans
  <2> QED
    BY <1>0, <1>2, <2>1 DEF IsMarking
<1>3. IsMarking(n, C)
  BY <1>1, <1>2 DEF IsMarking
<1> QED
  BY <1>0, <1>3, MarkedLeast DEF C

-----------------------------------------------------------------------------
(* The stack of gray values *)

\* The states of the marker.
MarkerT == [mem : [Major -> Block], gray : Seq(Major), pure : BOOLEAN]

\* GrayInv of a state of the marker.
GrayOf(s) ==
  /\ \A j, k \in DOMAIN s.gray : s.gray[j] = s.gray[k] => j = k
  /\ \A k \in DOMAIN s.gray : s.mem[s.gray[k]].color = "gray"
  /\ s.pure => \A a \in Major : s.mem[a].color = "gray" =>
                 (\E k \in DOMAIN s.gray : s.gray[k] = a) \/ (markhp # None /\ a >= markhp)

\* GrayInv, of the state of the marker.
LEMMA GrayIs ==
  ASSUME gray \in Seq(Major)
  PROVE  GrayInv <=> GrayOf(Marker)
  BY DEF GrayInv, GrayOf, Marker, GrayIsFound, IsInjective, Range

\* Only the colour of a block changes.
LEMMA SetColor ==
  ASSUME NEW m \in [Major -> Block], NEW v \in Major, NEW color \in {"free", "white", "gray", "black"}
  PROVE  /\ Colored(m, v, color) \in [Major -> Block]
         /\ Colored(m, v, color)[v].color = color
         /\ Colored(m, v, color)[v].kind = m[v].kind /\ Colored(m, v, color)[v].f = m[v].f
         /\ \A a \in Major : a # v => Colored(m, v, color)[a] = m[a]
<1> DEFINE b == [m[v] EXCEPT !.color = color]
<1>1. b \in Block /\ b.color = color /\ b.kind = m[v].kind /\ b.f = m[v].f
  BY DEF Block
<1>2. Colored(m, v, color) = [m EXCEPT ![v] = b]
  BY DEF Colored
<1> HIDE DEF b
<1> QED
  BY <1>1, <1>2

\* A block that turned gray is pushed, or the stack loses a part and notes it.
LEMMA PushedIs ==
  ASSUME NEW s \in MarkerT, NEW v \in Major, s.mem[v].color = "gray",
         \A j, k \in DOMAIN s.gray : s.gray[j] = s.gray[k] => j = k,
         \A k \in DOMAIN s.gray : s.gray[k] # v /\ s.mem[s.gray[k]].color = "gray",
         s.pure => \A a \in Major : s.mem[a].color = "gray" =>
           a = v \/ (\E k \in DOMAIN s.gray : s.gray[k] = a) \/ (markhp # None /\ a >= markhp),
         NEW t \in Pushed(s, v)
  PROVE  t \in MarkerT /\ t.mem = s.mem /\ GrayOf(t)
<1> DEFINE g == Append(s.gray, v)
           n == Len(s.gray)
<1>1. /\ s.gray \in Seq(Major) /\ n \in Nat /\ g \in Seq(Major) /\ Len(g) = n + 1
      /\ DOMAIN g = 1 .. n + 1 /\ DOMAIN s.gray = 1 .. n
      /\ g[n + 1] = v /\ \A k \in 1 .. n : g[k] = s.gray[k]
  BY DEF MarkerT
<1>2. \A j, k \in 1 .. n + 1 : g[j] = g[k] => j = k
  <2> SUFFICES ASSUME NEW j \in 1 .. n + 1, NEW k \in 1 .. n + 1, g[j] = g[k] PROVE j = k
    OBVIOUS
  <2>1. \A l \in 1 .. n + 1 : l = n + 1 \/ l \in 1 .. n
    BY <1>1
  <2> QED
    BY <1>1, <2>1
<1>3. \A k \in 1 .. n + 1 : s.mem[g[k]].color = "gray"
  <2>1. \A l \in 1 .. n + 1 : l = n + 1 \/ l \in 1 .. n
    BY <1>1
  <2> QED
    BY <1>1, <2>1
<1>4. ASSUME NEW h \in Seq(Major), NEW p \in BOOLEAN, t = [s EXCEPT !.gray = h, !.pure = p],
             DOMAIN h \subseteq 1 .. n + 1, \A k \in DOMAIN h : h[k] = g[k],
             p => s.pure /\ h = g
      PROVE  t \in MarkerT /\ t.mem = s.mem /\ GrayOf(t)
  <2>1. t \in MarkerT /\ t.mem = s.mem /\ t.gray = h /\ t.pure = p
    BY <1>4 DEF MarkerT
  <2>2. \A j, k \in DOMAIN h : h[j] = h[k] => j = k
    BY <1>2, <1>4
  <2>3. \A k \in DOMAIN h : s.mem[h[k]].color = "gray"
    BY <1>3, <1>4
  <2>4. ASSUME p, NEW a \in Major, s.mem[a].color = "gray"
        PROVE  (\E k \in DOMAIN h : h[k] = a) \/ (markhp # None /\ a >= markhp)
    <3>1. h = g /\ DOMAIN h = 1 .. n + 1 /\ s.pure
      BY <1>1, <1>4, <2>4
    <3>2. CASE a = v
      BY <1>1, <3>1, <3>2
    <3>3. CASE \E k \in DOMAIN s.gray : s.gray[k] = a
      <4>1. PICK k \in 1 .. n : s.gray[k] = a
        BY <1>1, <3>3
      <4>2. k \in DOMAIN h /\ h[k] = a
        BY <1>1, <3>1, <4>1
      <4> QED
        BY <4>2
    <3> QED
      BY <2>4, <3>1, <3>2, <3>3
  <2> HIDE DEF g, n
  <2> QED
    BY <2>1, <2>2, <2>3, <2>4 DEF GrayOf
<1>5. CASE Len(g) < GrayMax
  <2>1. t = [s EXCEPT !.gray = g]
    BY <1>5 DEF Pushed
  <2>2. t = [s EXCEPT !.gray = g, !.pure = s.pure]
    BY <2>1 DEF MarkerT
  <2>3. s.pure \in BOOLEAN
    BY DEF MarkerT
  <2> QED
    BY <1>1, <1>4, <2>2, <2>3
<1>6. CASE ~ (Len(g) < GrayMax)
  <2>1. PICK o \in Overflowed(g, s.pure) : t = [s EXCEPT !.gray = o.gray, !.pure = o.pure]
    BY <1>6 DEF Pushed
  <2>2. CASE o = [gray |-> g, pure |-> s.pure]
    <3>1. s.pure \in BOOLEAN
      BY DEF MarkerT
    <3> QED
      BY <1>1, <1>4, <2>1, <2>2, <3>1
  <2>3. CASE o = [gray |-> SubSeq(g, 1, GrayMax \div 2), pure |-> FALSE]
    <3>1. GrayMax \div 2 \in Nat /\ GrayMax \div 2 <= n + 1
      BY <1>1, <1>6, GcAssumption
    <3> DEFINE h == SubSeq(g, 1, GrayMax \div 2)
    <3>2. h \in Seq(Major) /\ Len(h) = GrayMax \div 2 /\ \A k \in 1 .. Len(h) : h[k] = g[k]
      BY <1>1, <3>1
    <3>3. DOMAIN h = 1 .. Len(h) /\ DOMAIN h \subseteq 1 .. n + 1
      BY <1>1, <3>1, <3>2
    <3> HIDE DEF h, g, n
    <3> QED
      BY <1>4, <2>1, <2>3, <3>2, <3>3 DEF h
  <2>4. CASE o = [gray |-> << >>, pure |-> FALSE]
    <3>1. << >> \in Seq(Major) /\ DOMAIN << >> = {}
      OBVIOUS
    <3> HIDE DEF g, n
    <3> QED
      BY <1>4, <2>1, <2>4, <3>1
  <2> QED
    BY <2>1, <2>2, <2>3, <2>4 DEF Overflowed
<1> QED
  BY <1>5, <1>6

\* What one call of caml_darken does.
LEMMA ShadeIs ==
  ASSUME NEW s \in MarkerT, GrayOf(s), NEW v, NEW leaves \in SUBSET {"weak"}, NEW t \in Shade(s, v, leaves)
  PROVE  /\ t \in MarkerT /\ GrayOf(t) /\ Darker(s.mem, t.mem, {v})
         /\ v \in Major => t.mem[v].color # "white"
<1>0. s.mem \in [Major -> Block] /\ s.gray \in Seq(Major)
  BY DEF MarkerT
<1>1. CASE v \notin Major \/ s.mem[v].color # "white"
  <2>1. t = s
    BY <1>1 DEF Shade
  <2> QED
    BY <1>0, <1>1, <2>1 DEF Darker
<1>2. CASE v \in Major /\ s.mem[v].color = "white" /\ s.mem[v].kind \in leaves
  <2> DEFINE m == Colored(s.mem, v, "black")
  <2>1. t = [s EXCEPT !.mem = m]
    BY <1>2 DEF Shade
  <2>2. /\ m \in [Major -> Block] /\ m[v].color = "black" /\ m[v].kind = s.mem[v].kind /\ m[v].f = s.mem[v].f
        /\ \A a \in Major : a # v => m[a] = s.mem[a]
    BY <1>0, <1>2, SetColor
  <2> HIDE DEF m
  <2>3. t \in MarkerT /\ t.mem = m /\ t.gray = s.gray /\ t.pure = s.pure
    BY <2>1, <2>2 DEF MarkerT
  <2>4. Darker(s.mem, m, {v})
    BY <1>2, <2>2 DEF Darker
  <2>5. GrayOf(t)
    <3>1. \A k \in DOMAIN s.gray : s.gray[k] \in Major /\ s.gray[k] # v
      BY <1>0, <1>2 DEF GrayOf
    <3>2. \A k \in DOMAIN s.gray : m[s.gray[k]].color = "gray"
      BY <2>2, <3>1 DEF GrayOf
    <3>3. \A a \in Major : m[a].color = "gray" => s.mem[a].color = "gray"
      BY <2>2
    <3> QED
      BY <2>3, <3>2, <3>3 DEF GrayOf
  <2> QED
    BY <2>2, <2>3, <2>4, <2>5
<1>3. CASE v \in Major /\ s.mem[v].color = "white" /\ s.mem[v].kind \notin leaves
  <2> DEFINE m == Colored(s.mem, v, "gray")
             u == [s EXCEPT !.mem = m]
  <2>1. t \in Pushed(u, v)
    BY <1>3 DEF Shade
  <2>2. /\ m \in [Major -> Block] /\ m[v].color = "gray" /\ m[v].kind = s.mem[v].kind /\ m[v].f = s.mem[v].f
        /\ \A a \in Major : a # v => m[a] = s.mem[a]
    BY <1>0, <1>3, SetColor
  <2> HIDE DEF m
  <2>3. u \in MarkerT /\ u.mem = m /\ u.gray = s.gray /\ u.pure = s.pure
    BY <2>2 DEF MarkerT
  <2> HIDE DEF u
  <2>4. Darker(s.mem, m, {v})
    BY <1>3, <2>2 DEF Darker
  <2>5. \A k \in DOMAIN u.gray : u.gray[k] # v /\ u.mem[u.gray[k]].color = "gray"
    <3>1. \A k \in DOMAIN s.gray : s.gray[k] \in Major /\ s.gray[k] # v
      BY <1>0, <1>3 DEF GrayOf
    <3> QED
      BY <2>2, <2>3, <3>1 DEF GrayOf
  <2>6. u.pure => \A a \in Major : u.mem[a].color = "gray" =>
           a = v \/ (\E k \in DOMAIN u.gray : u.gray[k] = a) \/ (markhp # None /\ a >= markhp)
    BY <2>2, <2>3 DEF GrayOf
  <2>7. \A j, k \in DOMAIN u.gray : u.gray[j] = u.gray[k] => j = k
    BY <2>3 DEF GrayOf
  <2>8. t \in MarkerT /\ t.mem = u.mem /\ GrayOf(t)
    BY <1>3, <2>1, <2>2, <2>3, <2>5, <2>6, <2>7, PushedIs
  <2> QED
    BY <2>2, <2>3, <2>4, <2>8
<1> QED
  BY <1>1, <1>2, <1>3

\* One more value of a sequence is darkened in each of the states T.
OneMore(T, vs, n, leaves) == UNION {Shade(t, vs[n], leaves) : t \in T}

\* f[n] holds the states of the marker after the first n values.
IsAfter(f, N, s, vs, leaves) ==
  f = [n \in 0 .. N |-> IF n = 0 THEN {s} ELSE OneMore(f[n - 1], vs, n, leaves)]

\* after[n] does, up to the last.
Unfolds(after, s, vs, leaves) ==
  /\ after[0] = {s}
  /\ \A n \in Nat : n + 1 \in 0 .. Len(vs) => after[n + 1] = OneMore(after[n], vs, n + 1, leaves)
  /\ ShadeAll(s, vs, leaves) = after[Len(vs)]

\* The states after each value of a sequence form a function.
LEMMA ShadeExists ==
  ASSUME NEW s, NEW vs, NEW leaves
  PROVE  \A N \in Nat : \E f : IsAfter(f, N, s, vs, leaves)
<1> DEFINE S == {N \in Nat : \E f : f = [n \in 0 .. N |->
                   IF n = 0 THEN {s} ELSE OneMore(f[n - 1], vs, n, leaves)]}
<1>1. 0 \in S
  <2> DEFINE g == [n \in 0 .. 0 |-> {s}]
  <2>1. g = [n \in 0 .. 0 |-> IF n = 0 THEN {s} ELSE OneMore(g[n - 1], vs, n, leaves)]
    OBVIOUS
  <2> HIDE DEF g
  <2> QED
    BY <2>1
<1>2. \A N \in Nat : N \in S => N + 1 \in S
  <2> SUFFICES ASSUME NEW N \in Nat, N \in S PROVE N + 1 \in S
    OBVIOUS
  <2>1. PICK f : f = [n \in 0 .. N |-> IF n = 0 THEN {s} ELSE OneMore(f[n - 1], vs, n, leaves)]
    OBVIOUS
  <2> DEFINE g == [n \in 0 .. N + 1 |-> IF n = 0 THEN {s} ELSE OneMore(f[n - 1], vs, n, leaves)]
  <2>2. \A n \in 0 .. N : g[n] = f[n]
    <3> SUFFICES ASSUME NEW n \in 0 .. N PROVE g[n] = f[n]
      OBVIOUS
    <3>1. f[n] = IF n = 0 THEN {s} ELSE OneMore(f[n - 1], vs, n, leaves)
      BY <2>1
    <3> QED
      BY <3>1
  <2>3. g = [n \in 0 .. N + 1 |-> IF n = 0 THEN {s} ELSE OneMore(g[n - 1], vs, n, leaves)]
    <3>1. \A n \in 0 .. N + 1 : n # 0 => n - 1 \in 0 .. N
      OBVIOUS
    <3>2. \A n \in 0 .. N + 1 : n # 0 => g[n - 1] = f[n - 1]
      BY <3>1, <2>2
    <3>3. g = [n \in 0 .. N + 1 |-> IF n = 0 THEN {s} ELSE OneMore(f[n - 1], vs, n, leaves)]
      OBVIOUS
    <3> HIDE DEF g
    <3>4. \A n \in 0 .. N + 1 : (IF n = 0 THEN {s} ELSE OneMore(f[n - 1], vs, n, leaves))
                               = (IF n = 0 THEN {s} ELSE OneMore(g[n - 1], vs, n, leaves))
      BY <3>2
    <3> QED
      BY <3>3, <3>4
  <2> HIDE DEF g
  <2> QED
    BY <2>3
<1> HIDE DEF S
<1>3. \A N \in Nat : N \in S
  BY <1>1, <1>2, SetInduction
<1> QED
  BY <1>3 DEF S, IsAfter

\* The states of the marker come value by value.
LEMMA ShadeUnfolds ==
  ASSUME NEW s, NEW vs, Len(vs) \in Nat, NEW leaves
  PROVE  \E after : Unfolds(after, s, vs, leaves)
<1> DEFINE after[n \in 0 .. Len(vs)] == IF n = 0 THEN {s} ELSE OneMore(after[n - 1], vs, n, leaves)
<1>1. after = [n \in 0 .. Len(vs) |-> IF n = 0 THEN {s} ELSE OneMore(after[n - 1], vs, n, leaves)]
  <2>1. \E f : f = [n \in 0 .. Len(vs) |-> IF n = 0 THEN {s} ELSE OneMore(f[n - 1], vs, n, leaves)]
    <3>1. PICK N \in Nat : N = Len(vs)
      OBVIOUS
    <3>2. \E f : IsAfter(f, N, s, vs, leaves)
      BY ShadeExists
    <3> QED
      BY <3>1, <3>2 DEF IsAfter
  <2> QED
    BY <2>1
<1>2. ShadeAll(s, vs, leaves) = after[Len(vs)]
  BY DEF ShadeAll, OneMore
<1> HIDE DEF after
<1>3. \A n \in 0 .. Len(vs) : after[n] = IF n = 0 THEN {s} ELSE OneMore(after[n - 1], vs, n, leaves)
  BY <1>1
<1>4. after[0] = {s}
  BY <1>3
<1>5. ASSUME NEW n \in Nat, n + 1 \in 0 .. Len(vs) PROVE after[n + 1] = OneMore(after[n], vs, n + 1, leaves)
  <2>1. n + 1 # 0 /\ (n + 1) - 1 = n
    OBVIOUS
  <2> QED
    BY <1>3, <1>5, <2>1
<1> QED
  BY <1>2, <1>4, <1>5 DEF Unfolds

\* What a sequence of calls of caml_darken, or the loop over the children of a block, does.
LEMMA ShadeAllIs ==
  ASSUME NEW s \in MarkerT, GrayOf(s), NEW vs, Len(vs) \in Nat, DOMAIN vs = 1 .. Len(vs),
         NEW leaves \in SUBSET {"weak"}, NEW t \in ShadeAll(s, vs, leaves)
  PROVE  /\ t \in MarkerT /\ GrayOf(t) /\ Darker(s.mem, t.mem, Range(vs))
         /\ \A v \in Range(vs) : v \in Major => t.mem[v].color # "white"
<1>0. PICK after : Unfolds(after, s, vs, leaves)
  BY ShadeUnfolds
<1>1. /\ after[0] = {s}
      /\ \A n \in Nat : n + 1 \in 0 .. Len(vs) => after[n + 1] = OneMore(after[n], vs, n + 1, leaves)
      /\ ShadeAll(s, vs, leaves) = after[Len(vs)]
  BY <1>0 DEF Unfolds
<1> DEFINE S == {n \in Nat : n \in 0 .. Len(vs) =>
                  \A u \in after[n] :
                    /\ u \in MarkerT /\ GrayOf(u) /\ Darker(s.mem, u.mem, Range(vs))
                    /\ \A k \in 1 .. n : vs[k] \in Major => u.mem[vs[k]].color # "white"}
<1>2. 0 \in S
  <2>1. s.mem \in [Major -> Block]
    BY DEF MarkerT
  <2>2. Darker(s.mem, s.mem, Range(vs))
    BY <2>1 DEF Darker
  <2> QED
    BY <1>1, <2>2
<1>3. \A n \in Nat : n \in S => n + 1 \in S
  <2> SUFFICES ASSUME NEW n \in Nat, n \in S, n + 1 \in 0 .. Len(vs), NEW u \in after[n + 1]
               PROVE  /\ u \in MarkerT /\ GrayOf(u) /\ Darker(s.mem, u.mem, Range(vs))
                      /\ \A k \in 1 .. n + 1 : vs[k] \in Major => u.mem[vs[k]].color # "white"
    OBVIOUS
  <2>1. PICK w \in after[n] : u \in Shade(w, vs[n + 1], leaves)
    BY <1>1 DEF OneMore
  <2>2. /\ w \in MarkerT /\ GrayOf(w) /\ Darker(s.mem, w.mem, Range(vs))
        /\ \A k \in 1 .. n : vs[k] \in Major => w.mem[vs[k]].color # "white"
    BY <2>1
  <2> HIDE DEF S
  <2>3. /\ u \in MarkerT /\ GrayOf(u) /\ Darker(w.mem, u.mem, {vs[n + 1]})
        /\ vs[n + 1] \in Major => u.mem[vs[n + 1]].color # "white"
    BY <2>1, <2>2, ShadeIs
  <2>4. vs[n + 1] \in Range(vs)
    BY DEF Range
  <2>5. Darker(s.mem, u.mem, Range(vs) \cup {vs[n + 1]})
    BY <2>2, <2>3, DarkerTrans
  <2>6. Range(vs) \cup {vs[n + 1]} = Range(vs)
    BY <2>4
  <2>7. ASSUME NEW k \in 1 .. n + 1, vs[k] \in Major PROVE u.mem[vs[k]].color # "white"
    <3>1. CASE k = n + 1
      BY <2>3, <2>7, <3>1
    <3>2. CASE k \in 1 .. n
      <4>1. w.mem[vs[k]].color # "white"
        BY <2>2, <2>7, <3>2
      <4> QED
        BY <2>3, <2>7, <4>1 DEF Darker
    <3> QED
      BY <3>1, <3>2
  <2> QED
    BY <2>3, <2>5, <2>6, <2>7
<1> HIDE DEF S
<1>4. \A n \in Nat : n \in S
  BY <1>2, <1>3, SetInduction
<1>5. Len(vs) \in Nat /\ Len(vs) \in 0 .. Len(vs)
  OBVIOUS
<1>6. \A u \in after[Len(vs)] :
        /\ u \in MarkerT /\ GrayOf(u) /\ Darker(s.mem, u.mem, Range(vs))
        /\ \A k \in 1 .. Len(vs) : vs[k] \in Major => u.mem[vs[k]].color # "white"
  BY <1>4, <1>5 DEF S
<1> QED
  BY <1>1, <1>6 DEF Range

\* The roots, in some order.
LEMMA SetToSeqIs ==
  ASSUME NEW S, IsFiniteSet(S)
  PROVE  /\ Len(SetToSeq(S)) \in Nat /\ DOMAIN SetToSeq(S) = 1 .. Len(SetToSeq(S))
         /\ Range(SetToSeq(S)) = S
<1> DEFINE n == Cardinality(S)
           f == SetToSeq(S)
<1>1. n \in Nat /\ ExistsBijection(1 .. n, S)
  BY FS_CardinalityType
<1>2. \E g \in [1 .. n -> S] : IsInjective(g)
  BY <1>1 DEF ExistsBijection, Bijection, Injection
<1>3. f \in [1 .. n -> S] /\ IsInjective(f)
  BY <1>2 DEF SetToSeq
<1> HIDE DEF f, n
<1>4. Len(f) = n /\ DOMAIN f = 1 .. n
  BY <1>1, <1>3
<1>5. Range(f) = S
  <2>1. Range(f) \subseteq S
    BY <1>3 DEF Range
  <2>2. f \in Bijection(1 .. n, Range(f))
    BY <1>3 DEF Bijection, Injection, Surjection, Range, IsInjective
  <2>3. Cardinality(Range(f)) = n
    BY <1>1, <2>2, FS_CountingElements DEF ExistsBijection
  <2> QED
    BY <2>1, <2>3, FS_Subset DEF n
<1> QED
  BY <1>1, <1>4, <1>5 DEF f

-----------------------------------------------------------------------------
(* What the invariant gives *)

\* The addresses of the heaps are apart.
LEMMA Places ==
  /\ Major \cap Young = {} /\ None \notin Major /\ None \notin Young
  /\ Value = {None} \cup Major \cup Young
  /\ Major \subseteq Nat /\ Young \subseteq Nat /\ M \in Nat /\ 1 \in Field
  BY GcAssumption DEF Major, Young, None, Value, Field

\* What is kept is in the major heap.
LEMMA KeptMajor == Kept \subseteq Major
  BY MarkedIs DEF Kept

\* The phases of marking.
LEMMA MarkingIs ==
  ASSUME TypeOK
  PROVE  /\ Marking <=> phase \notin {"idle", "sweep"}
         /\ Marking => Kept = Marked(mem)
  BY DEF TypeOK, Marking, Kept

\* Nothing that counts as in use is free.
LEMMA SafeAllocated ==
  ASSUME TypeOK, HeapInv
  PROVE  \A v \in Safe : Allocated(v)
<1>1. CASE Marking
  <2>1. Kept = Marked(mem) /\ phase # "sweep"
    BY <1>1, MarkingIs DEF Marking
  <2>2. ASSUME NEW a \in Major, NEW i \in Field, mem[a].f[i] \in Major
        PROVE  mem[mem[a].f[i]].color # "free"
    <3>1. mem[a].f[i] = None \/ Allocated(mem[a].f[i])
      BY <2>1 DEF HeapInv
    <3> QED
      BY <2>2, <3>1, Places DEF Allocated, TypeOK
  <2>3. \A a \in Marked(mem) : mem[a].color # "free"
    BY <2>2, MarkedAllocated
  <2> QED
    BY <2>1, <2>3, KeptMajor DEF Safe, Allocated
<1>2. CASE ~ Marking
  <2>1. \A a \in Kept : a \in Major /\ mem[a].color # "free"
    BY <1>2, MarkingIs DEF Kept
  <2> QED
    BY <2>1 DEF Safe, Allocated
<1> QED
  BY <1>1, <1>2

\* Black blocks lead to nothing that will be freed.
BlackClosed ==
  \A a \in Major : mem[a].color = "black" /\ mem[a].kind = "plain" =>
    \A i \in Field : SafeOrNone(mem[a].f[i])

\* Nor do young values.
YoungClosed == \A y \in DOMAIN young, i \in Field : SafeOrNone(young[y][i])

\* While the heap is marked, only black blocks have to be looked after: to the
\* children of the others the marker will come.
LEMMA ClosedWhenMarking ==
  ASSUME TypeOK, Marking, RememberInv, BlackClosed, YoungClosed
  PROVE  ClosedInv
<1> SUFFICES ASSUME NEW o \in Safe, Scanned(o), NEW i \in Field PROVE SafeOrNone(Content(o)[i])
  BY DEF ClosedInv
<1>1. CASE o \in DOMAIN young
  <2>1. Content(o) = young[o]
    BY <1>1 DEF Content, TypeOK
  <2> QED
    BY <1>1, <2>1 DEF YoungClosed
<1>2. CASE o \in Major /\ o \notin DOMAIN young
  <2>1. /\ Content(o) = mem[o].f /\ mem[o].kind = "plain" /\ o \in Marked(mem)
        /\ mem[o].f[i] \in Value /\ Kept = Marked(mem)
    BY <1>2, Places, MarkingIs DEF Content, Scanned, Safe, TypeOK, Block
  <2>2. CASE mem[o].color = "black"
    BY <1>2, <2>1, <2>2 DEF BlackClosed
  <2>3. CASE mem[o].color # "black"
    <3>1. CASE mem[o].f[i] \in Major
      <4>1. mem[o].f[i] \in Marked(mem)
        BY <1>2, <2>1, <2>3, <3>1, MarkedIs DEF IsMarking, Scans
      <4> QED
        BY <2>1, <4>1 DEF SafeOrNone, Safe
    <3>2. CASE mem[o].f[i] \in Young
      BY <1>2, <2>1, <3>2 DEF RememberInv, SafeOrNone, Safe
    <3> QED
      BY <2>1, <3>1, <3>2, Places DEF SafeOrNone
  <2> QED
    BY <2>2, <2>3
<1> QED
  BY <1>1, <1>2 DEF Scanned

\* ClosedInv for the young values, the black blocks and the plain ones.
LEMMA ClosedGives ==
  ASSUME TypeOK, ClosedInv
  PROVE  /\ YoungClosed
         /\ Marking => BlackClosed
         /\ \A a \in Kept, i \in Field : mem[a].kind = "plain" => SafeOrNone(mem[a].f[i])
<1>1. ASSUME NEW y \in DOMAIN young, NEW i \in Field PROVE SafeOrNone(young[y][i])
  <2>1. Content(y) = young[y] /\ y \in Safe /\ Scanned(y)
    BY DEF Content, TypeOK, Safe, Scanned
  <2> QED
    BY <2>1 DEF ClosedInv
<1>2. ASSUME NEW a \in Kept, NEW i \in Field, mem[a].kind = "plain" PROVE SafeOrNone(mem[a].f[i])
  <2>1. Content(a) = mem[a].f /\ a \in Safe /\ Scanned(a)
    BY <1>2, KeptMajor, Places DEF Content, Safe, Scanned
  <2> QED
    BY <2>1 DEF ClosedInv
<1>3. ASSUME Marking, NEW a \in Major, mem[a].color = "black" PROVE a \in Kept
  BY <1>3, MarkingIs, MarkedIs DEF IsMarking
<1> QED
  BY <1>1, <1>2, <1>3 DEF YoungClosed, BlackClosed

-----------------------------------------------------------------------------
(* The program between two collections *)

\* A step of the program may write v into a field of a.
MayHold(a, v) ==
  \/ v = None
  \/ /\ Allocated(v)
     /\ mem[a].kind = "plain" \/ (\E k \in DOMAIN weaks : weaks[k] = a /\ Cleaned(k)) => v \in Safe

\* Some white blocks are darkened, which marks more.
Darkened ==
  /\ \A a \in Major :
       /\ mem'[a].kind = mem[a].kind
       /\ \/ mem'[a].color = mem[a].color
          \/ /\ Marking /\ mem[a].color = "white"
             /\ mem'[a].color = "gray" \/ (mem'[a].color = "black" /\ mem[a].kind = "weak")
  /\ Kept \subseteq Kept'
  /\ phase \notin {"idle", "main", "weak1"} => Kept' \subseteq Kept

\* What a step of the program leaves to show when it darkens blocks, writes
\* fields and makes young blocks.
LEMMA WriteStep ==
  ASSUME IInv, TypeOK', GrayInv', RememberInv', YoungClosed', Darkened,
         UNCHANGED <<markhp, phase, sweep_hp, extras>>,
         ~ Marking => gray' = gray /\ pure' = pure,
         DOMAIN young \subseteq DOMAIN young',
         \A r \in Root : SafeOrNone(root[r])',
         \A a \in Major, i \in Field :
            \/ mem'[a].f[i] = mem[a].f[i]
            \/ mem[a].color # "free" /\ MayHold(a, mem'[a].f[i])
  PROVE  IInv'
<1> USE DEF IInv, extras
<1>1. /\ Marking' <=> Marking
      /\ WeakAt' = WeakAt
      /\ \A k : (Cleaned(k)' <=> Cleaned(k)) /\ (Passed(k)' <=> Passed(k))
  BY DEF Marking, WeakAt, Cleaned, Passed
<1>2. /\ Safe \subseteq Safe'
      /\ \A v : SafeOrNone(v) => SafeOrNone(v)'
  BY DEF Darkened, Safe, SafeOrNone
<1>3. /\ \A a \in Major : mem'[a].color = "free" <=> mem[a].color = "free"
      /\ \A v : Allocated(v) => Allocated(v)'
      /\ \A v : IsWeak(v)' <=> IsWeak(v)
  BY DEF Darkened, Allocated, IsWeak
<1>4. FreeInv'
  <2> SUFFICES ASSUME NEW a \in Major, mem'[a].color = "free" PROVE mem'[a] = FreeBlock
    BY DEF FreeInv
  <2>1. mem[a] = FreeBlock
    BY <1>3 DEF FreeInv
  <2>2. mem'[a] \in Block /\ mem'[a].kind = "plain" /\ \A i \in Field : mem'[a].f[i] = None
    BY <2>1 DEF FreeBlock, Darkened, TypeOK
  <2>3. mem'[a].f = [i \in Field |-> None]
    BY <2>2 DEF Block
  <2> QED
    BY <2>2, <2>3 DEF FreeBlock, Block
<1>5. PhaseInv'
  <2>1. ~ Marking => \A a \in Major : mem'[a].color = mem[a].color
    BY DEF Darkened
  <2> QED
    BY <1>1, <2>1 DEF PhaseInv, Marking
<1>6. RootInv'
  BY <1>2 DEF RootInv, Range, GenValue, TypeOK
<1>7. ClosedInv'
  <2>1. CASE Marking
    <3>1. BlackClosed'
      <4> SUFFICES ASSUME NEW a \in Major, mem'[a].color = "black", mem'[a].kind = "plain", NEW i \in Field
                   PROVE  SafeOrNone(mem[a].f[i])'
        BY DEF BlackClosed
      <4>1. mem[a].color = "black" /\ mem[a].kind = "plain"
        BY DEF Darkened
      <4>2. SafeOrNone(mem[a].f[i])
        BY <2>1, <4>1, ClosedGives DEF BlackClosed
      <4>3. SafeOrNone(mem'[a].f[i])
        BY <4>1, <4>2 DEF MayHold, SafeOrNone
      <4> QED
        BY <1>2, <4>3
    <3>2. Marking'
      BY <1>1, <2>1
    <3> QED
      BY <3>1, <3>2, ClosedWhenMarking, PTL
  <2>2. CASE ~ Marking
    <3>1. \A a \in Major : mem'[a].color = mem[a].color
      BY <2>2 DEF Darkened
    <3>2. Kept' = Kept
      BY <2>2, <3>1, MarkingIs DEF Kept
    <3> SUFFICES ASSUME NEW o \in Safe', Scanned(o)', NEW i \in Field PROVE SafeOrNone(Content(o)[i])'
      BY DEF ClosedInv
    <3>3. CASE o \in DOMAIN young'
      <4>1. Content(o)' = young'[o]
        BY <3>3 DEF Content, TypeOK
      <4> QED
        BY <3>3, <4>1 DEF YoungClosed
    <3>4. CASE o \notin DOMAIN young'
      <4>1. o \in Kept /\ o \in Major
        BY <3>2, <3>4, KeptMajor DEF Safe
      <4>2. Content(o)' = mem'[o].f /\ mem[o].kind = "plain"
        BY <3>4, <4>1, Places DEF Content, Scanned, Darkened
      <4>3. SafeOrNone(mem[o].f[i])
        BY <4>1, <4>2, ClosedGives
      <4>4. SafeOrNone(mem'[o].f[i])
        BY <4>1, <4>2, <4>3 DEF MayHold, SafeOrNone
      <4> QED
        BY <1>2, <4>2, <4>4
    <3> QED
      BY <3>3, <3>4
  <2> QED
    BY <2>1, <2>2
<1>8. HeapInv'
  <2> SUFFICES ASSUME phase # "sweep", NEW a \in Major, NEW i \in Field
               PROVE  mem'[a].f[i] = None \/ Allocated(mem[a].f[i])'
    BY DEF HeapInv
  <2>1. mem'[a].f[i] = None \/ Allocated(mem'[a].f[i])
    BY DEF HeapInv, MayHold
  <2> QED
    BY <1>3, <2>1
<1>9. OldInv'
  BY <1>2, <1>3 DEF OldInv
<1>10. GenInv'
  BY DEF GenInv
<1>11. WeakInv'
  <2>1. ASSUME NEW a \in Major, IsWeak(a)', phase' \in {"idle", "main", "weak1"} \/ a \in Safe'
        PROVE  a \in Range(weaks')
    <3>1. IsWeak(a)
      BY <1>3, <2>1
    <3>2. phase \in {"idle", "main", "weak1"} \/ a \in Safe
      BY <2>1, Places DEF Darkened, Safe, TypeOK
    <3> QED
      BY <3>1, <3>2 DEF WeakInv
  <2>2. ASSUME NEW k \in DOMAIN weaks, NEW i \in Field, Cleaned(k) PROVE SafeOrNone(mem[weaks[k]].f[i])'
    <3>1. SafeOrNone(mem[weaks[k]].f[i]) /\ weaks[k] \in Major
      BY <2>2 DEF WeakInv, TypeOK
    <3>2. SafeOrNone(mem'[weaks[k]].f[i])
      BY <2>2, <3>1 DEF MayHold, SafeOrNone
    <3> QED
      BY <1>2, <3>2
  <2>3. \A k \in DOMAIN weaks : Passed(k) => weaks[k] \in Safe'
    BY <1>2 DEF WeakInv
  <2>4. IsInjective(weaks') /\ (\A k \in DOMAIN weaks' : IsWeak(weaks[k])')
        /\ (phase' \in {"weak1", "weak2"} => weak_prev' = None \/ weak_prev' \in Range(weaks'))
    BY <1>3 DEF WeakInv
  <2> QED
    BY <1>1, <2>1, <2>2, <2>3, <2>4 DEF WeakInv
<1>12. UsesInv'
  BY DEF UsesInv, Darkened
<1> QED
  BY <1>4, <1>5, <1>6, <1>7, <1>8, <1>9, <1>10, <1>11, <1>12

\* What a step of the program can take from a root.
LEMMA RootsAreSafe ==
  ASSUME IInv
  PROVE  /\ \A r \in Root : root[r] \in Value /\ SafeOrNone(root[r])
         /\ \A v \in Operand : v \in Value /\ SafeOrNone(v)
         /\ gen.val \in Value /\ (gen.reg => SafeOrNone(gen.val))
         /\ \A v \in final.todo : v \in Value /\ SafeOrNone(v)
<1>1. \A r \in Root : root[r] \in Value /\ SafeOrNone(root[r])
  BY DEF IInv, TypeOK, RootInv, Range
<1>2. gen.val \in Value /\ (gen.reg => SafeOrNone(gen.val))
  BY DEF IInv, TypeOK, RootInv, GenValue
<1>3. \A v \in final.todo : v \in Value /\ SafeOrNone(v)
  BY DEF IInv, TypeOK, RootInv
<1>4. SafeOrNone(None) /\ None \in Value
  BY Places DEF SafeOrNone
<1> QED
  BY <1>1, <1>2, <1>3, <1>4 DEF Operand, Range, IInv, TypeOK

\* What a value holds, if it can be looked into.
LEMMA ContentIsSafe ==
  ASSUME IInv, NEW o \in Value, SafeOrNone(o), Scanned(o)
  PROVE  /\ o \in Safe /\ Content(o) \in [Field -> Value]
         /\ \A i \in Field : SafeOrNone(Content(o)[i])
<1>1. o \in Safe
  BY Places DEF SafeOrNone, Scanned, IInv, TypeOK
<1>2. Content(o) \in [Field -> Value]
  BY Places DEF Content, Scanned, IInv, TypeOK, Block
<1> QED
  BY <1>1, <1>2 DEF IInv, ClosedInv

\* A step that leaves the heap and the marker alone.
LEMMA MoveStep ==
  ASSUME IInv, UNCHANGED <<heap, marker, weaks, weak_prev, uses>>,
         final'.old = final.old, final'.todo \subseteq final.todo,
         TypeOK', RootInv', GenInv', UsesInv'
  PROVE  IInv'
<1> USE DEF IInv, heap, marker
<1>1. Safe' = Safe /\ Marking' = Marking
  BY DEF Safe, Kept, Marking
<1>2. FreeInv' /\ GrayInv' /\ PhaseInv'
  BY DEF FreeInv, GrayInv, GrayIsFound, PhaseInv, Marking
<1>3. ClosedInv'
  BY <1>1 DEF ClosedInv, Scanned, Content, SafeOrNone
<1>4. HeapInv' /\ OldInv'
  BY <1>1 DEF HeapInv, OldInv, Allocated
<1>5. RememberInv'
  BY DEF RememberInv
<1>6. WeakInv'
  BY <1>1 DEF WeakInv, IsWeak, Cleaned, Passed, WeakAt, SafeOrNone
<1> QED
  BY <1>2, <1>3, <1>4, <1>5, <1>6

\* MoveStep for the steps that only move values to and from roots.
LEMMA RootStep ==
  ASSUME IInv, UNCHANGED <<heap, marker, extras>>, NEW r \in Root, NEW v \in Value, SafeOrNone(v),
         root' = [root EXCEPT ![r] = v]
  PROVE  IInv'
<1> USE DEF IInv, heap, marker, extras
<1>1. TypeOK'
  BY DEF TypeOK
<1>2. Safe' = Safe
  BY DEF Safe, Kept
<1>3. \A s \in Root : SafeOrNone(root'[s])
  BY RootsAreSafe DEF TypeOK
<1>4. RootInv'
  BY <1>2, <1>3 DEF RootInv, SafeOrNone, GenValue, Range, TypeOK
<1>5. GenInv' /\ UsesInv'
  BY DEF GenInv, UsesInv
<1> QED
  BY <1>1, <1>4, <1>5, MoveStep

\* Drop, loads and reading a generational root.
LEMMA RootSteps ==
  ASSUME IInv, NEW r \in Root,
         Drop(r) \/ GenLoad(r) \/ \E s \in Root, i \in Field : Load(r, s, i)
  PROVE  IInv'
<1>1. CASE Drop(r)
  <2>1. None \in Value /\ SafeOrNone(None)
    BY Places DEF SafeOrNone
  <2> QED
    BY <1>1, <2>1, RootStep DEF Drop
<1>2. CASE GenLoad(r)
  BY <1>2, RootsAreSafe, RootStep DEF GenLoad
<1>3. ASSUME NEW s \in Root, NEW i \in Field, Load(r, s, i) PROVE IInv'
  <2>1. Content(root[s])[i] \in Value /\ SafeOrNone(Content(root[s])[i])
    BY <1>3, RootsAreSafe, ContentIsSafe DEF Load
  <2> QED
    BY <1>3, <2>1, RootStep DEF Load
<1> QED
  BY <1>1, <1>2, <1>3

\* Gc.finalise, and the call of a finaliser.
LEMMA FinalSteps ==
  ASSUME IInv, NEW r \in Root, FinalRegister(r) \/ FinalCall(r)
  PROVE  IInv'
<1> USE DEF IInv, heap, marker
<1>1. CASE FinalRegister(r)
  <2>1. UNCHANGED <<heap, root, marker, weaks, weak_prev, gen, uses>> /\ "final" \in uses
        /\ final' = [final EXCEPT !.recent = @ \cup {root[r]}] /\ root[r] # None
    BY <1>1 DEF FinalRegister
  <2>2. TypeOK' /\ final'.old = final.old /\ final'.todo = final.todo
        /\ final'.recent = final.recent \cup {root[r]}
    BY <2>1, RootsAreSafe DEF TypeOK
  <2>3. Safe' = Safe
    BY <2>1 DEF Safe, Kept
  <2>4. RootInv'
    BY <2>1, <2>2, <2>3, RootsAreSafe DEF RootInv, SafeOrNone, GenValue
  <2>5. GenInv' /\ UsesInv'
    BY <2>1 DEF GenInv, UsesInv
  <2> QED
    BY <2>1, <2>2, <2>4, <2>5, MoveStep
<1>2. CASE FinalCall(r)
  <2>1. PICK v \in final.todo : /\ final' = [final EXCEPT !.todo = @ \ {v}]
                                /\ root' = [root EXCEPT ![r] = v]
    BY <1>2 DEF FinalCall
  <2>2. UNCHANGED <<heap, marker, weaks, weak_prev, gen, uses>>
    BY <1>2 DEF FinalCall
  <2>3. TypeOK' /\ final'.old = final.old /\ final'.todo \subseteq final.todo
        /\ final'.recent = final.recent
    BY <2>1, <2>2, RootsAreSafe DEF TypeOK
  <2>4. Safe' = Safe
    BY <2>2 DEF Safe, Kept
  <2>5. \A s \in Root : SafeOrNone(root'[s])
    BY <2>1, RootsAreSafe DEF TypeOK
  <2>6. RootInv'
    BY <2>2, <2>3, <2>4, <2>5 DEF RootInv, SafeOrNone, GenValue, Range, TypeOK
  <2>7. GenInv' /\ UsesInv'
    BY <2>1, <2>2 DEF GenInv, UsesInv
  <2> QED
    BY <2>2, <2>3, <2>6, <2>7, MoveStep
<1> QED
  BY <1>1, <1>2

\* Registering, removing and modifying a generational root.
LEMMA GenSteps ==
  ASSUME IInv, GenRemove \/ \E v \in Operand : GenRegister(v) \/ GenModify(v)
  PROVE  IInv'
<1> USE DEF IInv, heap, marker
<1>1. UNCHANGED <<heap, root, marker, weaks, weak_prev, final, uses>>
  BY DEF GenRemove, GenRegister, GenModify
<1>2. /\ gen' \in [val : Value, reg : BOOLEAN, young : BOOLEAN, old : BOOLEAN]
      /\ gen'.reg => SafeOrNone(gen'.val)
      /\ gen'.reg => /\ gen'.val \in Young => gen'.young
                     /\ gen'.val \in Major => gen'.young \/ gen'.old
  <2>1. CASE GenRemove
    BY <2>1, Places DEF GenRemove, TypeOK
  <2>2. ASSUME NEW v \in Operand, GenRegister(v) PROVE <1>2!1 /\ <1>2!2 /\ <1>2!3
    BY <2>2, RootsAreSafe DEF GenRegister, TypeOK
  <2>3. ASSUME NEW v \in Operand, GenModify(v) PROVE <1>2!1 /\ <1>2!2 /\ <1>2!3
    <3>1. v \in Value /\ SafeOrNone(v) /\ gen.reg
      BY <2>3, RootsAreSafe DEF GenModify
    <3>2. /\ gen \in [val : Value, reg : BOOLEAN, young : BOOLEAN, old : BOOLEAN]
          /\ gen.val \in Young => gen.young
          /\ gen.val \in Major => gen.young \/ gen.old
      BY <3>1 DEF GenInv, TypeOK
    <3> QED
      BY <2>3, <3>1, <3>2, Places DEF GenModify
  <2> QED
    BY <2>1, <2>2, <2>3
<1>3. TypeOK'
  BY <1>1, <1>2 DEF TypeOK
<1>4. Safe' = Safe
  BY <1>1 DEF Safe, Kept
<1>5. RootInv'
  BY <1>1, <1>2, <1>4 DEF RootInv, SafeOrNone, GenValue
<1>6. GenInv' /\ UsesInv'
  BY <1>1, <1>2 DEF GenInv, UsesInv
<1> QED
  BY <1>1, <1>3, <1>5, <1>6, MoveStep

\* Writing one field.
LEMMA WithFieldIs ==
  ASSUME NEW m \in [Major -> Block], NEW o \in Major, NEW i \in Field, NEW v \in Value
  PROVE  /\ WithField(m, o, i, v) \in [Major -> Block]
         /\ \A a \in Major : /\ WithField(m, o, i, v)[a].color = m[a].color
                             /\ WithField(m, o, i, v)[a].kind = m[a].kind
         /\ WithField(m, o, i, v)[o].f[i] = v
         /\ \A a \in Major, j \in Field : a # o \/ j # i => WithField(m, o, i, v)[a].f[j] = m[a].f[j]
<1> DEFINE f == [m[o].f EXCEPT ![i] = v]
           b == [m[o] EXCEPT !.f = f]
<1>3. WithField(m, o, i, v) = [m EXCEPT ![o] = b]
  BY DEF WithField
<1>1. /\ m[o].f \in [Field -> Value] /\ f \in [Field -> Value] /\ f[i] = v
      /\ \A j \in Field : j # i => f[j] = m[o].f[j]
  BY DEF Block
<1> HIDE DEF f
<1>2. b \in Block /\ b.color = m[o].color /\ b.kind = m[o].kind /\ b.f = f
  BY <1>1 DEF Block
<1> HIDE DEF b
<1> QED
  BY <1>1, <1>2, <1>3

\* What weak arrays hold does not matter to the marker.
LEMMA WeakDoesNotMark ==
  ASSUME NEW m, NEW n,
         \A a \in Major : n[a].color = m[a].color /\ n[a].kind = m[a].kind,
         \A a \in Major, i \in Field : m[a].kind = "plain" => n[a].f[i] = m[a].f[i]
  PROVE  Marked(n) = Marked(m)
<1>1. \A C \in SUBSET Major : IsMarking(n, C) <=> IsMarking(m, C)
  BY DEF IsMarking, Scans
<1> QED
  BY <1>1 DEF Marked

\* t is a state of the marker after the values V were darkened if the phase asks for it.
Barriered(t, V) ==
  \/ /\ Marking /\ t \in MarkerT /\ GrayOf(t) /\ Darker(mem, t.mem, V)
     /\ \A v \in V : v \in Major => t.mem[v].color # "white"
  \/ ~ Marking /\ t = Marker

\* The state of the marker has its type.
LEMMA MarkerIs ==
  ASSUME IInv
  PROVE  Marker \in MarkerT /\ GrayOf(Marker)
  BY GrayIs DEF IInv, TypeOK, Marker, MarkerT

\* The barrier of caml_modify and Weak.get.
LEMMA BarrierIs ==
  ASSUME IInv, NEW v, NEW t \in Barrier(v)
  PROVE  Barriered(t, {v})
<1>1. CASE Marking
  <2>1. t \in Shade(Marker, v, {"weak"})
    BY <1>1 DEF Barrier, Darken
  <2>2. /\ t \in MarkerT /\ GrayOf(t) /\ Darker(Marker.mem, t.mem, {v})
        /\ v \in Major => t.mem[v].color # "white"
    BY <2>1, MarkerIs, ShadeIs
  <2> QED
    BY <1>1, <2>2 DEF Barriered, Marker
<1>2. CASE ~ Marking
  BY <1>2 DEF Barrier, Barriered
<1> QED
  BY <1>1, <1>2

\* The barrier of Weak.get_copy, which darkens all the fields it copies.
LEMMA BarrierOfAll ==
  ASSUME IInv, NEW vs \in [Field -> Value],
         NEW t \in IF Marking THEN DarkenAll(Marker, vs) ELSE {Marker}
  PROVE  Barriered(t, Range(vs))
<1>1. CASE Marking
  <2>1. t \in ShadeAll(Marker, vs, {"weak"})
    BY <1>1 DEF DarkenAll
  <2>2. Len(vs) \in Nat /\ DOMAIN vs = 1 .. Len(vs)
    BY GcAssumption DEF Field
  <2>3. /\ t \in MarkerT /\ GrayOf(t) /\ Darker(Marker.mem, t.mem, Range(vs))
        /\ \A v \in Range(vs) : v \in Major => t.mem[v].color # "white"
    BY <2>1, <2>2, MarkerIs, ShadeAllIs
  <2> QED
    BY <1>1, <2>3 DEF Barriered, Marker
<1>2. CASE ~ Marking
  BY <1>2 DEF Barriered
<1> QED
  BY <1>1, <1>2

\* What the barrier does to the heap and the stack.
LEMMA BarrieredIs ==
  ASSUME IInv, NEW V, NEW t, Barriered(t, V)
  PROVE  /\ t.mem \in [Major -> Block] /\ t.gray \in Seq(Major) /\ t.pure \in BOOLEAN
         /\ \A a \in Major :
              /\ t.mem[a].kind = mem[a].kind /\ t.mem[a].f = mem[a].f
              /\ \/ t.mem[a].color = mem[a].color
                 \/ /\ Marking /\ mem[a].color = "white"
                    /\ t.mem[a].color = "gray" \/ (t.mem[a].color = "black" /\ mem[a].kind = "weak")
         /\ GrayOf(t)
         /\ ~ Marking => t.mem = mem /\ t.gray = gray /\ t.pure = pure
         /\ Marking => /\ Marked(mem) \subseteq Marked(t.mem)
                       /\ V \cap Major \subseteq Kept => Marked(t.mem) \subseteq Marked(mem)
                       /\ \A v \in V \cap Major : mem[v].color # "free" =>
                            v \in Marked(t.mem) /\ t.mem[v].color \in {"gray", "black"}
<1>1. CASE Marking
  <2>1. /\ t \in MarkerT /\ GrayOf(t) /\ Darker(mem, t.mem, V)
        /\ \A v \in V : v \in Major => t.mem[v].color # "white"
    BY <1>1 DEF Barriered
  <2>2. Kept = Marked(mem)
    BY <1>1, MarkingIs DEF IInv
  <2>3. ASSUME NEW v \in V \cap Major, mem[v].color # "free"
        PROVE  v \in Marked(t.mem) /\ t.mem[v].color \in {"gray", "black"}
    <3>1. t.mem[v].color \in {"gray", "black"}
      BY <2>1, <2>3 DEF Darker, Block
    <3> QED
      BY <3>1, MarkedIs DEF IsMarking
  <2>4. Marked(mem) \subseteq Marked(t.mem)
    BY <2>1, DarkerKeeps
  <2>5. V \cap Major \subseteq Kept => Marked(t.mem) \subseteq Marked(mem)
    BY <2>1, <2>2, DarkerAdds
  <2>6. t.mem \in [Major -> Block] /\ t.gray \in Seq(Major) /\ t.pure \in BOOLEAN
    BY <2>1 DEF MarkerT
  <2> QED
    BY <1>1, <2>1, <2>3, <2>4, <2>5, <2>6 DEF Darker
<1>2. CASE ~ Marking
  BY <1>2, MarkerIs DEF Barriered, IInv, TypeOK, Marker
<1> QED
  BY <1>1, <1>2

\* The least free place of the minor heap.
LEMMA NewYoung ==
  ASSUME TypeOK, Young \ DOMAIN young # {}
  PROVE  Min(Young \ DOMAIN young) \in Young \ DOMAIN young
<1>1. Young \ DOMAIN young \in SUBSET Nat
  BY Places
<1>2. \E m \in Young \ DOMAIN young : \A k \in Young \ DOMAIN young : m <= k
  BY <1>1, LeastNumber
<1> QED
  BY <1>2 DEF Min

\* A new block of the minor heap.
LEMMA AllocSmallStep ==
  ASSUME IInv, NEW r \in Root, AllocSmall(r)
  PROVE  IInv'
<1> DEFINE y == Min(Young \ DOMAIN young)
<1>1. /\ young' = [o \in DOMAIN young \cup {y} |-> IF o = y THEN [i \in Field |-> None] ELSE young[o]]
      /\ root' = [root EXCEPT ![r] = y]
      /\ UNCHANGED <<mem, ref_table, weak_ref_table, marker, extras>>
  BY DEF AllocSmall
<1>2. y \in Young \ DOMAIN young
  BY NewYoung DEF AllocSmall, IInv
<1> HIDE DEF y
<1>3. /\ DOMAIN young' = DOMAIN young \cup {y}
      /\ \A o \in DOMAIN young, i \in Field : young'[o][i] = young[o][i]
      /\ \A i \in Field : young'[y][i] = None
  BY <1>1, <1>2
<1>4. TypeOK'
  <2>1. young' \in [DOMAIN young' -> [Field -> Value]]
    BY <1>1, <1>2, <1>3, Places DEF IInv, TypeOK
  <2> QED
    BY <1>1, <1>2, <1>3, <2>1, Places DEF IInv, TypeOK, marker, extras
<1>5. Kept' = Kept /\ Safe \subseteq Safe' /\ y \in Safe'
  BY <1>1, <1>3 DEF Kept, Safe, marker
<1>6. \A s \in Root : SafeOrNone(root[s])'
  BY <1>1, <1>5, RootsAreSafe DEF SafeOrNone, IInv, TypeOK
<1>7. YoungClosed'
  BY <1>3, <1>5, ClosedGives DEF YoungClosed, SafeOrNone, IInv
<1>8. GrayInv' /\ RememberInv'
  BY <1>1, <1>3 DEF IInv, GrayInv, GrayIsFound, RememberInv, marker
<1>9. Darkened
  BY <1>1, <1>5 DEF Darkened, IInv, TypeOK
<1> QED
  BY <1>1, <1>3, <1>4, <1>6, <1>7, <1>8, <1>9, WriteStep DEF marker

\* caml_modify of a block of the major heap.
LEMMA ModifyMajor ==
  ASSUME IInv, NEW o \in Kept, mem[o].kind = "plain", NEW i \in Field, NEW v \in Value, SafeOrNone(v),
         o \notin Young, Modify(o, i, v), UNCHANGED <<root, extras>>
  PROVE  IInv'
<1> DEFINE old == mem[o].f[i]
<1>0. o \in Major /\ old \in Value /\ SafeOrNone(old) /\ Allocated(o) /\ mem[o].color # "free"
  <2>1. o \in Major /\ SafeOrNone(old)
    BY KeptMajor, ClosedGives DEF IInv
  <2>2. Allocated(o)
    BY SafeAllocated DEF IInv, Safe
  <2> QED
    BY <2>1, <2>2, Places DEF IInv, TypeOK, Block, Allocated
<1>1. /\ \E s \in Barrier(old) : Becomes([s EXCEPT !.mem = WithField(@, o, i, v)])
      /\ ref_table' = Remember(ref_table, <<o, i>>, old, v)
      /\ UNCHANGED <<young, weak_ref_table, markhp, phase, sweep_hp, run>>
  BY DEF Modify
<1>2. PICK t \in Barrier(old) : Becomes([t EXCEPT !.mem = WithField(@, o, i, v)])
  BY <1>1
<1>3. Barriered(t, {old})
  BY <1>2, BarrierIs
<1> HIDE DEF old
<1>4. /\ t.mem \in [Major -> Block] /\ t.gray \in Seq(Major) /\ t.pure \in BOOLEAN
      /\ \A a \in Major :
           /\ t.mem[a].kind = mem[a].kind /\ t.mem[a].f = mem[a].f
           /\ \/ t.mem[a].color = mem[a].color
              \/ /\ Marking /\ mem[a].color = "white"
                 /\ t.mem[a].color = "gray" \/ (t.mem[a].color = "black" /\ mem[a].kind = "weak")
      /\ GrayOf(t)
      /\ ~ Marking => t.mem = mem /\ t.gray = gray /\ t.pure = pure
      /\ Marking => /\ Marked(mem) \subseteq Marked(t.mem)
                    /\ {old} \cap Major \subseteq Kept => Marked(t.mem) \subseteq Marked(mem)
                    /\ \A u \in {old} \cap Major : mem[u].color # "free" =>
                         u \in Marked(t.mem) /\ t.mem[u].color \in {"gray", "black"}
  BY <1>3, BarrieredIs
<1>5. mem' = WithField(t.mem, o, i, v) /\ gray' = t.gray /\ pure' = t.pure
  <2>1. t \in MarkerT
    BY <1>3, MarkerIs DEF Barriered
  <2> QED
    BY <1>2, <2>1 DEF Becomes, MarkerT
<1>6. /\ mem' \in [Major -> Block]
      /\ \A a \in Major : mem'[a].color = t.mem[a].color /\ mem'[a].kind = mem[a].kind
      /\ mem'[o].f[i] = v
      /\ \A a \in Major, j \in Field : a # o \/ j # i => mem'[a].f[j] = mem[a].f[j]
  <2>0. PICK m \in [Major -> Block] : m = t.mem
    BY <1>4
  <2> DEFINE n == WithField(m, o, i, v)
  <2>1. /\ n \in [Major -> Block]
        /\ \A a \in Major : n[a].color = m[a].color /\ n[a].kind = m[a].kind
        /\ n[o].f[i] = v
        /\ \A a \in Major, j \in Field : a # o \/ j # i => n[a].f[j] = m[a].f[j]
    BY <1>0, WithFieldIs
  <2> HIDE DEF n
  <2>2. mem' = n
    BY <1>5, <2>0 DEF n
  <2> QED
    BY <1>4, <2>0, <2>1, <2>2
<1>7. TypeOK'
  BY <1>0, <1>1, <1>4, <1>5, <1>6 DEF IInv, TypeOK, extras, Remember
<1>8. Kept' = Kept
  <2>1. CASE Marking
    <3> DEFINE C == Marked(mem)
               D == Marked(mem')
    <3>0. /\ Kept = C /\ Kept' = D /\ C \subseteq Major /\ D \subseteq Major
          /\ IsMarking(mem, C) /\ IsMarking(mem', D)
      BY <1>1, <2>1, MarkingIs, MarkedIs DEF IInv, Kept, TypeOK, Marking
    <3> HIDE DEF C, D
    <3>1. old \in Major => old \in C /\ mem[old].color # "free"
      <4>1. ASSUME old \in Major PROVE old \in Kept
        BY <1>0, <4>1, Places DEF SafeOrNone, Safe, IInv, TypeOK
      <4>2. ASSUME old \in Major PROVE Allocated(old)
        BY <4>1, <4>2, SafeAllocated DEF IInv, Safe
      <4> QED
        BY <3>0, <4>1, <4>2, Places DEF Allocated, IInv, TypeOK
    <3>2. v \in Major => v \in C
      BY <3>0, Places DEF SafeOrNone, Safe, IInv, TypeOK
    <3>3. IsMarking(mem', C)
      <4>1. ASSUME NEW a \in Major, mem'[a].color \in {"gray", "black"} PROVE a \in C
        <5>1. CASE mem'[a].color = mem[a].color
          BY <3>0, <4>1, <5>1 DEF IsMarking
        <5>2. CASE mem'[a].color # mem[a].color
          <6>1. a = old
            BY <1>3, <1>6, <5>2, <2>1 DEF Barriered, Darker
          <6> QED
            BY <3>1, <6>1
        <5> QED
          BY <5>1, <5>2
      <4>2. ASSUME NEW a \in Major, a \in C, Scans(mem'[a]), NEW j \in Field, mem'[a].f[j] \in Major
            PROVE  mem'[a].f[j] \in C
        <5>1. Scans(mem[a])
          BY <1>4, <1>6, <4>2 DEF Scans
        <5>2. CASE a = o /\ j = i
          BY <1>6, <3>2, <4>2, <5>2
        <5>3. CASE a # o \/ j # i
          BY <1>6, <3>0, <4>2, <5>1, <5>3 DEF IsMarking
        <5> QED
          BY <5>2, <5>3
      <4> QED
        BY <4>1, <4>2 DEF IsMarking
    <3>4. IsMarking(mem, D)
      <4>1. ASSUME NEW a \in Major, mem[a].color \in {"gray", "black"} PROVE a \in D
        <5>1. mem'[a].color = mem[a].color
          BY <1>4, <1>6, <4>1
        <5> QED
          BY <3>0, <4>1, <5>1 DEF IsMarking
      <4>2. ASSUME NEW a \in Major, a \in D, Scans(mem[a]), NEW j \in Field, mem[a].f[j] \in Major
            PROVE  mem[a].f[j] \in D
        <5>1. Scans(mem'[a])
          BY <1>4, <1>6, <4>2 DEF Scans
        <5>2. CASE a = o /\ j = i
          <6>1. mem[a].f[j] = old
            BY <5>2 DEF old
          <6>2. mem'[old].color \in {"gray", "black"}
            BY <1>4, <1>6, <2>1, <3>1, <4>2, <6>1
          <6> QED
            BY <3>0, <4>2, <6>1, <6>2 DEF IsMarking
        <5>3. CASE a # o \/ j # i
          BY <1>6, <3>0, <4>2, <5>1, <5>3 DEF IsMarking
        <5> QED
          BY <5>2, <5>3
      <4> QED
        BY <4>1, <4>2 DEF IsMarking
    <3>5. D \subseteq C /\ C \subseteq D
      BY <3>0, <3>3, <3>4, MarkedLeast DEF C, D
    <3> QED
      BY <3>0, <3>5
  <2>2. CASE ~ Marking
    <3>1. phase \in {"idle", "sweep"}
      BY <2>2, MarkingIs DEF IInv
    <3>2. \A a \in Major : mem'[a].color = mem[a].color
      BY <1>4, <1>6, <2>2
    <3> QED
      BY <1>1, <3>1, <3>2 DEF Kept
  <2> QED
    BY <2>1, <2>2
<1>9. Safe' = Safe
  BY <1>1, <1>8 DEF Safe
<1>10. YoungClosed' /\ \A s \in Root : SafeOrNone(root[s])'
  BY <1>1, <1>9, RootsAreSafe, ClosedGives DEF YoungClosed, SafeOrNone, IInv
<1>11. GrayInv'
  BY <1>1, <1>4, <1>5, <1>6 DEF GrayOf, GrayInv, GrayIsFound, IsInjective, Range
<1>12. RememberInv'
  <2>1. v \in Young => v \in DOMAIN young
    BY KeptMajor, Places DEF SafeOrNone, Safe
  <2>2. \A l \in ref_table' : l = <<o, i>> \/ l \in ref_table
    BY <1>1 DEF Remember
  <2>3. ref_table \subseteq ref_table' /\ (v \in Young => old \in Young \/ <<o, i>> \in ref_table')
    BY <1>1 DEF Remember
  <2>4. ASSUME NEW l \in ref_table' PROVE mem'[l[1]].color # "free" /\ mem'[l[1]].kind = "plain"
    <3>1. CASE l = <<o, i>>
      BY <1>0, <1>4, <1>6, <3>1
    <3>2. CASE l \in ref_table
      <4>1. l[1] \in Major /\ mem[l[1]].color # "free" /\ mem[l[1]].kind = "plain"
        BY <3>2 DEF IInv, RememberInv, TypeOK
      <4> QED
        BY <1>4, <1>6, <4>1
    <3> QED
      BY <2>2, <3>1, <3>2
  <2>5. ASSUME NEW l \in weak_ref_table' PROVE mem'[l[1]].color # "free" /\ mem'[l[1]].kind = "weak"
    <3>1. l[1] \in Major /\ mem[l[1]].color # "free" /\ mem[l[1]].kind = "weak"
      BY <1>1, <2>5 DEF IInv, RememberInv, TypeOK
    <3> QED
      BY <1>4, <1>6, <3>1
  <2>6. ASSUME NEW a \in Major, NEW j \in Field, mem'[a].f[j] \in Young
        PROVE  /\ mem'[a].f[j] \in DOMAIN young'
               /\ <<a, j>> \in IF mem'[a].kind = "plain" THEN ref_table' ELSE weak_ref_table'
    <3>1. CASE a = o /\ j = i
      <4>1. old \in Young => <<o, i>> \in ref_table
        BY <1>0 DEF IInv, RememberInv, old
      <4> QED
        BY <1>1, <1>6, <2>1, <2>3, <2>6, <3>1, <4>1
    <3>2. CASE a # o \/ j # i
      BY <1>1, <1>6, <2>3, <2>6, <3>2 DEF IInv, RememberInv
    <3> QED
      BY <3>1, <3>2
  <2>7. DOMAIN young' = {} => ref_table' = {} /\ weak_ref_table' = {}
    BY <1>1, <2>1 DEF IInv, RememberInv, Remember
  <2> QED
    BY <2>4, <2>5, <2>6, <2>7 DEF RememberInv
<1>13. Darkened
  BY <1>4, <1>6, <1>8 DEF Darkened
<1>14. \A a \in Major, j \in Field :
         \/ mem'[a].f[j] = mem[a].f[j]
         \/ mem[a].color # "free" /\ MayHold(a, mem'[a].f[j])
  <2>1. MayHold(o, v)
    BY SafeAllocated DEF MayHold, SafeOrNone, IInv
  <2> QED
    BY <1>0, <1>6, <2>1
<1> QED
  BY <1>1, <1>4, <1>5, <1>7, <1>10, <1>11, <1>12, <1>13, <1>14, WriteStep DEF extras

\* caml_modify, into either heap.
LEMMA StoreStep ==
  ASSUME IInv, NEW s \in Root, NEW i \in Field, NEW v \in Operand, Store(s, i, v)
  PROVE  IInv'
<1> DEFINE o == root[s]
<1>0. /\ Scanned(o) /\ Modify(o, i, v) /\ UNCHANGED <<root, extras>>
      /\ o \in Value /\ SafeOrNone(o) /\ v \in Value /\ SafeOrNone(v)
  BY RootsAreSafe DEF Store
<1> HIDE DEF o
<1>1. CASE o \in Young
  <2>1. o \in DOMAIN young
    BY <1>0, <1>1, Places DEF Scanned
  <2>2. young' = [young EXCEPT ![o][i] = v] /\ UNCHANGED <<mem, ref_table, weak_ref_table, marker>>
    BY <1>0, <1>1 DEF Modify
  <2>3. /\ young[o] \in [Field -> Value] /\ DOMAIN young' = DOMAIN young
        /\ \A q \in DOMAIN young : young'[q] \in [Field -> Value]
        /\ \A q \in DOMAIN young, j \in Field : young'[q][j] = young[q][j] \/ young'[q][j] = v
    BY <1>0, <2>1, <2>2 DEF IInv, TypeOK
  <2>4. young' \in [DOMAIN young' -> [Field -> Value]]
    BY <2>2, <2>3
  <2>5. TypeOK'
    BY <1>0, <2>2, <2>3, <2>4 DEF IInv, TypeOK, marker, extras
  <2>6. Kept' = Kept /\ Safe' = Safe
    BY <2>2, <2>3 DEF Kept, Safe, marker
  <2>7. YoungClosed' /\ \A r \in Root : SafeOrNone(root[r])'
    BY <1>0, <2>3, <2>6, RootsAreSafe, ClosedGives DEF YoungClosed, SafeOrNone, IInv
  <2>8. GrayInv' /\ RememberInv'
    BY <2>2, <2>3 DEF IInv, GrayInv, GrayIsFound, RememberInv, marker
  <2>9. Darkened
    BY <2>2, <2>6 DEF Darkened, IInv, TypeOK
  <2> QED
    BY <1>0, <2>2, <2>3, <2>5, <2>7, <2>8, <2>9, WriteStep DEF marker
<1>2. CASE o \notin Young
  <2>1. o \in Kept /\ mem[o].kind = "plain"
    BY <1>0, <1>2, Places DEF Scanned, SafeOrNone, Safe, IInv, TypeOK
  <2> QED
    BY <1>0, <1>2, <2>1, ModifyMajor
<1> QED
  BY <1>1, <1>2

\* What the program finds in a weak array.
LEMMA WeakArray ==
  ASSUME IInv, NEW a, IsWeak(a), SafeOrNone(a), NEW i \in Field
  PROVE  LET v == mem[a].f[i] IN
         /\ a \in Major /\ v \in Value
         /\ v = None \/ Allocated(v)
         /\ phase \notin {"main", "weak1"} => SafeOrNone(v)
         /\ v \in Young => v \in Safe
         /\ Marking /\ v \in Major => mem[v].color = "white" \/ v \in Safe
<1> DEFINE v == mem[a].f[i]
<1>1. a \in Major /\ v \in Value /\ mem[a].kind = "weak" /\ mem[a].color # "free"
  BY DEF IsWeak, IInv, TypeOK, Block
<1> HIDE DEF v
<1>2. CASE phase \in {"weak2", "final", "sweep"}
  <2>1. a \in Range(weaks)
    BY <1>1, <1>2, Places DEF IInv, WeakInv, SafeOrNone
  <2>2. SafeOrNone(v)
    BY <1>2, <2>1 DEF IInv, WeakInv, Cleaned, Range, v
  <2>3. v = None \/ Allocated(v)
    BY <2>2, SafeAllocated DEF SafeOrNone, IInv
  <2> QED
    BY <1>1, <1>2, <2>2, <2>3, Places DEF SafeOrNone, v
<1>3. CASE phase \in {"idle", "main", "weak1"}
  <2>1. v = None \/ Allocated(v)
    BY <1>1, <1>3 DEF IInv, HeapInv, v
  <2>2. v \in Young => v \in Safe
    BY <1>1 DEF IInv, RememberInv, Safe, v
  <2>3. ASSUME Marking, v \in Major, mem[v].color # "white" PROVE v \in Safe
    <3>1. mem[v].color \in {"gray", "black"}
      BY <2>1, <2>3, Places DEF IInv, TypeOK, Block, Allocated
    <3> QED
      BY <2>3, <3>1, MarkedIs, MarkingIs DEF IInv, IsMarking, Safe
  <2>4. ASSUME phase = "idle" PROVE SafeOrNone(v)
    BY <2>1, <2>4 DEF Allocated, SafeOrNone, Safe, Kept
  <2> QED
    BY <1>1, <1>3, <2>1, <2>2, <2>3, <2>4 DEF v
<1> QED
  BY <1>2, <1>3 DEF IInv, TypeOK

\* Weak arrays are written, what plain blocks hold is not.
LEMMA WeakWriteStep ==
  ASSUME IInv, TypeOK', UNCHANGED <<young, root, ref_table, marker, extras>>,
         \A a \in Major : mem'[a].color = mem[a].color /\ mem'[a].kind = mem[a].kind,
         \A a \in Major, i \in Field :
            \/ mem'[a].f[i] = mem[a].f[i]
            \/ /\ mem[a].kind = "weak" /\ mem[a].color # "free" /\ MayHold(a, mem'[a].f[i])
               /\ mem'[a].f[i] \in Young => mem'[a].f[i] \in DOMAIN young /\ <<a, i>> \in weak_ref_table',
         weak_ref_table \subseteq weak_ref_table',
         \A l \in weak_ref_table' \ weak_ref_table :
           mem[l[1]].kind = "weak" /\ mem[l[1]].color # "free" /\ DOMAIN young # {}
  PROVE  IInv'
<1>1. Marked(mem') = Marked(mem)
  BY WeakDoesNotMark
<1>2. Kept' = Kept /\ Safe' = Safe
  BY <1>1 DEF Kept, Safe, marker
<1>3. YoungClosed' /\ \A r \in Root : SafeOrNone(root[r])'
  BY <1>2, RootsAreSafe, ClosedGives DEF YoungClosed, SafeOrNone, IInv
<1>4. GrayInv'
  <2>1. \A k \in DOMAIN gray : gray[k] \in Major
    BY DEF IInv, TypeOK
  <2>2. gray' = gray /\ pure' = pure /\ markhp' = markhp
    BY DEF marker
  <2> QED
    BY <2>1, <2>2 DEF IInv, GrayInv, GrayIsFound, Range
<1>5. RememberInv'
  <2>1. ASSUME NEW l \in ref_table' PROVE mem'[l[1]].color # "free" /\ mem'[l[1]].kind = "plain"
    <3>1. l[1] \in Major
      BY DEF TypeOK
    <3>2. mem[l[1]].color # "free" /\ mem[l[1]].kind = "plain"
      BY DEF IInv, RememberInv
    <3> QED
      BY <3>1, <3>2
  <2>2. ASSUME NEW l \in weak_ref_table' PROVE mem'[l[1]].color # "free" /\ mem'[l[1]].kind = "weak"
    <3>1. l[1] \in Major
      BY DEF TypeOK
    <3>2. mem[l[1]].color # "free" /\ mem[l[1]].kind = "weak"
      BY DEF IInv, RememberInv
    <3> QED
      BY <3>1, <3>2
  <2>3. ASSUME NEW a \in Major, NEW i \in Field, mem'[a].f[i] \in Young
        PROVE  /\ mem'[a].f[i] \in DOMAIN young'
               /\ <<a, i>> \in IF mem'[a].kind = "plain" THEN ref_table' ELSE weak_ref_table'
    BY <2>3 DEF IInv, RememberInv
  <2>4. DOMAIN young' = {} => ref_table' = {} /\ weak_ref_table' = {}
    BY DEF IInv, RememberInv
  <2> QED
    BY <2>1, <2>2, <2>3, <2>4 DEF RememberInv
<1>6. Darkened
  BY <1>2 DEF Darkened
<1> QED
  BY <1>3, <1>4, <1>5, <1>6, WriteStep DEF marker

\* Weak.set.
LEMMA WeakSetStep ==
  ASSUME IInv, NEW s \in Root, NEW i \in Field, NEW v \in Operand, WeakSet(s, i, v)
  PROVE  IInv'
<1> DEFINE a == root[s]
<1>1. /\ IsWeak(a) /\ SafeOrNone(a) /\ v \in Value /\ SafeOrNone(v)
      /\ mem' = WithField(mem, a, i, v)
      /\ weak_ref_table' = Remember(weak_ref_table, <<a, i>>, mem[a].f[i], v)
      /\ UNCHANGED <<young, root, ref_table, marker, extras>>
  BY RootsAreSafe DEF WeakSet, DoSet
<1> HIDE DEF a
<1>2. a \in Major /\ mem[a].kind = "weak" /\ mem[a].color # "free"
  BY <1>1 DEF IsWeak
<1>3. /\ mem' \in [Major -> Block]
      /\ \A b \in Major : mem'[b].color = mem[b].color /\ mem'[b].kind = mem[b].kind
      /\ mem'[a].f[i] = v
      /\ \A b \in Major, j \in Field : b # a \/ j # i => mem'[b].f[j] = mem[b].f[j]
  <2>1. mem \in [Major -> Block]
    BY DEF IInv, TypeOK
  <2> QED
    BY <1>1, <1>2, <2>1, WithFieldIs
<1>4. TypeOK'
  BY <1>1, <1>2, <1>3 DEF IInv, TypeOK, Remember, marker, extras
<1>5. MayHold(a, v) /\ (v \in Young => v \in DOMAIN young)
  BY <1>1, SafeAllocated, KeptMajor, Places DEF MayHold, SafeOrNone, Safe, IInv
<1>6. mem[a].f[i] \in Young => <<a, i>> \in weak_ref_table
  BY <1>2 DEF IInv, RememberInv
<1> QED
  BY <1>1, <1>2, <1>3, <1>4, <1>5, <1>6, WeakWriteStep DEF Remember

\* The value that a weak array held may be put in any other.
LEMMA WeakHeld ==
  ASSUME IInv, NEW a, IsWeak(a), SafeOrNone(a), NEW i \in Field, NEW d, IsWeak(d),
         ~ (phase = "weak1" /\ mem[a].f[i] \in Major /\ mem[mem[a].f[i]].color = "white")
  PROVE  MayHold(d, mem[a].f[i])
<1> DEFINE v == mem[a].f[i]
<1>1. /\ v \in Value /\ (v = None \/ Allocated(v))
      /\ phase \notin {"main", "weak1"} => SafeOrNone(v)
      /\ v \in Young => v \in Safe
      /\ Marking /\ v \in Major => mem[v].color = "white" \/ v \in Safe
  BY WeakArray
<1> HIDE DEF v
<1>2. ASSUME NEW k \in DOMAIN weaks, Cleaned(k), v # None PROVE v \in Safe
  <2>1. phase \in {"weak1", "weak2", "final", "sweep"}
    BY <1>2 DEF Cleaned
  <2>2. CASE phase = "weak1"
    BY <1>1, <1>2, <2>2, Places DEF Marking, v
  <2>3. CASE phase # "weak1"
    BY <1>1, <1>2, <2>1, <2>3 DEF SafeOrNone
  <2> QED
    BY <2>2, <2>3
<1> QED
  BY <1>1, <1>2 DEF MayHold, IsWeak, v

\* Weak.blit of one entry, which erases a dead value at the source.
LEMMA WeakBlitStep ==
  ASSUME IInv, NEW s \in Root, NEW d \in Root, NEW i \in Field, NEW j \in Field, WeakBlit(s, i, d, j)
  PROVE  IInv'
<1> DEFINE a == root[s]
           b == root[d]
           v == mem[a].f[i]
           dead == phase = "weak1" /\ v \in Major /\ mem[v].color = "white"
<1>1. /\ IsWeak(a) /\ SafeOrNone(a) /\ IsWeak(b) /\ SafeOrNone(b)
      /\ UNCHANGED <<young, root, ref_table, marker, extras>>
      /\ dead => DoSet(WithField(mem, a, i, None), b, j, None)
      /\ ~ dead => DoSet(mem, b, j, v)
  BY RootsAreSafe DEF WeakBlit
<1>2. /\ a \in Major /\ mem[a].kind = "weak" /\ mem[a].color # "free"
      /\ b \in Major /\ mem[b].kind = "weak" /\ mem[b].color # "free"
      /\ v \in Value /\ (v \in Young => v \in DOMAIN young)
      /\ mem \in [Major -> Block] /\ None \in Value
  BY <1>1, WeakArray, KeptMajor, Places DEF IsWeak, Safe, IInv, TypeOK
<1>3. ~ dead => MayHold(b, v)
  BY <1>1, WeakHeld
<1> HIDE DEF a, b, v, dead
<1>4. CASE dead
  <2> DEFINE m == WithField(mem, a, i, None)
  <2>1. /\ m \in [Major -> Block]
        /\ \A c \in Major : m[c].color = mem[c].color /\ m[c].kind = mem[c].kind
        /\ m[a].f[i] = None
        /\ \A c \in Major, k \in Field : c # a \/ k # i => m[c].f[k] = mem[c].f[k]
    BY <1>2, WithFieldIs
  <2>2. mem' = WithField(m, b, j, None) /\ weak_ref_table' = weak_ref_table
    BY <1>1, <1>4, Places DEF DoSet, Remember
  <2> HIDE DEF m
  <2>3. /\ mem' \in [Major -> Block]
        /\ \A c \in Major : mem'[c].color = m[c].color /\ mem'[c].kind = m[c].kind
        /\ mem'[b].f[j] = None
        /\ \A c \in Major, k \in Field : c # b \/ k # j => mem'[c].f[k] = m[c].f[k]
    BY <1>2, <2>1, <2>2, WithFieldIs
  <2>4. TypeOK'
    BY <1>1, <2>2, <2>3 DEF IInv, TypeOK, marker, extras
  <2>5. ASSUME NEW c \in Major, NEW k \in Field
        PROVE  \/ mem'[c].f[k] = mem[c].f[k]
               \/ mem'[c].f[k] = None /\ mem[c].kind = "weak" /\ mem[c].color # "free"
    BY <1>2, <2>1, <2>3
  <2>6. \A c : MayHold(c, None)
    BY DEF MayHold
  <2> QED
    BY <1>1, <2>1, <2>2, <2>3, <2>4, <2>5, <2>6, Places, WeakWriteStep
<1>5. CASE ~ dead
  <2>1. mem' = WithField(mem, b, j, v)
        /\ weak_ref_table' = Remember(weak_ref_table, <<b, j>>, mem[b].f[j], v)
    BY <1>1, <1>5 DEF DoSet
  <2>2. /\ mem' \in [Major -> Block]
        /\ \A c \in Major : mem'[c].color = mem[c].color /\ mem'[c].kind = mem[c].kind
        /\ mem'[b].f[j] = v
        /\ \A c \in Major, k \in Field : c # b \/ k # j => mem'[c].f[k] = mem[c].f[k]
    BY <1>2, <2>1, WithFieldIs
  <2>3. TypeOK'
    BY <1>1, <1>2, <2>1, <2>2 DEF IInv, TypeOK, Remember, marker, extras
  <2>4. mem[b].f[j] \in Young => <<b, j>> \in weak_ref_table
    BY <1>2 DEF IInv, RememberInv
  <2> QED
    BY <1>1, <1>2, <1>3, <1>5, <2>1, <2>2, <2>3, <2>4, WeakWriteStep DEF Remember
<1> QED
  BY <1>4, <1>5

\* A step that passes the barrier and writes no field of the major heap.
LEMMA BarrierStep ==
  ASSUME IInv, NEW V, NEW t, Barriered(t, V), Becomes(t),
         UNCHANGED <<ref_table, weak_ref_table, markhp, phase, sweep_hp>>,
         DOMAIN young \subseteq DOMAIN young',
         phase \notin {"idle", "main", "weak1"} => V \cap Major \subseteq Kept
  PROVE  /\ Darkened /\ GrayInv' /\ RememberInv'
         /\ mem' \in [Major -> Block] /\ gray' \in Seq(Major) /\ pure' \in BOOLEAN
         /\ \A a \in Major : mem'[a].f = mem[a].f
         /\ ~ Marking => gray' = gray /\ pure' = pure
         /\ Marking => \A v \in V \cap Major : mem[v].color # "free" => v \in Kept'
<1>0. mem' = t.mem /\ gray' = t.gray /\ pure' = t.pure
  BY DEF Becomes
<1>1. /\ t.mem \in [Major -> Block] /\ t.gray \in Seq(Major) /\ t.pure \in BOOLEAN
      /\ \A a \in Major :
           /\ t.mem[a].kind = mem[a].kind /\ t.mem[a].f = mem[a].f
           /\ \/ t.mem[a].color = mem[a].color
              \/ /\ Marking /\ mem[a].color = "white"
                 /\ t.mem[a].color = "gray" \/ (t.mem[a].color = "black" /\ mem[a].kind = "weak")
      /\ GrayOf(t)
      /\ ~ Marking => t.mem = mem /\ t.gray = gray /\ t.pure = pure
      /\ Marking => /\ Marked(mem) \subseteq Marked(t.mem)
                    /\ V \cap Major \subseteq Kept => Marked(t.mem) \subseteq Marked(mem)
                    /\ \A v \in V \cap Major : mem[v].color # "free" =>
                         v \in Marked(t.mem) /\ t.mem[v].color \in {"gray", "black"}
  BY BarrieredIs
<1>2. GrayInv'
  BY <1>0, <1>1 DEF GrayOf, GrayInv, GrayIsFound, IsInjective, Range
<1>3. RememberInv'
  <2>1. ASSUME NEW l \in ref_table' PROVE mem'[l[1]].color # "free" /\ mem'[l[1]].kind = "plain"
    <3>1. l[1] \in Major /\ mem[l[1]].color # "free" /\ mem[l[1]].kind = "plain"
      BY <2>1 DEF IInv, RememberInv, TypeOK
    <3> QED
      BY <1>0, <1>1, <3>1
  <2>2. ASSUME NEW l \in weak_ref_table' PROVE mem'[l[1]].color # "free" /\ mem'[l[1]].kind = "weak"
    <3>1. l[1] \in Major /\ mem[l[1]].color # "free" /\ mem[l[1]].kind = "weak"
      BY <2>2 DEF IInv, RememberInv, TypeOK
    <3> QED
      BY <1>0, <1>1, <3>1
  <2>3. ASSUME NEW a \in Major, NEW i \in Field, mem'[a].f[i] \in Young
        PROVE  /\ mem'[a].f[i] \in DOMAIN young'
               /\ <<a, i>> \in IF mem'[a].kind = "plain" THEN ref_table' ELSE weak_ref_table'
    BY <1>0, <1>1, <2>3 DEF IInv, RememberInv
  <2>4. DOMAIN young' = {} => ref_table' = {} /\ weak_ref_table' = {}
    BY DEF IInv, RememberInv
  <2> QED
    BY <2>1, <2>2, <2>3, <2>4 DEF RememberInv
<1>4. CASE Marking
  <2>1. Kept = Marked(mem) /\ Kept' = Marked(t.mem)
    BY <1>0, <1>4, MarkingIs DEF Kept, IInv, Marking
  <2> QED
    BY <1>0, <1>1, <1>2, <1>3, <1>4, <2>1 DEF Darkened
<1>5. CASE ~ Marking
  <2>1. Kept' = Kept
    BY <1>0, <1>1, <1>5 DEF Kept
  <2> QED
    BY <1>0, <1>1, <1>2, <1>3, <1>5, <2>1 DEF Darkened
<1> QED
  BY <1>4, <1>5

\* Weak.get hands out a value that may not be marked yet, and darkens it.
LEMMA WeakGetStep ==
  ASSUME IInv, NEW r \in Root, NEW s \in Root, NEW i \in Field, WeakGet(r, s, i)
  PROVE  IInv'
<1> DEFINE a == root[s]
           v == mem[a].f[i]
<1>1. /\ IsWeak(a) /\ SafeOrNone(a) /\ v # None
      /\ root' = [root EXCEPT ![r] = v]
      /\ UNCHANGED <<young, ref_table, weak_ref_table, markhp, phase, sweep_hp, run, extras>>
  BY RootsAreSafe DEF WeakGet
<1>2. PICK t \in Barrier(v) : Becomes(t)
  BY DEF WeakGet
<1>3. /\ a \in Major /\ v \in Value
      /\ v = None \/ Allocated(v)
      /\ phase \notin {"main", "weak1"} => SafeOrNone(v)
      /\ v \in Young => v \in Safe
      /\ Marking /\ v \in Major => mem[v].color = "white" \/ v \in Safe
  BY <1>1, WeakArray
<1>4. Barriered(t, {v})
  BY <1>2, BarrierIs
<1> HIDE DEF a, v
<1>5. v \in Major => mem[v].color # "free"
  BY <1>1, <1>3, Places DEF Allocated, IInv, TypeOK
<1>6. ASSUME SafeOrNone(v), v \in Major PROVE v \in Kept
  BY <1>6, Places DEF SafeOrNone, Safe, IInv, TypeOK
<1>7. /\ Darkened /\ GrayInv' /\ RememberInv'
      /\ mem' \in [Major -> Block] /\ gray' \in Seq(Major) /\ pure' \in BOOLEAN
      /\ \A b \in Major : mem'[b].f = mem[b].f
      /\ ~ Marking => gray' = gray /\ pure' = pure
      /\ Marking => \A u \in {v} \cap Major : mem[u].color # "free" => u \in Kept'
  <2>1. phase \notin {"idle", "main", "weak1"} => {v} \cap Major \subseteq Kept
    BY <1>3, <1>6
  <2>2. DOMAIN young \subseteq DOMAIN young'
    BY <1>1
  <2> QED
    BY <1>1, <1>2, <1>4, <2>1, <2>2, BarrierStep
<1>8. TypeOK'
  BY <1>1, <1>3, <1>7 DEF IInv, TypeOK, extras
<1>9. Safe \subseteq Safe'
  BY <1>1, <1>7 DEF Safe, Darkened
<1>10. v \in Safe'
  <2>1. CASE v \in Young
    BY <1>3, <1>9, <2>1
  <2>2. CASE v \in Major /\ Marking
    BY <1>5, <1>7, <2>2 DEF Safe
  <2>3. CASE v \in Major /\ ~ Marking
    <3>1. SafeOrNone(v)
      BY <1>3, <2>3 DEF Marking
    <3> QED
      BY <1>1, <1>9, <3>1 DEF SafeOrNone
  <2> QED
    BY <1>1, <1>3, <2>1, <2>2, <2>3, Places
<1>11. YoungClosed' /\ \A q \in Root : SafeOrNone(root[q])'
  BY <1>1, <1>9, <1>10, RootsAreSafe, ClosedGives DEF YoungClosed, SafeOrNone, IInv, TypeOK
<1> QED
  BY <1>1, <1>7, <1>8, <1>11, WriteStep

\* Weak.get_copy hands out the fields of a value, and darkens them.
LEMMA WeakGetCopyStep ==
  ASSUME IInv, NEW r \in Root, NEW s \in Root, NEW i \in Field, WeakGetCopy(r, s, i)
  PROVE  IInv'
<1> DEFINE a == root[s]
           v == mem[a].f[i]
           y == Min(Young \ DOMAIN young)
           c == Content(v)
<1>1. /\ IsWeak(a) /\ SafeOrNone(a) /\ Scanned(v)
      /\ young' = [o \in DOMAIN young \cup {y} |-> IF o = y THEN c ELSE young[o]]
      /\ root' = [root EXCEPT ![r] = y]
      /\ UNCHANGED <<ref_table, weak_ref_table, markhp, phase, sweep_hp, run, extras>>
  BY RootsAreSafe DEF WeakGetCopy
<1>2. PICK t \in (IF Marking THEN DarkenAll(Marker, c) ELSE {Marker}) : Becomes(t)
  BY DEF WeakGetCopy
<1>3. /\ v \in Value
      /\ v = None \/ Allocated(v)
      /\ phase \notin {"main", "weak1"} => SafeOrNone(v)
      /\ v \in Young => v \in Safe
  BY <1>1, WeakArray
<1>4. y \in Young \ DOMAIN young
  BY NewYoung DEF WeakGetCopy, IInv
<1> HIDE DEF a, v, y
<1>5. c \in [Field -> Value]
  BY <1>1, Places DEF Content, Scanned, IInv, TypeOK, Block
<1>6. ASSUME SafeOrNone(v), NEW j \in Field PROVE SafeOrNone(c[j])
  BY <1>1, <1>3, <1>6, ContentIsSafe
<1>7. ASSUME ~ SafeOrNone(v), NEW j \in Field
      PROVE  /\ c[j] = None \/ Allocated(c[j])
             /\ c[j] \in Young => c[j] \in Safe
  <2>1. v \in Major /\ c = mem[v].f /\ phase \in {"main", "weak1"}
    BY <1>1, <1>3, <1>7, Places DEF SafeOrNone, Content, Scanned, IInv, TypeOK
  <2>2. c[j] = None \/ Allocated(c[j])
    BY <2>1 DEF IInv, HeapInv
  <2> QED
    BY <2>1, <2>2 DEF IInv, RememberInv, Safe
<1>8. Barriered(t, Range(c))
  BY <1>2, <1>5, BarrierOfAll
<1> HIDE DEF c
<1>9. /\ DOMAIN young' = DOMAIN young \cup {y}
      /\ \A o \in DOMAIN young, j \in Field : young'[o][j] = young[o][j]
      /\ young'[y] = c
  BY <1>1, <1>4
<1>10. /\ Darkened /\ GrayInv' /\ RememberInv'
       /\ mem' \in [Major -> Block] /\ gray' \in Seq(Major) /\ pure' \in BOOLEAN
       /\ \A b \in Major : mem'[b].f = mem[b].f
       /\ ~ Marking => gray' = gray /\ pure' = pure
       /\ Marking => \A u \in Range(c) \cap Major : mem[u].color # "free" => u \in Kept'
  <2>1. phase \notin {"idle", "main", "weak1"} => Range(c) \cap Major \subseteq Kept
    BY <1>3, <1>5, <1>6, Places DEF SafeOrNone, Safe, IInv, TypeOK, Range
  <2>2. DOMAIN young \subseteq DOMAIN young'
    BY <1>9
  <2> QED
    BY <1>1, <1>2, <1>8, <2>1, <2>2, BarrierStep
<1>11. TypeOK'
  <2>1. young' \in [DOMAIN young' -> [Field -> Value]]
    BY <1>1, <1>4, <1>5, <1>9 DEF IInv, TypeOK
  <2> QED
    BY <1>1, <1>4, <1>9, <1>10, <2>1, Places DEF IInv, TypeOK, extras
<1>12. Safe \subseteq Safe' /\ y \in Safe'
  BY <1>9, <1>10 DEF Safe, Darkened
<1>13. ASSUME NEW j \in Field PROVE c[j] = None \/ c[j] \in Safe'
  <2>1. CASE SafeOrNone(v)
    BY <1>6, <1>12, <2>1 DEF SafeOrNone
  <2>2. CASE ~ SafeOrNone(v)
    <3>1. /\ c[j] = None \/ Allocated(c[j])
          /\ c[j] \in Young => c[j] \in Safe
      BY <1>7, <2>2
    <3>2. Marking
      BY <1>3, <2>2 DEF Marking
    <3>3. c[j] \in Major => mem[c[j]].color # "free"
      BY <3>1, Places DEF Allocated, IInv, TypeOK
    <3>4. c[j] \in Major => c[j] \in Kept'
      BY <1>5, <1>10, <3>2, <3>3 DEF Range
    <3> QED
      BY <1>5, <1>12, <3>1, <3>4, Places DEF Safe
  <2> QED
    BY <2>1, <2>2
<1>14. YoungClosed'
  BY <1>9, <1>12, <1>13, ClosedGives DEF YoungClosed, SafeOrNone, IInv
<1>15. \A q \in Root : SafeOrNone(root[q])'
  BY <1>1, <1>12, RootsAreSafe DEF SafeOrNone, IInv, TypeOK
<1> QED
  BY <1>1, <1>9, <1>10, <1>11, <1>14, <1>15, WriteStep

\* The place of an element of a list without repetitions.
LEMMA PlaceIs ==
  ASSUME NEW w, IsInjective(w), NEW k \in DOMAIN w
  PROVE  (CHOOSE j \in DOMAIN w : w[j] = w[k]) = k
  BY DEF IsInjective

\* The place in the list of weak arrays after weak_prev.
LEMMA WeakAtIs ==
  ASSUME TypeOK, IsInjective(weaks), weak_prev = None \/ weak_prev \in Range(weaks)
  PROVE  /\ weak_prev = None => WeakAt = 1
         /\ weak_prev # None => \E k \in DOMAIN weaks : weaks[k] = weak_prev /\ WeakAt = k + 1
<1>1. ASSUME weak_prev # None
      PROVE  \E k \in DOMAIN weaks : weaks[k] = weak_prev /\ WeakAt = k + 1
  <2>1. PICK k \in DOMAIN weaks : weaks[k] = weak_prev
    BY <1>1 DEF Range
  <2>2. k \in Nat /\ (CHOOSE j \in DOMAIN weaks : weaks[j] = weak_prev) = k
    BY <2>1, PlaceIs DEF TypeOK
  <2>3. WeakAt = 1 + k
    BY <1>1, <2>2 DEF WeakAt
  <2>4. WeakAt = k + 1
    BY <2>2, <2>3
  <2> QED
    BY <2>1, <2>4
<1> QED
  BY <1>1 DEF WeakAt

\* A new block of the major heap.
LEMMA AllocStep ==
  ASSUME IInv, TypeOK', NEW r \in Root, NEW a \in Free, NEW b \in Block,
         b.color = AllocationColor(a), \A i \in Field : SafeOrNone(b.f[i]),
         mem' = [mem EXCEPT ![a] = b], root' = [root EXCEPT ![r] = a],
         UNCHANGED <<young, weak_ref_table, marker, weak_prev, final, gen, uses>>,
         ref_table \subseteq ref_table',
         \A l \in ref_table' \ ref_table : l[1] = a /\ b.kind = "plain" /\ DOMAIN young # {},
         \A i \in Field : b.f[i] \in Young => b.kind = "plain" /\ <<a, i>> \in ref_table',
         b.kind = "plain" => weaks' = weaks,
         b.kind = "weak" => /\ weaks' = <<a>> \o weaks /\ "weak" \in uses
                            /\ \A i \in Field : b.f[i] = None
  PROVE  IInv'
<1>0. /\ a \in Major /\ mem[a].color = "free" /\ mem[a] = FreeBlock
      /\ mem'[a] = b /\ \A x \in Major : x # a => mem'[x] = mem[x]
      /\ phase' = phase /\ sweep_hp' = sweep_hp /\ markhp' = markhp /\ gray' = gray /\ pure' = pure
  BY DEF Free, IInv, FreeInv, TypeOK, marker
<1>1. /\ b.color \in {"white", "black"}
      /\ Marking => b.color = "black"
      /\ phase = "idle" => b.color = "white"
      /\ phase = "sweep" => b.color = IF a >= sweep_hp THEN "black" ELSE "white"
  BY DEF AllocationColor, Marking
<1>2. Kept' = Kept \cup {a}
  <2>1. CASE Marking
    <3> DEFINE C == Marked(mem)
               D == Marked(mem')
    <3>0. /\ Kept = C /\ Kept' = D /\ C \subseteq Major /\ D \subseteq Major
          /\ IsMarking(mem, C) /\ IsMarking(mem', D)
      BY <1>0, <2>1, MarkingIs, MarkedIs DEF IInv, Kept, TypeOK, Marking
    <3> HIDE DEF C, D
    <3>1. a \in D
      BY <1>0, <1>1, <2>1, <3>0 DEF IsMarking
    <3>2. IsMarking(mem', C \cup {a})
      <4> SUFFICES ASSUME NEW x \in Major
                   PROVE  /\ mem'[x].color \in {"gray", "black"} => x \in C \cup {a}
                          /\ x \in C \cup {a} /\ Scans(mem'[x]) => \A i \in Field :
                               mem'[x].f[i] \in Major => mem'[x].f[i] \in C \cup {a}
        BY DEF IsMarking
      <4>1. CASE x = a
        BY <1>0, <1>1, <2>1, <4>1 DEF Scans
      <4>2. CASE x # a
        BY <1>0, <3>0, <4>2 DEF IsMarking
      <4> QED
        BY <4>1, <4>2
    <3>3. IsMarking(mem, D)
      <4> SUFFICES ASSUME NEW x \in Major
                   PROVE  /\ mem[x].color \in {"gray", "black"} => x \in D
                          /\ x \in D /\ Scans(mem[x]) => \A i \in Field :
                               mem[x].f[i] \in Major => mem[x].f[i] \in D
        BY DEF IsMarking
      <4>1. CASE x = a
        BY <1>0, <3>1, <4>1, Places DEF FreeBlock
      <4>2. CASE x # a
        BY <1>0, <3>0, <4>2 DEF IsMarking
      <4> QED
        BY <4>1, <4>2
    <3>4. D \subseteq C \cup {a} /\ C \subseteq D
      <4>1. C \cup {a} \in SUBSET Major /\ D \in SUBSET Major
        BY <1>0, <3>0
      <4>2. Marked(mem') \subseteq C \cup {a}
        BY <3>2, <4>1, MarkedLeast
      <4>3. Marked(mem) \subseteq D
        BY <3>3, <4>1, MarkedLeast
      <4> QED
        BY <4>2, <4>3 DEF C, D
    <3> QED
      BY <3>0, <3>1, <3>4
  <2>2. CASE phase = "idle"
    BY <1>0, <1>1, <2>2 DEF Kept
  <2>3. CASE phase = "sweep"
    <3>1. sweep_hp \in Int /\ a \in Int
      BY <1>0, Places DEF IInv, TypeOK
    <3> QED
      BY <1>0, <1>1, <2>3, <3>1 DEF Kept
  <2> QED
    BY <2>1, <2>2, <2>3, MarkingIs DEF IInv
<1>3. /\ Safe' = Safe \cup {a}
      /\ \A v : Allocated(v) => Allocated(v)'
  BY <1>0, <1>1, <1>2 DEF Safe, Allocated
<1>4. FreeInv' /\ GenInv' /\ OldInv'
  BY <1>0, <1>1, <1>3 DEF IInv, FreeInv, GenInv, OldInv
<1>5. GrayInv'
  <2>1. \A k \in DOMAIN gray : gray[k] \in Major /\ gray[k] # a
    BY <1>0 DEF IInv, TypeOK, GrayInv, GrayIsFound, Range
  <2> QED
    BY <1>0, <1>1, <2>1 DEF IInv, GrayInv, GrayIsFound, Range
<1>6. PhaseInv'
  <2>1. sweep_hp \in Int /\ a \in Int
    BY <1>0, Places DEF IInv, TypeOK
  <2> QED
    BY <1>0, <1>1, <2>1 DEF IInv, PhaseInv, Marking
<1>7. RootInv'
  BY <1>3, RootsAreSafe DEF RootInv, Range, GenValue, IInv, TypeOK, SafeOrNone
<1>8. HeapInv'
  <2> SUFFICES ASSUME phase # "sweep", NEW x \in Major, NEW i \in Field
               PROVE  mem'[x].f[i] = None \/ Allocated(mem[x].f[i])'
    BY <1>0 DEF HeapInv
  <2>1. mem'[x].f[i] = None \/ Allocated(mem'[x].f[i])
    BY <1>0, SafeAllocated DEF IInv, HeapInv, SafeOrNone
  <2> QED
    BY <1>3, <2>1
<1>9. RememberInv'
  <2>1. ASSUME NEW l \in ref_table' PROVE mem'[l[1]].color # "free" /\ mem'[l[1]].kind = "plain"
    <3>1. CASE l \in ref_table
      <4>1. l[1] \in Major /\ mem[l[1]].color # "free" /\ mem[l[1]].kind = "plain"
        BY <3>1 DEF IInv, RememberInv, TypeOK
      <4> QED
        BY <1>0, <4>1
    <3> QED
      BY <1>0, <1>1, <3>1
  <2>2. ASSUME NEW l \in weak_ref_table' PROVE mem'[l[1]].color # "free" /\ mem'[l[1]].kind = "weak"
    <3>1. l[1] \in Major /\ mem[l[1]].color # "free" /\ mem[l[1]].kind = "weak"
      BY <2>2 DEF IInv, RememberInv, TypeOK
    <3> QED
      BY <1>0, <3>1
  <2>3. ASSUME NEW x \in Major, NEW i \in Field, mem'[x].f[i] \in Young
        PROVE  /\ mem'[x].f[i] \in DOMAIN young'
               /\ <<x, i>> \in IF mem'[x].kind = "plain" THEN ref_table' ELSE weak_ref_table'
    <3>1. CASE x = a
      <4>1. b.f[i] \in Safe /\ b.f[i] \in Young
        BY <1>0, <2>3, <3>1, Places DEF SafeOrNone
      <4> QED
        BY <1>0, <3>1, <4>1, KeptMajor, Places DEF Safe
    <3>2. CASE x # a
      BY <1>0, <2>3, <3>2 DEF IInv, RememberInv
    <3> QED
      BY <3>1, <3>2
  <2>4. DOMAIN young' = {} => ref_table' = {} /\ weak_ref_table' = {}
    BY DEF IInv, RememberInv
  <2> QED
    BY <2>1, <2>2, <2>3, <2>4 DEF RememberInv
<1>10. YoungClosed'
  BY <1>3, ClosedGives DEF YoungClosed, SafeOrNone, IInv
<1>11. ClosedInv'
  <2>1. CASE Marking
    <3>1. BlackClosed'
      <4> SUFFICES ASSUME NEW x \in Major, mem'[x].color = "black", mem'[x].kind = "plain", NEW i \in Field
                   PROVE  mem'[x].f[i] = None \/ mem'[x].f[i] \in Safe
        BY <1>3 DEF BlackClosed, SafeOrNone
      <4>1. CASE x = a
        BY <1>0, <4>1 DEF SafeOrNone
      <4>2. CASE x # a
        BY <1>0, <2>1, <4>2, ClosedGives DEF IInv, BlackClosed, SafeOrNone
      <4> QED
        BY <4>1, <4>2
    <3>2. Marking'
      BY <1>0, <2>1 DEF Marking
    <3> QED
      BY <1>9, <1>10, <3>1, <3>2, ClosedWhenMarking, PTL
  <2>2. CASE ~ Marking
    <3> SUFFICES ASSUME NEW o \in Safe', Scanned(o)', NEW i \in Field PROVE SafeOrNone(Content(o)[i])'
      BY DEF ClosedInv
    <3>1. CASE o \in DOMAIN young'
      <4>1. Content(o)' = young'[o]
        BY <3>1 DEF Content, TypeOK
      <4> QED
        BY <1>10, <3>1, <4>1 DEF YoungClosed
    <3>2. CASE o \notin DOMAIN young'
      <4>1. o \in Kept' /\ o \in Major
        BY <1>0, <1>2, <3>2, KeptMajor DEF Safe
      <4>2. Content(o)' = mem'[o].f /\ mem'[o].kind = "plain"
        BY <3>2, <4>1, Places DEF Content, Scanned
      <4>3. mem'[o].f[i] = None \/ mem'[o].f[i] \in Safe
        <5>1. CASE o = a
          BY <1>0, <5>1 DEF SafeOrNone
        <5>2. CASE o # a
          BY <1>0, <1>2, <4>1, <4>2, <5>2, ClosedGives DEF SafeOrNone, IInv
        <5> QED
          BY <5>1, <5>2
      <4> QED
        BY <1>3, <4>2, <4>3 DEF SafeOrNone
    <3> QED
      BY <3>1, <3>2
  <2> QED
    BY <2>1, <2>2
<1>12. WeakInv'
  <2>1. \A x : IsWeak(x)' <=> (IsWeak(x) /\ x # a) \/ (x = a /\ b.kind = "weak")
    BY <1>0, <1>1 DEF IsWeak
  <2>2. /\ IsInjective(weaks) /\ weaks \in Seq(Major)
        /\ \A k \in DOMAIN weaks : IsWeak(weaks[k]) /\ weaks[k] # a /\ mem'[weaks[k]] = mem[weaks[k]]
        /\ weak_prev' = weak_prev /\ a # None
    BY <1>0, Places DEF IInv, WeakInv, IsWeak, TypeOK
  <2>3. CASE b.kind = "plain"
    <3>1. weaks' = weaks /\ WeakAt' = WeakAt
      BY <2>2, <2>3 DEF WeakAt
    <3>2. \A k : (Cleaned(k)' <=> Cleaned(k)) /\ (Passed(k)' <=> Passed(k))
      BY <1>0, <3>1 DEF Cleaned, Passed
    <3>3. ASSUME NEW k \in DOMAIN weaks, NEW i \in Field, Cleaned(k)
          PROVE  SafeOrNone(mem'[weaks[k]].f[i])
      BY <2>2, <3>3 DEF IInv, WeakInv
    <3>4. ASSUME NEW x \in Major, IsWeak(x)', phase' \in {"idle", "main", "weak1"} \/ x \in Safe'
          PROVE  x \in Range(weaks')
      BY <1>0, <1>3, <2>1, <2>3, <3>1, <3>4 DEF IInv, WeakInv
    <3>5. /\ IsInjective(weaks')
          /\ \A k \in DOMAIN weaks' : IsWeak(weaks[k])'
          /\ phase' \in {"weak1", "weak2"} => weak_prev' = None \/ weak_prev' \in Range(weaks')
          /\ \A k \in DOMAIN weaks' : Passed(k) => weaks'[k] \in Safe'
      BY <1>0, <1>3, <2>1, <2>2, <2>3, <3>1 DEF IInv, WeakInv
    <3> QED
      BY <1>3, <3>1, <3>2, <3>3, <3>4, <3>5 DEF WeakInv, SafeOrNone
  <2>4. CASE b.kind = "weak"
    <3> DEFINE w == <<a>> \o weaks
               n == Len(weaks)
    <3>1. /\ n \in Nat /\ DOMAIN weaks = 1 .. n /\ w \in Seq(Major) /\ DOMAIN w = 1 .. n + 1
          /\ w[1] = a /\ \A k \in 1 .. n : w[k + 1] = weaks[k]
      BY <1>0, <2>2
    <3>2. weaks' = w
      BY <2>4
    <3> HIDE DEF w, n
    <3>3. \A k \in 1 .. n + 1 : k = 1 \/ (k - 1 \in 1 .. n /\ w[k] = weaks[k - 1])
      <4> SUFFICES ASSUME NEW k \in 1 .. n + 1, k # 1 PROVE k - 1 \in 1 .. n /\ w[k] = weaks[k - 1]
        OBVIOUS
      <4>1. k - 1 \in 1 .. n /\ (k - 1) + 1 = k
        BY <3>1
      <4> QED
        BY <3>1, <4>1
    <3>4. IsInjective(w)
      <4> SUFFICES ASSUME NEW j \in 1 .. n + 1, NEW k \in 1 .. n + 1, w[j] = w[k] PROVE j = k
        BY <3>1 DEF IsInjective
      <4>1. CASE j = 1 \/ k = 1
        <5>1. ASSUME NEW l \in 1 .. n + 1, l # 1 PROVE w[l] # a
          <6>1. l - 1 \in DOMAIN weaks /\ w[l] = weaks[l - 1]
            BY <3>1, <3>3, <5>1
          <6> QED
            BY <2>2, <6>1
        <5> QED
          BY <3>1, <4>1, <5>1
      <4>2. CASE j # 1 /\ k # 1
        <5>1. /\ j - 1 \in 1 .. n /\ w[j] = weaks[j - 1]
              /\ k - 1 \in 1 .. n /\ w[k] = weaks[k - 1]
          BY <3>3, <4>2
        <5>2. j - 1 = k - 1
          BY <2>2, <3>1, <5>1 DEF IsInjective
        <5> QED
          BY <5>2
      <4> QED
        BY <4>1, <4>2
    <3>5. Range(w) = Range(weaks) \cup {a}
      <4>1. ASSUME NEW k \in 1 .. n PROVE weaks[k] \in Range(w)
        <5>1. k + 1 \in 1 .. n + 1 /\ w[k + 1] = weaks[k]
          BY <3>1
        <5> QED
          BY <3>1, <5>1 DEF Range
      <4>2. a \in Range(w)
        BY <3>1 DEF Range
      <4>3. \A k \in 1 .. n + 1 : w[k] = a \/ w[k] \in Range(weaks)
        BY <3>1, <3>3 DEF Range
      <4> QED
        BY <3>1, <4>1, <4>2, <4>3 DEF Range
    <3>6. ASSUME NEW k \in 1 .. n, phase \in {"weak1", "weak2"}, k + 1 < WeakAt' PROVE k < WeakAt
      <4>1. weak_prev = None \/ weak_prev \in Range(weaks)
        BY <3>6 DEF IInv, WeakInv
      <4>2. CASE weak_prev = None
        <5>1. WeakAt' = 1
          BY <2>2, <4>2 DEF WeakAt
        <5> QED
          BY <3>6, <5>1
      <4>3. CASE weak_prev # None
        <5>1. PICK j \in 1 .. n : weaks[j] = weak_prev /\ WeakAt = j + 1
          BY <2>2, <3>1, <4>1, <4>3, WeakAtIs DEF IInv
        <5>2. j + 1 \in DOMAIN w /\ w[j + 1] = weak_prev
          BY <3>1, <5>1
        <5>3. (CHOOSE i \in DOMAIN w : w[i] = w[j + 1]) = j + 1
          BY <3>4, <5>2, PlaceIs
        <5>4. WeakAt' = 1 + (j + 1)
          BY <2>2, <3>2, <4>3, <5>2, <5>3 DEF WeakAt
        <5> QED
          BY <3>6, <5>1, <5>4
      <4> QED
        BY <4>2, <4>3
    <3>7. ASSUME NEW k \in 1 .. n + 1, NEW i \in Field, Cleaned(k)'
          PROVE  mem'[w[k]].f[i] = None \/ mem'[w[k]].f[i] \in Safe
      <4>1. CASE k = 1
        BY <1>0, <2>4, <3>1, <4>1
      <4>2. CASE k # 1
        <5>1. k - 1 \in 1 .. n /\ w[k] = weaks[k - 1]
          BY <3>3, <4>2
        <5>2. Cleaned(k - 1)
          <6>1. CASE phase \in {"weak2", "final", "sweep"}
            BY <6>1 DEF Cleaned
          <6>2. CASE phase = "weak1"
            <7>1. k < WeakAt' /\ (k - 1) + 1 = k
              BY <1>0, <3>7, <6>2 DEF Cleaned
            <7>2. k - 1 < WeakAt
              BY <3>6, <5>1, <6>2, <7>1
            <7> QED
              BY <6>2, <7>2 DEF Cleaned
          <6> QED
            BY <1>0, <3>7, <6>1, <6>2 DEF Cleaned
        <5>3. mem'[w[k]] = mem[weaks[k - 1]] /\ k - 1 \in DOMAIN weaks
          BY <2>2, <3>1, <5>1
        <5> QED
          BY <5>2, <5>3 DEF IInv, WeakInv, SafeOrNone
      <4> QED
        BY <4>1, <4>2
    <3>8. ASSUME NEW k \in 1 .. n + 1, Passed(k)' PROVE w[k] \in Safe'
      <4>1. CASE k = 1
        BY <1>3, <3>1, <4>1
      <4>2. CASE k # 1
        <5>1. k - 1 \in 1 .. n /\ w[k] = weaks[k - 1]
          BY <3>3, <4>2
        <5>2. Passed(k - 1)
          <6>1. CASE phase \in {"final", "sweep"}
            BY <6>1 DEF Passed
          <6>2. CASE phase = "weak2"
            <7>1. k < WeakAt' /\ (k - 1) + 1 = k
              BY <1>0, <3>8, <6>2 DEF Passed
            <7>2. k - 1 < WeakAt
              BY <3>6, <5>1, <6>2, <7>1
            <7> QED
              BY <6>2, <7>2 DEF Passed
          <6> QED
            BY <1>0, <3>8, <6>1, <6>2 DEF Passed
        <5> QED
          BY <1>3, <3>1, <5>1, <5>2 DEF IInv, WeakInv
      <4> QED
        BY <4>1, <4>2
    <3>9. ASSUME NEW k \in 1 .. n + 1 PROVE IsWeak(w[k])
               \/ (w[k] = a)
      BY <2>2, <3>1, <3>3
    <3>10. \A k \in DOMAIN weaks' : IsWeak(weaks[k])'
      BY <2>1, <2>4, <3>1, <3>2, <3>9, <2>2
    <3>11. ASSUME NEW x \in Major, IsWeak(x)', phase' \in {"idle", "main", "weak1"} \/ x \in Safe'
           PROVE  x \in Range(weaks')
      <4>1. CASE x = a
        BY <3>2, <3>5, <4>1
      <4>2. CASE x # a
        <5>1. IsWeak(x) /\ (phase \in {"idle", "main", "weak1"} \/ x \in Safe)
          BY <1>0, <1>3, <2>1, <3>11, <4>2
        <5> QED
          BY <3>2, <3>5, <5>1 DEF IInv, WeakInv
      <4> QED
        BY <4>1, <4>2
    <3>12. /\ IsInjective(weaks')
           /\ phase' \in {"weak1", "weak2"} => weak_prev' = None \/ weak_prev' \in Range(weaks')
           /\ \A k \in DOMAIN weaks', i \in Field : Cleaned(k)' => SafeOrNone(mem[weaks[k]].f[i])'
           /\ \A k \in DOMAIN weaks' : Passed(k)' => weaks'[k] \in Safe'
      BY <1>0, <1>3, <2>2, <3>1, <3>2, <3>4, <3>5, <3>7, <3>8 DEF IInv, WeakInv, SafeOrNone
    <3> QED
      BY <3>10, <3>11, <3>12 DEF WeakInv
  <2> QED
    BY <2>3, <2>4 DEF Block
<1>13. UsesInv'
  BY <1>0 DEF IInv, UsesInv, Block
<1> QED
  BY <1>4, <1>5, <1>6, <1>7, <1>8, <1>9, <1>11, <1>12, <1>13 DEF IInv

\* caml_alloc_shr with the initialisation of a field.
LEMMA AllocShrStep ==
  ASSUME IInv, NEW r \in Root, NEW s \in Root, AllocShr(r, s)
  PROVE  IInv'
<1>1. PICK a \in Free :
        /\ mem' = [mem EXCEPT ![a] = [color |-> AllocationColor(a), kind |-> "plain",
                                     f |-> [i \in Field |-> IF i = 1 THEN root[s] ELSE None]]]
        /\ root' = [root EXCEPT ![r] = a]
        /\ ref_table' = IF root[s] \in Young THEN ref_table \cup {<<a, 1>>} ELSE ref_table
  BY DEF AllocShr
<1>2. UNCHANGED <<young, weak_ref_table, marker, extras>>
  BY DEF AllocShr
<1> DEFINE b == [color |-> AllocationColor(a), kind |-> "plain",
                 f |-> [i \in Field |-> IF i = 1 THEN root[s] ELSE None]]
<1>3. root[s] \in Value /\ SafeOrNone(root[s]) /\ None \in Value /\ SafeOrNone(None) /\ a \in Major
  BY RootsAreSafe, Places DEF SafeOrNone, Free
<1>4. b \in Block /\ b.color = AllocationColor(a) /\ b.kind = "plain"
      /\ \A i \in Field : b.f[i] = IF i = 1 THEN root[s] ELSE None
  <2>1. AllocationColor(a) \in {"white", "black"}
    BY DEF AllocationColor
  <2> QED
    BY <1>3, <2>1 DEF Block
<1>5. mem' = [mem EXCEPT ![a] = b]
  BY <1>1
<1> HIDE DEF b
<1>6. TypeOK'
  <2>1. 1 \in Field
    BY Places
  <2>2. mem' \in [Major -> Block]
    BY <1>3, <1>4, <1>5 DEF IInv, TypeOK
  <2>4. root' \in [Root -> Value]
    BY <1>1, <1>3, Places DEF IInv, TypeOK
  <2>3. ref_table' \subseteq Major \X Field
    BY <1>1, <1>3, <2>1 DEF IInv, TypeOK
  <2> QED
    BY <1>2, <2>2, <2>3, <2>4 DEF IInv, TypeOK, marker, extras
<1>7. root[s] \in Young => DOMAIN young # {}
  BY <1>3, KeptMajor, Places DEF SafeOrNone, Safe
<1>8. \A i \in Field : SafeOrNone(b.f[i])
  BY <1>3, <1>4
<1>9. \A i \in Field : b.f[i] \in Young => b.kind = "plain" /\ <<a, i>> \in ref_table'
  BY <1>1, <1>4, Places
<1>10. /\ root' = [root EXCEPT ![r] = a] /\ weaks' = weaks
       /\ UNCHANGED <<young, weak_ref_table, marker, weak_prev, final, gen, uses>>
       /\ ref_table \subseteq ref_table'
       /\ \A l \in ref_table' \ ref_table : l[1] = a /\ b.kind = "plain" /\ DOMAIN young # {}
  BY <1>1, <1>2, <1>4, <1>7 DEF extras
<1>11. b \in Block /\ b.color = AllocationColor(a) /\ b.kind = "plain"
  BY <1>4
<1>12. b.kind # "weak"
  BY <1>4
<1> QED
  BY <1>5, <1>6, <1>8, <1>9, <1>10, <1>11, <1>12, AllocStep

\* Weak.create links the array at the head of the list.
LEMMA WeakCreateStep ==
  ASSUME IInv, NEW r \in Root, WeakCreate(r)
  PROVE  IInv'
<1>1. PICK a \in Free :
        /\ mem' = [mem EXCEPT ![a] = [color |-> AllocationColor(a), kind |-> "weak",
                                     f |-> [i \in Field |-> None]]]
        /\ root' = [root EXCEPT ![r] = a]
        /\ weaks' = <<a>> \o weaks
  BY DEF WeakCreate
<1>2. UNCHANGED <<young, ref_table, weak_ref_table, marker, weak_prev, final, gen, uses>> /\ "weak" \in uses
  BY DEF WeakCreate
<1> DEFINE b == [color |-> AllocationColor(a), kind |-> "weak", f |-> [i \in Field |-> None]]
<1>3. None \in Value /\ SafeOrNone(None) /\ a \in Major /\ None \notin Young
  BY Places DEF SafeOrNone, Free
<1>4. b \in Block /\ b.color = AllocationColor(a) /\ b.kind = "weak" /\ \A i \in Field : b.f[i] = None
  <2>1. AllocationColor(a) \in {"white", "black"}
    BY DEF AllocationColor
  <2> QED
    BY <1>3, <2>1 DEF Block
<1>5. mem' = [mem EXCEPT ![a] = b]
  BY <1>1
<1> HIDE DEF b
<1>6. TypeOK'
  <2>1. mem' \in [Major -> Block]
    BY <1>3, <1>4, <1>5 DEF IInv, TypeOK
  <2>3. root' \in [Root -> Value]
    BY <1>1, <1>3, Places DEF IInv, TypeOK
  <2>2. weaks' \in Seq(Major)
    BY <1>1, <1>3 DEF IInv, TypeOK
  <2> QED
    BY <1>2, <2>1, <2>2, <2>3 DEF IInv, TypeOK, marker
<1>7. /\ root' = [root EXCEPT ![r] = a] /\ ref_table \subseteq ref_table'
      /\ \A l \in ref_table' \ ref_table : l[1] = a /\ b.kind = "plain" /\ DOMAIN young # {}
      /\ b.kind = "weak" => /\ weaks' = <<a>> \o weaks /\ "weak" \in uses
                            /\ \A i \in Field : b.f[i] = None
  BY <1>1, <1>2, <1>4
<1>8. \A i \in Field : SafeOrNone(b.f[i]) /\ b.f[i] \notin Young
  BY <1>3, <1>4
<1>9. b \in Block /\ b.color = AllocationColor(a) /\ b.kind # "plain"
  BY <1>4
<1> QED
  BY <1>2, <1>5, <1>6, <1>7, <1>8, <1>9, AllocStep

\* Every step of the program keeps the invariant.
LEMMA ProgramStep ==
  ASSUME IInv, Program
  PROVE  IInv'
<1>1. ASSUME NEW r \in Root, AllocSmall(r) \/ Drop(r) \/ WeakCreate(r) \/ FinalRegister(r)
                             \/ FinalCall(r) \/ GenLoad(r)
      PROVE  IInv'
  BY <1>1, AllocSmallStep, RootSteps, WeakCreateStep, FinalSteps
<1>2. ASSUME NEW r \in Root, NEW s \in Root, AllocShr(r, s) PROVE IInv'
  BY <1>2, AllocShrStep
<1>3. ASSUME NEW r \in Root, NEW s \in Root, NEW i \in Field,
             Load(r, s, i) \/ WeakGet(r, s, i) \/ WeakGetCopy(r, s, i)
      PROVE  IInv'
  <2>1. CASE Load(r, s, i)
    BY <2>1, RootSteps
  <2>2. CASE WeakGet(r, s, i)
    BY <2>2, WeakGetStep
  <2>3. CASE WeakGetCopy(r, s, i)
    BY <2>3, WeakGetCopyStep
  <2> QED
    BY <1>3, <2>1, <2>2, <2>3
<1>4. ASSUME NEW s \in Root, NEW i \in Field, NEW v \in Operand, Store(s, i, v) \/ WeakSet(s, i, v)
      PROVE  IInv'
  BY <1>4, StoreStep, WeakSetStep
<1>5. ASSUME NEW s \in Root, NEW d \in Root, NEW i \in Field, NEW j \in Field, WeakBlit(s, i, d, j)
      PROVE  IInv'
  BY <1>5, WeakBlitStep
<1>6. ASSUME GenRemove \/ \E v \in Operand : GenRegister(v) \/ GenModify(v) PROVE IInv'
  BY <1>6, GenSteps
<1> QED
  BY <1>1, <1>2, <1>3, <1>4, <1>5, <1>6 DEF Program

-----------------------------------------------------------------------------
(* The major collection *)

\* What a turn of the collector leaves to show that changes the use of nothing.
LEMMA SameSafe ==
  ASSUME IInv, TypeOK', GrayInv', PhaseInv', HeapInv', WeakInv', Slice, Safe' = Safe,
         UNCHANGED <<young, root, ref_table, weak_ref_table, final, gen, uses>>,
         phase' \in {"final", "sweep"} => phase \in {"final", "sweep"},
         \A a \in Major :
            \/ /\ mem'[a].kind = mem[a].kind
               /\ mem'[a].color = "free" <=> mem[a].color = "free"
               /\ mem[a].kind = "plain" => mem'[a].f = mem[a].f
               /\ \A i \in Field : mem'[a].f[i] = mem[a].f[i] \/ mem'[a].f[i] = None
            \/ mem'[a] = FreeBlock /\ a \notin Safe /\ phase = "sweep"
  PROVE  IInv'
<1>0. DOMAIN young = {}
  BY DEF Slice
<1>1. FreeInv'
  <2> SUFFICES ASSUME NEW a \in Major, mem'[a].color = "free", mem'[a] # FreeBlock PROVE mem'[a] = FreeBlock
    BY DEF FreeInv
  <2>1. mem[a] = FreeBlock /\ mem'[a].kind = mem[a].kind
    BY DEF IInv, FreeInv
  <2>2. mem'[a].f = mem[a].f /\ mem'[a].kind = "plain"
    BY <2>1 DEF FreeBlock
  <2>3. mem'[a] \in Block
    BY DEF TypeOK
  <2> QED
    BY <2>1, <2>2, <2>3 DEF FreeBlock, Block
<1>2. RootInv'
  BY DEF IInv, RootInv, SafeOrNone, GenValue
<1>3. ClosedInv'
  <2> SUFFICES ASSUME NEW o \in Safe, Scanned(o)', NEW i \in Field PROVE SafeOrNone(Content(o)[i])'
    BY DEF ClosedInv
  <2>1. o \in Kept /\ o \in Major
    BY <1>0, KeptMajor DEF Safe
  <2>2. mem'[o].kind = "plain" /\ Content(o)' = mem'[o].f
    BY <1>0, <2>1, Places DEF Scanned, Content
  <2>3. mem[o].kind = "plain" /\ mem'[o].f = mem[o].f
    BY <2>1, <2>2
  <2>4. SafeOrNone(mem[o].f[i])
    BY <2>1, <2>3, ClosedGives DEF IInv
  <2> QED
    BY <2>2, <2>3, <2>4 DEF SafeOrNone
<1>4. OldInv'
  <2> SUFFICES ASSUME NEW v \in final.old
               PROVE  v \in Major /\ mem'[v].color # "free" /\ (phase' \in {"final", "sweep"} => v \in Safe)
    BY DEF IInv, OldInv, Allocated
  <2>1. v \in Major /\ mem[v].color # "free" /\ (phase \in {"final", "sweep"} => v \in Safe)
    BY <1>0 DEF IInv, OldInv, Allocated
  <2> QED
    BY <2>1
<1>5. GenInv'
  BY DEF IInv, GenInv
<1>6. RememberInv'
  <2>1. ref_table' = {} /\ weak_ref_table' = {} /\ DOMAIN young' = {}
    BY <1>0 DEF IInv, RememberInv
  <2>2. \A a \in Major, i \in Field : mem'[a].f[i] \notin Young
    BY <1>0, Places DEF IInv, RememberInv, FreeBlock
  <2> QED
    BY <2>1, <2>2 DEF RememberInv
<1>7. UsesInv'
  <2>1. ASSUME "weak" \notin uses PROVE weaks' = << >> /\ \A a \in Major : mem'[a].kind = "plain"
    <3>1. \A a \in Major : mem'[a].kind = "plain"
      BY <2>1 DEF IInv, UsesInv, FreeBlock
    <3>2. \A k \in DOMAIN weaks' : weaks'[k] \in Major /\ mem'[weaks'[k]].kind = "weak"
      BY DEF WeakInv, IsWeak
    <3>3. DOMAIN weaks' = {} /\ weaks' \in Seq(Major)
      BY <3>1, <3>2 DEF TypeOK
    <3> QED
      BY <3>1, <3>3
  <2> QED
    BY <2>1 DEF IInv, UsesInv
<1> QED
  BY <1>1, <1>2, <1>3, <1>4, <1>5, <1>6, <1>7 DEF IInv

\* A step that leaves the arrays, their list and Safe alone.
LEMMA WeakSame ==
  ASSUME IInv, Safe' = Safe, UNCHANGED <<phase, weaks, weak_prev>>,
         \A a \in Major : IsWeak(a)' <=> IsWeak(a),
         \A a \in Major : mem'[a].f = mem[a].f
  PROVE  WeakInv'
<1>1. \A k \in DOMAIN weaks : weaks[k] \in Major
  BY DEF IInv, TypeOK
<1>2. \A k : (Cleaned(k)' <=> Cleaned(k)) /\ (Passed(k)' <=> Passed(k))
  BY DEF Cleaned, Passed, WeakAt
<1> QED
  BY <1>1, <1>2 DEF IInv, WeakInv, SafeOrNone

\* When the marker has run out of work.
LEMMA AtDone ==
  ASSUME IInv, Done
  PROVE  /\ \A a \in Major : mem[a].color # "gray"
         /\ Kept = {a \in Major : mem[a].color = "black"}
         /\ DOMAIN young = {} /\ Marking /\ gray = << >> /\ markhp = None /\ pure
<1>1. DOMAIN young = {} /\ Marking /\ gray = << >> /\ markhp = None /\ pure
  BY DEF Done, Exhausted, Slice
<1>2. \A a \in Major : mem[a].color # "gray"
  BY <1>1 DEF IInv, GrayInv, GrayIsFound, Range
<1> QED
  BY <1>1, <1>2, MarkedAtEnd, MarkingIs DEF IInv

\* Blackening the top of the stack and pushing its children.
LEMMA MarkTopStep ==
  ASSUME IInv, MarkTop
  PROVE  IInv'
<1> DEFINE v == Last(gray)
           g == Front(gray)
           m == Colored(mem, v, "black")
           s == [mem |-> m, gray |-> g, pure |-> pure]
           V == IF Scanned(v) THEN Range(mem[v].f) ELSE {}
<1>1. /\ Slice /\ Marking /\ gray # << >>
      /\ UNCHANGED <<young, root, ref_table, weak_ref_table, markhp, phase, sweep_hp, extras>>
      /\ run' = FALSE
  BY DEF MarkTop
<1>2. PICK t \in (IF Scanned(v) THEN ShadeAll(s, mem[v].f, {}) ELSE {s}) : Becomes(t)
  BY DEF MarkTop
<1>3. /\ gray \in Seq(Major) /\ Len(gray) \in Nat \ {0} /\ v = gray[Len(gray)]
      /\ g \in Seq(Major) /\ Len(g) = Len(gray) - 1 /\ \A k \in 1 .. Len(gray) - 1 : g[k] = gray[k]
  <2>1. gray \in Seq(Major) /\ Len(gray) \in Nat \ {0}
    BY <1>1 DEF IInv, TypeOK
  <2>2. v = gray[Len(gray)] /\ g = SubSeq(gray, 1, Len(gray) - 1)
    BY DEF Last, Front
  <2> HIDE DEF v, g
  <2>3. PICK n \in Nat : n = Len(gray) - 1
    BY <2>1
  <2>4. g \in Seq(Major) /\ Len(g) = n /\ \A k \in 1 .. n : g[k] = gray[k]
    BY <2>1, <2>2, <2>3
  <2> QED
    BY <2>1, <2>2, <2>3, <2>4
<1>4. /\ v \in Major /\ mem[v].color = "gray" /\ mem \in [Major -> Block]
      /\ mem[v].f \in [Field -> Value]
  BY <1>3 DEF IInv, GrayInv, GrayIsFound, Range, TypeOK, Block
<1>5. /\ m \in [Major -> Block] /\ m[v].color = "black" /\ m[v].kind = mem[v].kind /\ m[v].f = mem[v].f
      /\ \A a \in Major : a # v => m[a] = mem[a]
  BY <1>4, SetColor
<1> HIDE DEF v, g, m
<1>6. s \in MarkerT
  BY <1>3, <1>5 DEF MarkerT, IInv, TypeOK
<1>7. GrayOf(s)
  <2>1. DOMAIN g = 1 .. Len(gray) - 1 /\ DOMAIN gray = 1 .. Len(gray)
    BY <1>3
  <2>2. \A j, k \in DOMAIN g : g[j] = g[k] => j = k
    BY <1>3, <2>1 DEF IInv, GrayInv, IsInjective
  <2>3. ASSUME NEW k \in DOMAIN g PROVE m[g[k]].color = "gray"
    <3>1. k \in DOMAIN gray /\ Len(gray) \in DOMAIN gray /\ k # Len(gray) /\ g[k] = gray[k]
      BY <1>3, <2>1
    <3>2. g[k] # v /\ g[k] \in Major /\ mem[g[k]].color = "gray"
      BY <1>3, <3>1 DEF IInv, GrayInv, GrayIsFound, IsInjective, Range
    <3> QED
      BY <1>5, <3>2
  <2>4. ASSUME pure, NEW a \in Major, m[a].color = "gray"
        PROVE  (\E k \in DOMAIN g : g[k] = a) \/ (markhp # None /\ a >= markhp)
    <3>1. a # v /\ mem[a].color = "gray"
      BY <1>5, <2>4
    <3>2. a \in Range(gray) \/ (markhp # None /\ a >= markhp)
      BY <2>4, <3>1 DEF IInv, GrayInv, GrayIsFound
    <3>3. ASSUME NEW k \in DOMAIN gray, gray[k] = a PROVE k \in DOMAIN g /\ g[k] = a
      <4>1. k # Len(gray) /\ k \in 1 .. Len(gray)
        BY <1>3, <2>1, <3>1, <3>3
      <4>2. k \in 1 .. Len(gray) - 1
        BY <1>3, <4>1
      <4> QED
        BY <1>3, <2>1, <3>3, <4>2
    <3> QED
      BY <3>2, <3>3 DEF Range
  <2> QED
    BY <2>2, <2>3, <2>4 DEF GrayOf
<1>8. /\ t \in MarkerT /\ GrayOf(t) /\ Darker(m, t.mem, V)
      /\ \A u \in V : u \in Major => t.mem[u].color # "white"
  <2>0. s.mem = m
    OBVIOUS
  <2> HIDE DEF s
  <2>1. CASE Scanned(v)
    <3>1. Len(mem[v].f) \in Nat /\ DOMAIN mem[v].f = 1 .. Len(mem[v].f)
      BY <1>4, GcAssumption DEF Field
    <3>2. t \in ShadeAll(s, mem[v].f, {}) /\ V = Range(mem[v].f)
      BY <1>2, <2>1
    <3> QED
      BY <1>6, <1>7, <2>0, <3>1, <3>2, ShadeAllIs
  <2>2. CASE ~ Scanned(v)
    <3>1. t = s /\ V = {}
      BY <1>2, <2>2
    <3> QED
      BY <1>5, <1>6, <1>7, <2>0, <3>1 DEF Darker
  <2> QED
    BY <2>1, <2>2
<1> HIDE DEF s
<1>9. mem' = t.mem /\ gray' = t.gray /\ pure' = t.pure
  BY <1>2 DEF Becomes
<1>10. /\ mem' \in [Major -> Block] /\ gray' \in Seq(Major) /\ pure' \in BOOLEAN
       /\ \A a \in Major :
            /\ mem'[a].kind = mem[a].kind /\ mem'[a].f = mem[a].f
            /\ \/ a = v /\ mem'[a].color = "black"
               \/ a # v /\ mem'[a].color = mem[a].color
               \/ /\ a # v /\ a \in V /\ mem[a].color = "white"
                  /\ mem'[a].color = "gray" \/ (mem'[a].color = "black" /\ mem[a].kind = "weak")
  BY <1>5, <1>8, <1>9 DEF MarkerT, Darker
<1>11. GrayInv'
  BY <1>1, <1>8, <1>9 DEF GrayOf, GrayInv, GrayIsFound, IsInjective, Range
<1>12. TypeOK'
  BY <1>1, <1>10 DEF IInv, TypeOK, extras
<1>13. Scanned(v) <=> mem[v].kind = "plain"
  BY <1>1, <1>4 DEF Scanned, Slice
<1>14. Safe' = Safe
  <2> DEFINE C == Marked(mem)
             D == Marked(mem')
  <2>0. /\ Kept = C /\ Kept' = D /\ C \subseteq Major /\ D \subseteq Major
        /\ IsMarking(mem, C) /\ IsMarking(mem', D)
    BY <1>1, MarkingIs, MarkedIs DEF IInv, Kept, TypeOK, Marking
  <2> HIDE DEF C, D
  <2>1. IsMarking(mem', C)
    <3>1. ASSUME NEW a \in Major, mem'[a].color \in {"gray", "black"} PROVE a \in C
      <4>1. CASE a = v \/ mem'[a].color = mem[a].color
        BY <1>4, <2>0, <3>1, <4>1 DEF IsMarking
      <4>2. CASE a \in V
        <5>1. Scans(mem[v])
          BY <1>4, <1>13, <4>2 DEF Scans
        <5>2. PICK i \in Field : a = mem[v].f[i]
          BY <1>4, <4>2 DEF Range
        <5> QED
          BY <1>4, <2>0, <3>1, <5>1, <5>2 DEF IsMarking
      <4> QED
        BY <1>10, <4>1, <4>2
    <3>2. ASSUME NEW a \in Major, a \in C, Scans(mem'[a]), NEW i \in Field, mem'[a].f[i] \in Major
          PROVE  mem'[a].f[i] \in C
      <4>1. Scans(mem[a]) /\ mem'[a].f = mem[a].f
        BY <1>4, <1>10, <3>2 DEF Scans
      <4> QED
        BY <2>0, <3>2, <4>1 DEF IsMarking
    <3> QED
      BY <3>1, <3>2 DEF IsMarking
  <2>2. IsMarking(mem, D)
    <3>1. ASSUME NEW a \in Major, mem[a].color \in {"gray", "black"} PROVE a \in D
      <4>1. mem'[a].color \in {"gray", "black"}
        BY <1>10, <3>1
      <4> QED
        BY <2>0, <4>1 DEF IsMarking
    <3>2. ASSUME NEW a \in Major, a \in D, Scans(mem[a]), NEW i \in Field, mem[a].f[i] \in Major
          PROVE  mem[a].f[i] \in D
      <4> DEFINE u == mem[a].f[i]
      <4>1. CASE a = v
        <5>1. u \in V /\ u \in Major
          BY <1>4, <1>13, <3>2, <4>1 DEF Scans, Range
        <5>2. mem[u].color # "free"
          <6>1. Allocated(u)
            BY <1>1, <3>2, Places DEF IInv, HeapInv, Marking
          <6> QED
            BY <5>1, <6>1, Places DEF Allocated, IInv, TypeOK
        <5>3. mem'[u].color # "white" /\ mem'[u].color # "free"
          BY <1>8, <1>9, <1>10, <5>1, <5>2
        <5>4. mem'[u].color \in {"gray", "black"}
          BY <1>10, <5>1, <5>3 DEF Block
        <5> QED
          BY <2>0, <5>1, <5>4 DEF IsMarking
      <4>2. CASE a # v
        <5>1. Scans(mem'[a]) /\ mem'[a].f = mem[a].f
          BY <1>10, <3>2, <4>2 DEF Scans
        <5> QED
          BY <2>0, <3>2, <5>1 DEF IsMarking
      <4> QED
        BY <4>1, <4>2
    <3> QED
      BY <3>1, <3>2 DEF IsMarking
  <2>3. D \subseteq C
    BY <2>0, <2>1, MarkedLeast DEF D
  <2>4. C \subseteq D
    BY <2>0, <2>2, MarkedLeast DEF C
  <2> QED
    BY <1>1, <2>0, <2>3, <2>4 DEF Safe
<1>15. PhaseInv'
  BY <1>1 DEF PhaseInv, Marking
<1>16. \A a \in Major : mem'[a].color = "free" <=> mem[a].color = "free"
  BY <1>4, <1>10
<1>17. HeapInv'
  BY <1>1, <1>10, <1>16 DEF IInv, HeapInv, Allocated
<1>18. WeakInv'
  <2>1. \A a \in Major : IsWeak(a)' <=> IsWeak(a)
    BY <1>10, <1>16 DEF IsWeak
  <2> QED
    BY <1>1, <1>10, <1>14, <2>1, WeakSame DEF extras
<1> HIDE DEF V
<1>19. \A a \in Major :
         /\ mem'[a].kind = mem[a].kind
         /\ mem'[a].color = "free" <=> mem[a].color = "free"
         /\ mem'[a].f = mem[a].f
  BY <1>10, <1>16
<1> QED
  BY <1>1, <1>11, <1>12, <1>14, <1>15, <1>17, <1>18, <1>19, SameSafe DEF extras

\* A turn that leaves the heap alone, between two phases of marking or in one.
LEMMA MarkingTurn ==
  ASSUME IInv, TypeOK', GrayInv', WeakInv', Slice, Marking, Marking',
         UNCHANGED <<heap, root, final, gen, uses>>, phase' = "final" => phase = "final"
  PROVE  IInv'
<1>1. Safe' = Safe
  BY MarkingIs DEF Safe, Kept, Marking, IInv, heap
<1>2. PhaseInv' /\ HeapInv'
  BY DEF PhaseInv, Marking, IInv, HeapInv, Allocated, heap
<1>3. phase' \in {"final", "sweep"} => phase \in {"final", "sweep"}
  BY DEF Marking
<1> QED
  BY <1>1, <1>2, <1>3, SameSafe DEF heap

\* A turn of the walk of the heap.
LEMMA MarkHeapStep ==
  ASSUME IInv, MarkHeap
  PROVE  IInv'
<1>1. /\ Slice /\ Marking /\ gray = << >> /\ markhp # None
      /\ UNCHANGED <<heap, root, pure, phase, sweep_hp, extras>> /\ run' = TRUE
      /\ IF markhp > M THEN markhp' = None /\ gray' = gray
         ELSE /\ gray' = IF mem[markhp].color = "gray" THEN <<markhp>> ELSE gray
              /\ markhp' = markhp + 1
  BY DEF MarkHeap, Exhausted
<1>2. markhp \in Nat /\ M \in Nat /\ Range(gray) = {} /\ None = 0 /\ markhp \in 0 .. M + 1
  BY <1>1, Places DEF IInv, TypeOK, None, Range
<1>3. markhp <= M => markhp \in Major
  BY <1>1, <1>2 DEF Major
<1>4. gray' \in Seq(Major) /\ markhp' \in 0 .. M + 1
  <2>1. << >> \in Seq(Major) /\ (markhp <= M => <<markhp>> \in Seq(Major))
    BY <1>3
  <2>2. gray' \in Seq(Major)
    <3>1. gray' = << >> \/ (markhp <= M /\ gray' = <<markhp>>)
      BY <1>1, <1>2
    <3> QED
      BY <2>1, <3>1
  <2>3. markhp' \in 0 .. M + 1
    BY <1>1, <1>2
  <2> QED
    BY <2>2, <2>3
<1>5. TypeOK'
  BY <1>1, <1>4 DEF IInv, TypeOK, heap, extras
<1>6. GrayInv'
  <2>1. CASE markhp > M
    <3>1. \A a \in Major : a <= M
      BY <1>2 DEF Major
    <3>2. pure => \A a \in Major : mem[a].color # "gray"
      BY <1>1, <1>2, <2>1, <3>1, Places DEF IInv, GrayInv, GrayIsFound
    <3> QED
      BY <1>1, <2>1, <3>2 DEF IInv, GrayInv, GrayIsFound, heap
  <2>2. CASE ~ (markhp > M) /\ mem[markhp].color = "gray"
    <3>1. gray' = <<markhp>> /\ markhp' = markhp + 1 /\ mem' = mem /\ pure' = pure
      BY <1>1, <2>2 DEF heap
    <3>2. DOMAIN gray' = {1} /\ Range(gray') = {markhp}
      BY <3>1 DEF Range
    <3>3. pure => \A a \in Major : mem[a].color = "gray" => a = markhp \/ a >= markhp + 1
      <4>1. pure => \A a \in Major : mem[a].color = "gray" => a >= markhp
        BY <1>2 DEF IInv, GrayInv, GrayIsFound
      <4>2. \A a \in Major : a \in Nat /\ (a >= markhp => a = markhp \/ a >= markhp + 1)
        BY <1>2, Places
      <4> QED
        BY <4>1, <4>2
    <3>4. markhp' # None
      BY <1>2, <3>1
    <3> QED
      BY <2>2, <3>1, <3>2, <3>3, <3>4 DEF GrayInv, GrayIsFound, IsInjective
  <2>3. CASE ~ (markhp > M) /\ mem[markhp].color # "gray"
    <3>1. gray' = gray /\ markhp' = markhp + 1 /\ mem' = mem /\ pure' = pure
      BY <1>1, <2>3 DEF heap
    <3>2. pure => \A a \in Major : mem[a].color = "gray" => a >= markhp + 1
      BY <1>2, <2>3, Places DEF IInv, GrayInv, GrayIsFound
    <3>3. markhp' # None
      BY <1>2, <3>1
    <3> QED
      BY <3>1, <3>2, <3>3 DEF IInv, GrayInv, GrayIsFound
  <2> QED
    BY <2>1, <2>2, <2>3
<1>7. Safe' = Safe
  BY <1>1 DEF Safe, Kept, heap
<1>8. WeakInv'
  BY <1>1, <1>7, WeakSame DEF IsWeak, heap, extras
<1> QED
  BY <1>1, <1>5, <1>6, <1>8, MarkingTurn DEF Marking, extras

\* The walk of the heap starts again after an overflow.
LEMMA RestartPureStep ==
  ASSUME IInv, RestartPure
  PROVE  IInv'
<1>1. /\ Slice /\ Marking /\ pure' = TRUE /\ markhp' = 1 /\ run' = TRUE
      /\ UNCHANGED <<heap, root, gray, phase, sweep_hp, extras>>
  BY DEF RestartPure, Exhausted
<1>2. TypeOK'
  BY <1>1, Places DEF IInv, TypeOK, heap, extras
<1>3. GrayInv'
  BY <1>1, GcAssumption DEF IInv, GrayInv, GrayIsFound, heap, Major, None
<1>4. Safe' = Safe
  BY <1>1 DEF Safe, Kept, heap
<1>5. WeakInv'
  BY <1>1, <1>4, WeakSame DEF IsWeak, heap, extras
<1> QED
  BY <1>1, <1>2, <1>3, <1>5, MarkingTurn DEF Marking, extras

\* Nothing is left to mark: the weak arrays come next.
LEMMA EndMainStep ==
  ASSUME IInv, EndMain
  PROVE  IInv'
<1>1. /\ Slice /\ Marking /\ phase = "main" /\ phase' = "weak1" /\ weak_prev' = None /\ run' = TRUE
      /\ UNCHANGED <<heap, root, gray, pure, markhp, sweep_hp, weaks, final, gen, uses>>
  BY DEF EndMain, Done, Exhausted
<1>2. TypeOK'
  BY <1>1, Places DEF IInv, TypeOK, heap, None
<1>3. GrayInv' /\ Marking'
  BY <1>1 DEF IInv, GrayInv, GrayIsFound, heap, Marking
<1>4. Safe' = Safe
  BY <1>1 DEF Safe, Kept, heap
<1>5. WeakInv'
  <2>1. WeakAt' = 1
    BY <1>1 DEF WeakAt
  <2>2. \A k \in DOMAIN weaks' : ~ Cleaned(k)' /\ ~ Passed(k)'
    BY <1>1, <2>1 DEF Cleaned, Passed, IInv, TypeOK
  <2> QED
    BY <1>1, <1>4, <2>2 DEF IInv, WeakInv, IsWeak, heap
<1> QED
  BY <1>1, <1>2, <1>3, <1>5, MarkingTurn

\* The place of weak_prev and what follows it.
LEMMA WeakNext ==
  ASSUME IInv, phase \in {"weak1", "weak2"}, ~ WeakEnd
  PROVE  /\ WeakAt \in DOMAIN weaks /\ WeakCur = weaks[WeakAt] /\ WeakCur \in Major
         /\ IsWeak(WeakCur) /\ weaks \in Seq(Major) /\ IsInjective(weaks)
         /\ weak_prev # None => WeakAt - 1 \in DOMAIN weaks /\ weaks[WeakAt - 1] = weak_prev
         /\ weak_prev = None => WeakAt = 1
<1>1. weak_prev = None \/ weak_prev \in Range(weaks)
  BY DEF IInv, WeakInv
<1>2. /\ weak_prev = None => WeakAt = 1
      /\ weak_prev # None => \E k \in DOMAIN weaks : weaks[k] = weak_prev /\ WeakAt = k + 1
  BY <1>1, WeakAtIs DEF IInv, WeakInv
<1>3. weaks \in Seq(Major) /\ Len(weaks) \in Nat /\ DOMAIN weaks = 1 .. Len(weaks) /\ IsInjective(weaks)
  BY DEF IInv, TypeOK, WeakInv
<1>4. WeakAt \in Nat /\ WeakAt >= 1
  BY <1>2, <1>3
<1>5. WeakAt \in DOMAIN weaks
  BY <1>3, <1>4 DEF WeakEnd
<1>6. weak_prev # None => WeakAt - 1 \in DOMAIN weaks /\ weaks[WeakAt - 1] = weak_prev
  BY <1>2, <1>3
<1> QED
  BY <1>2, <1>3, <1>5, <1>6 DEF WeakCur, IInv, WeakInv

\* An array is cleared of its dead values: all the values it keeps are black.
LEMMA WeakCleanStep ==
  ASSUME IInv, WeakClean
  PROVE  IInv'
<1> DEFINE c == WeakCur
           n == WeakAt
           f == [i \in Field |-> IF Dead(mem[c].f[i]) THEN None ELSE mem[c].f[i]]
<1>1. /\ Done /\ Slice /\ phase = "weak1" /\ ~ WeakEnd
      /\ mem' = [mem EXCEPT ![c].f = f]
      /\ weak_prev' = c /\ run' = FALSE
      /\ UNCHANGED <<young, ref_table, weak_ref_table, root, gray, pure, markhp, phase, sweep_hp,
                     weaks, final, gen, uses>>
  BY DEF WeakClean, Done, Exhausted
<1>2. /\ n \in DOMAIN weaks /\ c = weaks[n] /\ c \in Major /\ IsWeak(c) /\ IsInjective(weaks)
      /\ weaks \in Seq(Major) /\ n \in Nat
  BY <1>1, WeakNext DEF IInv, TypeOK
<1>3. /\ \A a \in Major : mem[a].color # "gray"
      /\ Kept = {a \in Major : mem[a].color = "black"}
      /\ DOMAIN young = {} /\ Marking /\ gray = << >> /\ markhp = None /\ pure
  BY <1>1, AtDone
<1> HIDE DEF c, n
<1>4. f \in [Field -> Value] /\ mem \in [Major -> Block]
  BY <1>2, Places DEF IInv, TypeOK, Block
<1>5. /\ mem' \in [Major -> Block] /\ mem'[c].f = f
      /\ \A a \in Major : mem'[a].color = mem[a].color /\ mem'[a].kind = mem[a].kind
      /\ \A a \in Major : a # c => mem'[a] = mem[a]
  <2> DEFINE b == [mem[c] EXCEPT !.f = f]
  <2>1. mem' = [mem EXCEPT ![c] = b]
    BY <1>1
  <2>2. b \in Block /\ b.color = mem[c].color /\ b.kind = mem[c].kind /\ b.f = f
    BY <1>2, <1>4 DEF Block
  <2> HIDE DEF b, f
  <2> QED
    BY <1>2, <1>4, <2>1, <2>2
<1>6. \A a \in Major, i \in Field :
        mem'[a].f[i] = mem[a].f[i] \/ (a = c /\ mem'[a].f[i] = None)
  BY <1>5
<1>7. \A i \in Field : ~ Dead(mem'[c].f[i])
  <2> SUFFICES ASSUME NEW i \in Field PROVE ~ Dead(f[i])
    BY <1>5
  <2> QED
    BY Places DEF Dead
<1> HIDE DEF f
<1>8. TypeOK'
  <2>1. weak_prev' \in 0 .. M
    BY <1>1, <1>2, Places DEF Major
  <2> QED
    BY <1>1, <1>5, <2>1 DEF IInv, TypeOK
<1>9. GrayInv'
  BY <1>1, <1>3, <1>5 DEF IInv, GrayInv, GrayIsFound, Range
<1>10. Safe' = Safe
  <2>1. mem[c].kind = "weak"
    BY <1>2 DEF IsWeak
  <2>2. Marked(mem') = Marked(mem)
    BY <1>5, <2>1, WeakDoesNotMark
  <2> QED
    BY <1>1, <2>2 DEF Safe, Kept
<1>11. PhaseInv'
  BY <1>1, <1>3 DEF PhaseInv, Marking
<1>12. HeapInv'
  <2>1. \A v : Allocated(v)' <=> Allocated(v)
    BY <1>1, <1>5 DEF Allocated
  <2> QED
    BY <1>1, <1>6, <2>1 DEF IInv, HeapInv
<1>13. WeakInv'
  <2>1. WeakAt' = n + 1
    <3>1. weak_prev' # None
      BY <1>1, <1>2, Places
    <3>2. (CHOOSE j \in DOMAIN weaks : weaks[j] = weaks[n]) = n
      BY <1>2, PlaceIs
    <3>3. weak_prev' = weaks[n] /\ weaks' = weaks
      BY <1>1, <1>2
    <3>4. WeakAt' = 1 + n
      BY <3>1, <3>2, <3>3 DEF WeakAt
    <3> QED
      BY <1>2, <3>4
  <2>2. ASSUME NEW k \in DOMAIN weaks, NEW i \in Field, Cleaned(k)'
        PROVE  mem'[weaks[k]].f[i] = None \/ mem'[weaks[k]].f[i] \in Safe
    <3>1. k < n + 1 /\ k \in Nat
      BY <1>1, <1>2, <2>1, <2>2 DEF Cleaned
    <3>2. CASE k = n
      <4> DEFINE v == mem'[c].f[i]
      <4>1. v \in Value /\ ~ Dead(v) /\ (v = None \/ v = mem[c].f[i])
        BY <1>2, <1>5, <1>6, <1>7 DEF Block
      <4> HIDE DEF v
      <4>2. v = None \/ Allocated(v)
        BY <1>1, <1>2, <4>1 DEF IInv, HeapInv
      <4>3. v = None \/ (v \in Major /\ mem[v].color = "black")
        BY <1>3, <1>4, <4>1, <4>2, Places DEF Allocated, Dead, Block
      <4> QED
        BY <1>2, <1>3, <3>2, <4>3 DEF Safe, v
    <3>3. CASE k # n
      <4>1. k < n
        BY <1>2, <3>1, <3>3
      <4>2. Cleaned(k)
        BY <1>1, <4>1 DEF Cleaned, n
      <4>3. SafeOrNone(mem[weaks[k]].f[i])
        BY <4>2 DEF IInv, WeakInv
      <4>4. weaks[k] \in Major
        BY <1>2
      <4> QED
        BY <1>6, <4>3, <4>4 DEF SafeOrNone
    <3> QED
      BY <3>2, <3>3
  <2>3. \A k \in DOMAIN weaks : ~ Passed(k)'
    BY <1>1 DEF Passed
  <2>4. \A a : IsWeak(a)' <=> IsWeak(a)
    BY <1>5 DEF IsWeak
  <2>5. c \in Range(weaks)
    BY <1>2 DEF Range
  <2>6. ASSUME NEW a \in Major, IsWeak(a) PROVE a \in Range(weaks)
    BY <1>1, <2>6 DEF IInv, WeakInv
  <2>7. \A k \in DOMAIN weaks : IsWeak(weaks[k])
    BY DEF IInv, WeakInv
  <2> QED
    BY <1>1, <1>2, <1>10, <2>2, <2>3, <2>4, <2>5, <2>6, <2>7 DEF WeakInv, SafeOrNone
<1>14. \A a \in Major :
         /\ mem'[a].kind = mem[a].kind
         /\ mem'[a].color = "free" <=> mem[a].color = "free"
         /\ mem[a].kind = "plain" => mem'[a].f = mem[a].f
         /\ \A i \in Field : mem'[a].f[i] = mem[a].f[i] \/ mem'[a].f[i] = None
  BY <1>2, <1>5, <1>6 DEF IsWeak
<1>15. phase' \notin {"final", "sweep"}
  BY <1>1
<1> QED
  BY <1>1, <1>8, <1>9, <1>10, <1>11, <1>12, <1>13, <1>14, <1>15, SameSafe

\* All arrays are cleared.
LEMMA EndWeakCleanStep ==
  ASSUME IInv, EndWeakClean
  PROVE  IInv'
<1>1. /\ Slice /\ Marking /\ phase = "weak1" /\ WeakEnd /\ phase' = "weak2" /\ weak_prev' = None
      /\ UNCHANGED <<heap, root, gray, pure, markhp, sweep_hp, weaks, final, gen, uses>> /\ run' = TRUE
  BY DEF EndWeakClean, Done, Exhausted
<1>2. TypeOK'
  BY <1>1, Places DEF IInv, TypeOK, heap, None
<1>3. GrayInv' /\ Marking'
  BY <1>1 DEF IInv, GrayInv, GrayIsFound, heap, Marking
<1>4. Safe' = Safe
  BY <1>1 DEF Safe, Kept, heap
<1>5. WeakInv'
  <2>1. WeakAt' = 1
    BY <1>1 DEF WeakAt
  <2>2. \A k \in DOMAIN weaks : k \in Nat /\ k <= Len(weaks) /\ k >= 1 /\ Len(weaks) \in Nat
    BY DEF IInv, TypeOK
  <2>3. WeakAt \in Nat
    <3>1. weak_prev = None \/ weak_prev \in Range(weaks)
      BY <1>1 DEF IInv, WeakInv
    <3> QED
      BY <2>2, <3>1, WeakAtIs DEF IInv, WeakInv
  <2>4. \A k \in DOMAIN weaks : Cleaned(k)
    BY <1>1, <2>2, <2>3 DEF Cleaned, WeakEnd
  <2>5. \A k \in DOMAIN weaks : ~ Passed(k)'
    BY <1>1, <2>1, <2>2 DEF Passed
  <2> QED
    BY <1>1, <1>4, <2>4, <2>5 DEF IInv, WeakInv, IsWeak, heap, SafeOrNone
<1> QED
  BY <1>1, <1>2, <1>3, <1>5, MarkingTurn

\* A sequence without one element.
LEMMA RemoveAtIs ==
  ASSUME NEW w \in Seq(Major), NEW n \in 1 .. Len(w)
  PROVE  /\ RemoveAt(w, n) \in Seq(Major) /\ Len(RemoveAt(w, n)) = Len(w) - 1
         /\ \A k \in 1 .. Len(w) - 1 : RemoveAt(w, n)[k] = w[IF k < n THEN k ELSE k + 1]
<1> DEFINE L == Len(w)
           u == SubSeq(w, 1, n - 1)
           v == SubSeq(w, n + 1, L)
<1>1. L \in Nat /\ n \in Nat /\ n >= 1 /\ n <= L /\ w \in [1 .. L -> Major]
  OBVIOUS
<1> HIDE DEF L
<1>2. u \in Seq(Major) /\ Len(u) = n - 1 /\ \A k \in 1 .. n - 1 : u[k] = w[k]
  BY <1>1
<1>3. v \in Seq(Major) /\ Len(v) = L - n /\ \A k \in 1 .. L - n : v[k] = w[k + n]
  BY <1>1
<1>4. RemoveAt(w, n) = u \o v
  BY DEF RemoveAt, L
<1> HIDE DEF u, v
<1>5. u \o v \in Seq(Major) /\ Len(u \o v) = L - 1
  <2>1. u \o v \in Seq(Major) /\ Len(u \o v) = Len(u) + Len(v)
    BY <1>2, <1>3, ConcatProperties
  <2>2. (n - 1) + (L - n) = L - 1
    BY <1>1
  <2> QED
    BY <1>2, <1>3, <2>1, <2>2
<1>6. ASSUME NEW k \in 1 .. L - 1 PROVE (u \o v)[k] = w[IF k < n THEN k ELSE k + 1]
  <2>1. CASE k < n
    <3>1. k \in 1 .. n - 1
      BY <1>1, <2>1
    <3> QED
      BY <1>1, <1>2, <1>3, <2>1, <3>1
  <2>2. CASE ~ (k < n)
    <3>1. k - (n - 1) \in 1 .. L - n /\ (k - (n - 1)) + n = k + 1
      BY <1>1, <2>2
    <3>2. (u \o v)[k] = v[k - (n - 1)]
      BY <1>1, <1>2, <1>3, <2>2
    <3> QED
      BY <1>3, <2>2, <3>1, <3>2
  <2> QED
    BY <2>1, <2>2
<1> QED
  BY <1>4, <1>5, <1>6 DEF L

\* A dead array leaves the list, a live one is passed.
LEMMA WeakUnlinkStep ==
  ASSUME IInv, WeakUnlink
  PROVE  IInv'
<1> DEFINE c == WeakCur
           n == WeakAt
<1>1. /\ Done /\ Slice /\ phase = "weak2" /\ ~ WeakEnd /\ phase' = phase
      /\ IF Dead(c) THEN weaks' = RemoveAt(weaks, n) /\ UNCHANGED weak_prev
         ELSE weak_prev' = c /\ UNCHANGED weaks
      /\ run' = FALSE
      /\ UNCHANGED <<heap, root, gray, pure, markhp, sweep_hp, final, gen, uses>>
  BY DEF WeakUnlink, Done, Exhausted
<1>2. /\ n \in DOMAIN weaks /\ c = weaks[n] /\ c \in Major /\ IsWeak(c)
      /\ weaks \in Seq(Major) /\ IsInjective(weaks)
      /\ weak_prev # None => n - 1 \in DOMAIN weaks /\ weaks[n - 1] = weak_prev
      /\ weak_prev = None => n = 1
  BY <1>1, WeakNext
<1>3. /\ \A a \in Major : mem[a].color # "gray"
      /\ Kept = {a \in Major : mem[a].color = "black"}
      /\ DOMAIN young = {} /\ Marking
  BY <1>1, AtDone
<1>4. Safe' = Safe /\ Safe = Kept
  BY <1>1, <1>3 DEF Safe, Kept, heap
<1>5. GrayInv' /\ Marking'
  BY <1>1, <1>3 DEF IInv, GrayInv, GrayIsFound, heap, Marking
<1>6. n \in Nat /\ Len(weaks) \in Nat /\ DOMAIN weaks = 1 .. Len(weaks) /\ n >= 1 /\ n <= Len(weaks)
  BY <1>2
<1>7. \A k \in DOMAIN weaks : k < n => weaks[k] \in Safe
  BY <1>1 DEF IInv, WeakInv, Passed
<1>8. \A k \in DOMAIN weaks : IsWeak(weaks[k]) /\ \A i \in Field : SafeOrNone(mem[weaks[k]].f[i])
  BY <1>1 DEF IInv, WeakInv, Cleaned
<1>9. \A a \in Major : IsWeak(a) /\ a \in Safe => a \in Range(weaks)
  BY DEF IInv, WeakInv
<1>10. \A k : Passed(k)' <=> k < WeakAt'
  BY <1>1 DEF Passed
<1>11. mem' = mem /\ (\A a : IsWeak(a)' <=> IsWeak(a))
  BY <1>1 DEF heap, IsWeak
<1> HIDE DEF c, n
<1>12. CASE Dead(c)
  <2> DEFINE w == RemoveAt(weaks, n)
             src(k) == IF k < n THEN k ELSE k + 1
  <2>1. /\ w \in Seq(Major) /\ Len(w) = Len(weaks) - 1
        /\ \A k \in 1 .. Len(weaks) - 1 : w[k] = weaks[src(k)]
    BY <1>2, <1>6, RemoveAtIs
  <2>2. weaks' = w /\ weak_prev' = weak_prev
    BY <1>1, <1>12
  <2> HIDE DEF w
  <2>3. DOMAIN w = 1 .. Len(weaks) - 1
    BY <1>6, <2>1
  <2>4. \A k \in DOMAIN w : src(k) \in DOMAIN weaks /\ src(k) # n /\ w[k] = weaks[src(k)]
    BY <1>6, <2>1, <2>3
  <2>5. \A k \in DOMAIN weaks : k # n => \E j \in DOMAIN w : src(j) = k
    <3> SUFFICES ASSUME NEW k \in DOMAIN weaks, k # n PROVE \E j \in DOMAIN w : src(j) = k
      OBVIOUS
    <3>1. CASE k < n
      BY <1>6, <2>3, <3>1
    <3>2. CASE k > n
      <4>1. k - 1 \in DOMAIN w /\ src(k - 1) = k
        BY <1>6, <2>3, <3>2
      <4> QED
        BY <4>1
    <3> QED
      BY <1>6, <3>1, <3>2
  <2>6. IsInjective(w)
    <3> SUFFICES ASSUME NEW j \in DOMAIN w, NEW k \in DOMAIN w, w[j] = w[k] PROVE j = k
      BY DEF IsInjective
    <3>1. src(j) = src(k)
      BY <1>2, <2>4 DEF IsInjective
    <3> QED
      BY <1>6, <2>3, <3>1
  <2>7. TypeOK'
    BY <1>1, <2>1, <2>2 DEF IInv, TypeOK, heap
  <2>8. WeakAt' = n
    <3>1. CASE weak_prev = None
      BY <1>2, <2>2, <3>1 DEF WeakAt
    <3>2. CASE weak_prev # None
      <4>1. n - 1 \in DOMAIN w /\ src(n - 1) = n - 1 /\ w[n - 1] = weak_prev
        BY <1>2, <1>6, <2>3, <2>4, <3>2
      <4>2. (CHOOSE j \in DOMAIN w : w[j] = w[n - 1]) = n - 1
        BY <2>6, <4>1, PlaceIs
      <4>3. WeakAt' = 1 + (n - 1)
        BY <2>2, <3>2, <4>1, <4>2 DEF WeakAt
      <4> QED
        BY <1>6, <4>3
    <3> QED
      BY <3>1, <3>2
  <2>9. WeakInv'
    <3>1. ASSUME NEW a \in Major, IsWeak(a), a \in Safe PROVE a \in Range(w)
      <4>1. PICK k \in DOMAIN weaks : weaks[k] = a
        BY <1>9, <3>1 DEF Range
      <4>2. k # n
        BY <1>2, <1>3, <1>4, <1>12, <3>1, <4>1 DEF Dead
      <4>3. PICK j \in DOMAIN w : src(j) = k
        BY <2>5, <4>2
      <4> QED
        BY <2>4, <4>1, <4>3 DEF Range
    <3>2. weak_prev = None \/ weak_prev \in Range(w)
      <4>1. ASSUME weak_prev # None PROVE n - 1 \in DOMAIN w /\ src(n - 1) = n - 1
        BY <1>2, <1>6, <2>3, <4>1
      <4> QED
        BY <1>2, <2>4, <4>1 DEF Range
    <3>3. \A k \in DOMAIN w : k < n => w[k] \in Safe
      <4> SUFFICES ASSUME NEW k \in DOMAIN w, k < n PROVE w[k] \in Safe
        OBVIOUS
      <4>1. src(k) = k /\ k \in DOMAIN weaks /\ w[k] = weaks[k]
        BY <2>4
      <4> QED
        BY <1>7, <4>1
    <3>4. \A k \in DOMAIN w : IsWeak(w[k]) /\ \A i \in Field : SafeOrNone(mem[w[k]].f[i])
      BY <1>8, <2>4
    <3> QED
      BY <1>1, <1>4, <1>10, <1>11, <2>2, <2>6, <2>8, <3>1, <3>2, <3>3, <3>4 DEF WeakInv, SafeOrNone
  <2> QED
    BY <1>1, <1>3, <1>5, <2>7, <2>9, MarkingTurn
<1>13. CASE ~ Dead(c)
  <2>1. weak_prev' = c /\ weaks' = weaks
    BY <1>1, <1>13
  <2>2. c \in Safe
    <3>1. mem[c].color # "white" /\ mem[c].color # "free"
      BY <1>2, <1>13 DEF Dead, IsWeak
    <3> QED
      BY <1>2, <1>3, <1>4, <3>1 DEF IInv, TypeOK, Block
  <2>3. TypeOK'
    <3>1. weak_prev' \in 0 .. M
      BY <1>2, <2>1, Places DEF Major
    <3> QED
      BY <1>1, <2>1, <3>1 DEF IInv, TypeOK, heap
  <2>4. WeakAt' = n + 1
    <3>1. (CHOOSE j \in DOMAIN weaks : weaks[j] = weaks[n]) = n
      BY <1>2, PlaceIs
    <3>2. weak_prev' = weaks[n] /\ weak_prev' # None
      BY <1>2, <2>1, Places
    <3>3. WeakAt' = 1 + n
      BY <2>1, <3>1, <3>2 DEF WeakAt
    <3> QED
      BY <1>6, <3>3
  <2>5. WeakInv'
    <3>1. \A k \in DOMAIN weaks : k < n + 1 => weaks[k] \in Safe
      BY <1>2, <1>6, <1>7, <2>2
    <3>2. c \in Range(weaks)
      BY <1>2 DEF Range
    <3> QED
      BY <1>1, <1>2, <1>4, <1>8, <1>9, <1>10, <1>11, <2>1, <2>4, <3>1, <3>2 DEF WeakInv, SafeOrNone
  <2> QED
    BY <1>1, <1>3, <1>5, <2>3, <2>5, MarkingTurn
<1> QED
  BY <1>12, <1>13

\* Marking is over: what is black will be passed by the sweeper.
LEMMA EndMarkStep ==
  ASSUME IInv, EndMark
  PROVE  IInv'
<1>1. /\ Done /\ Slice /\ phase = "final" /\ phase' = "sweep" /\ sweep_hp' = 1 /\ weak_prev' = None
      /\ UNCHANGED <<heap, root, gray, pure, markhp, weaks, final, gen, uses>> /\ run' = FALSE
  BY DEF EndMark, Done, Exhausted
<1>2. /\ \A a \in Major : mem[a].color # "gray"
      /\ Kept = {a \in Major : mem[a].color = "black"}
      /\ DOMAIN young = {} /\ gray = << >> /\ markhp = None /\ pure
  BY <1>1, AtDone
<1>3. \A a \in Major : ~ (a < 1)
  BY Places DEF Major
<1>4. TypeOK'
  <2>1. sweep_hp' \in 0 .. M + 1 /\ weak_prev' \in 0 .. M
    BY <1>1, Places DEF None
  <2> QED
    BY <1>1, <2>1 DEF IInv, TypeOK, heap
<1>5. Safe' = Safe
  BY <1>1, <1>2, <1>3 DEF Safe, Kept, heap
<1>6. GrayInv' /\ PhaseInv' /\ HeapInv'
  BY <1>1, <1>2, <1>3 DEF IInv, GrayInv, GrayIsFound, PhaseInv, Marking, HeapInv, heap
<1>7. WeakInv'
  BY <1>1, <1>5 DEF IInv, WeakInv, IsWeak, Cleaned, Passed, heap, SafeOrNone
<1>8. mem' = mem /\ young' = young /\ ref_table' = ref_table /\ weak_ref_table' = weak_ref_table
  BY <1>1 DEF heap
<1> QED
  BY <1>1, <1>4, <1>5, <1>6, <1>7, <1>8, SameSafe

\* The sweeper frees a white block or whitens a black one.
LEMMA SweepStep ==
  ASSUME IInv, Sweep
  PROVE  IInv'
<1> DEFINE h == sweep_hp
           b == IF mem[h].color = "white" THEN FreeBlock
                ELSE IF mem[h].color = "black" THEN [mem[h] EXCEPT !.color = "white"] ELSE mem[h]
<1>1. /\ Slice /\ phase = "sweep" /\ h <= M /\ mem' = [mem EXCEPT ![h] = b] /\ sweep_hp' = h + 1
      /\ UNCHANGED <<young, ref_table, weak_ref_table, root, gray, pure, markhp, phase, extras>>
      /\ run' = FALSE
  BY DEF Sweep
<1>2. /\ h \in Major /\ h \in Nat /\ gray = << >> /\ markhp = None /\ pure /\ DOMAIN young = {}
      /\ \A a \in Major : mem[a].color # "gray" /\ a \in Nat
      /\ \A a \in Major : a < h => mem[a].color # "black"
  <2>1. h \in Nat /\ h >= 1 /\ M \in Nat /\ ~ Marking
    BY <1>1, Places DEF IInv, PhaseInv, TypeOK, Marking
  <2> QED
    BY <1>1, <2>1, Places DEF IInv, PhaseInv, Major, Slice
<1>3. mem \in [Major -> Block] /\ mem[h] \in Block /\ FreeBlock \in Block
  BY <1>2, Places DEF IInv, TypeOK, FreeBlock, Block
<1>4. /\ b \in Block
      /\ \/ mem[h].color = "white" /\ b = FreeBlock
         \/ mem[h].color = "black" /\ b.color = "white" /\ b.kind = mem[h].kind /\ b.f = mem[h].f
         \/ mem[h].color = "free" /\ b = mem[h]
  <2>1. mem[h].color \in {"free", "white", "black"}
    BY <1>2, <1>3 DEF Block
  <2>2. CASE mem[h].color = "white"
    BY <1>3, <2>2
  <2>3. CASE mem[h].color = "black"
    BY <1>3, <2>3 DEF Block
  <2>4. CASE mem[h].color = "free"
    BY <1>3, <2>4
  <2> QED
    BY <2>1, <2>2, <2>3, <2>4
<1> HIDE DEF b, h
<1>5. mem' \in [Major -> Block] /\ mem'[h] = b /\ \A a \in Major : a # h => mem'[a] = mem[a]
  BY <1>1, <1>2, <1>3, <1>4
<1>6. FreeBlock.color = "free" /\ FreeBlock.kind = "plain" /\ \A i \in Field : FreeBlock.f[i] = None
  BY DEF FreeBlock
<1>7. TypeOK'
  <2>1. h + 1 \in 0 .. M + 1
    BY <1>1, <1>2, Places
  <2> QED
    BY <1>1, <1>5, <2>1 DEF IInv, TypeOK, extras
<1>8. Kept' = Kept
  <2>1. Kept = {a \in Major : mem[a].color = "black" \/ (mem[a].color = "white" /\ a < h)}
    BY <1>1 DEF Kept, h
  <2>2. Kept' = {a \in Major : mem'[a].color = "black" \/ (mem'[a].color = "white" /\ a < h + 1)}
    BY <1>1 DEF Kept
  <2>3. ASSUME NEW a \in Major
        PROVE  (mem'[a].color = "black" \/ (mem'[a].color = "white" /\ a < h + 1))
               <=> (mem[a].color = "black" \/ (mem[a].color = "white" /\ a < h))
    <3>1. CASE a = h
      BY <1>2, <1>4, <1>5, <1>6, <3>1
    <3>2. CASE a # h
      <4>1. a < h + 1 <=> a < h
        BY <1>2, <3>2
      <4> QED
        BY <1>5, <3>2, <4>1
    <3> QED
      BY <3>1, <3>2
  <2> QED
    BY <2>1, <2>2, <2>3
<1>9. Safe' = Safe /\ Safe = Kept
  BY <1>1, <1>2, <1>8 DEF Safe
<1>10. \A a \in Safe : \/ a # h /\ mem'[a] = mem[a]
                       \/ a = h /\ mem'[a].kind = mem[a].kind /\ mem'[a].f = mem[a].f /\ mem'[a].color # "free"
  <2> SUFFICES ASSUME NEW a \in Safe, a = h PROVE mem[a].color = "black"
    BY <1>4, <1>5, <1>9, KeptMajor
  <2> QED
    BY <1>1, <1>2, <1>9 DEF Kept, h
<1>11. GrayInv'
  <2>1. \A a \in Major : mem'[a].color # "gray"
    BY <1>2, <1>4, <1>5, <1>6
  <2> QED
    BY <1>1, <1>2, <2>1 DEF GrayInv, GrayIsFound, IsInjective, Range
<1>12. PhaseInv' /\ HeapInv'
  <2>1. \A a \in Major : mem'[a].color # "gray"
    BY <1>2, <1>4, <1>5, <1>6
  <2>2. ASSUME NEW a \in Major, a < h + 1 PROVE mem'[a].color # "black"
    BY <1>2, <1>4, <1>5, <1>6, <2>2
  <2> QED
    BY <1>1, <1>2, <2>1, <2>2 DEF PhaseInv, Marking, HeapInv
<1>13. WeakInv'
  <2>1. ASSUME NEW a, IsWeak(a)' PROVE IsWeak(a)
    BY <1>4, <1>5, <1>6, <2>1 DEF IsWeak
  <2>2. \A k \in DOMAIN weaks : /\ weaks[k] \in Safe /\ IsWeak(weaks[k]) /\ weaks[k] \in Major
                                /\ \A i \in Field : SafeOrNone(mem[weaks[k]].f[i])
    BY <1>1 DEF IInv, WeakInv, Cleaned, Passed, IsWeak
  <2>3. ASSUME NEW k \in DOMAIN weaks
        PROVE  IsWeak(weaks[k])' /\ mem'[weaks[k]].f = mem[weaks[k]].f
    <3>1. IsWeak(weaks[k]) /\ weaks[k] \in Safe /\ weaks'[k] = weaks[k]
      BY <1>1, <2>2 DEF extras
    <3> QED
      BY <1>10, <3>1 DEF IsWeak
  <2> QED
    BY <1>1, <1>9, <2>1, <2>2, <2>3 DEF IInv, WeakInv, SafeOrNone, extras
<1>14. ASSUME NEW a \in Major
       PROVE  \/ /\ mem'[a].kind = mem[a].kind
                 /\ mem'[a].color = "free" <=> mem[a].color = "free"
                 /\ mem'[a].f = mem[a].f
              \/ mem'[a] = FreeBlock /\ a \notin Safe
  <2>1. CASE a = h
    <3>1. mem[h].color = "white" => h \notin Safe
      BY <1>1, <1>2, <1>9 DEF Kept, h
    <3> QED
      BY <1>4, <1>5, <2>1, <3>1
  <2>2. CASE a # h
    BY <1>5, <2>2
  <2> QED
    BY <2>1, <2>2
<1> QED
  BY <1>1, <1>7, <1>9, <1>11, <1>12, <1>13, <1>14, SameSafe DEF extras

\* After the sweep every block left is one that was marked.
LEMMA EndSweepStep ==
  ASSUME IInv, EndSweep
  PROVE  IInv'
<1>1. /\ Slice /\ phase = "sweep" /\ sweep_hp > M /\ phase' = "idle" /\ sweep_hp' = None /\ run' = FALSE
      /\ UNCHANGED <<heap, root, gray, pure, markhp, extras>>
  BY DEF EndSweep
<1>2. /\ \A a \in Major : a < sweep_hp /\ mem[a].color \in {"free", "white"}
      /\ gray = << >> /\ markhp = None /\ pure /\ DOMAIN young = {}
  <2>1. \A a \in Major : a < sweep_hp
    BY <1>1, Places DEF IInv, TypeOK, Major
  <2>2. ~ Marking
    BY <1>1 DEF Marking
  <2> QED
    BY <1>1, <2>1, <2>2 DEF IInv, PhaseInv, TypeOK, Block, Slice
<1>3. Kept = {a \in Major : mem[a].color # "free"}
  BY <1>1, <1>2 DEF Kept
<1>4. Safe' = Safe /\ Safe = Kept
  BY <1>1, <1>2, <1>3 DEF Safe, Kept, heap
<1>5. TypeOK'
  <2>1. sweep_hp' \in 0 .. M + 1
    BY <1>1, Places DEF None
  <2> QED
    BY <1>1, <2>1 DEF IInv, TypeOK, heap, extras
<1>6. GrayInv' /\ PhaseInv'
  BY <1>1, <1>2 DEF GrayInv, GrayIsFound, IsInjective, Range, PhaseInv, Marking, heap
<1>7. HeapInv'
  <2> SUFFICES ASSUME NEW a \in Major, NEW i \in Field PROVE mem[a].f[i] = None \/ Allocated(mem[a].f[i])
    BY <1>1 DEF HeapInv, Allocated, heap
  <2>1. CASE mem[a].color = "free"
    BY <2>1 DEF IInv, FreeInv, FreeBlock
  <2>2. CASE mem[a].color # "free" /\ mem[a].kind = "plain"
    <3>1. SafeOrNone(mem[a].f[i])
      BY <1>3, <2>2, ClosedGives DEF IInv
    <3> QED
      BY <3>1, SafeAllocated DEF IInv, SafeOrNone
  <2>3. CASE mem[a].color # "free" /\ mem[a].kind = "weak"
    <3>1. a \in Range(weaks)
      BY <1>3, <1>4, <2>3 DEF IInv, WeakInv, IsWeak
    <3>2. SafeOrNone(mem[a].f[i])
      BY <1>1, <3>1 DEF IInv, WeakInv, Cleaned, Range
    <3> QED
      BY <3>2, SafeAllocated DEF IInv, SafeOrNone
  <2>4. mem[a].kind \in {"plain", "weak"}
    BY DEF IInv, TypeOK, Block
  <2> QED
    BY <2>1, <2>2, <2>3, <2>4
<1>8. WeakInv'
  <2>1. \A a \in Major : IsWeak(a) => a \in Range(weaks)
    BY <1>3, <1>4 DEF IInv, WeakInv, IsWeak
  <2>2. \A k : ~ Cleaned(k)' /\ ~ Passed(k)'
    BY <1>1 DEF Cleaned, Passed
  <2> QED
    BY <1>1, <2>1, <2>2 DEF IInv, WeakInv, IsWeak, heap, extras
<1> QED
  BY <1>1, <1>4, <1>5, <1>6, <1>7, <1>8, SameSafe DEF heap, extras

\* The roots are darkened, or the dead values that wait for their finaliser.
LEMMA DarkenType ==
  ASSUME IInv, NEW S \in SUBSET Value, NEW t \in DarkenAll(Marker, SetToSeq(S)), Becomes(t)
  PROVE  /\ t \in MarkerT /\ GrayOf(t) /\ Darker(mem, mem', S)
         /\ mem' \in [Major -> Block] /\ gray' \in Seq(Major) /\ pure' \in BOOLEAN
         /\ \A v \in S : v \in Major => mem'[v].color # "white"
<1> DEFINE vs == SetToSeq(S)
<1>1. Len(vs) \in Nat /\ DOMAIN vs = 1 .. Len(vs) /\ Range(vs) = S
  <2>1. M + Y \in Nat /\ Value = 0 .. M + Y
    BY GcAssumption DEF Value
  <2>3. IsFiniteSet(Value)
    BY <2>1, FS_Interval
  <2>2. IsFiniteSet(S)
    BY <2>3, FS_Subset
  <2> QED
    BY <2>2, SetToSeqIs
<1>2. t \in ShadeAll(Marker, vs, {"weak"})
  BY DEF DarkenAll
<1> HIDE DEF vs
<1>3. /\ t \in MarkerT /\ GrayOf(t) /\ Darker(Marker.mem, t.mem, S)
      /\ \A v \in S : v \in Major => t.mem[v].color # "white"
  BY <1>1, <1>2, MarkerIs, ShadeAllIs
<1>4. mem' = t.mem /\ gray' = t.gray /\ pure' = t.pure /\ Marker.mem = mem
  BY DEF Becomes, Marker
<1>5. /\ mem' \in [Major -> Block] /\ gray' \in Seq(Major) /\ pure' \in BOOLEAN
      /\ Darker(mem, mem', S)
  BY <1>3, <1>4 DEF MarkerT
<1> QED
  BY <1>3, <1>4, <1>5

\* What that leaves of the invariant, at the start of a cycle and in caml_final_update.
LEMMA DarkenRoots ==
  ASSUME IInv, TypeOK', phase \in {"idle", "weak2"}, phase' \in {"main", "final"}, DOMAIN young = {},
         NEW S \in SUBSET Value, NEW t \in DarkenAll(Marker, SetToSeq(S)), Becomes(t),
         UNCHANGED <<young, root, ref_table, weak_ref_table, markhp, sweep_hp, weaks, gen, uses>>
  PROVE  /\ Darker(mem, mem', S) /\ Kept' = Marked(mem')
         /\ \A v \in S \cap Major : mem[v].color # "free" => v \in Safe'
         /\ \A a \in Major : /\ mem'[a].kind = mem[a].kind /\ mem'[a].f = mem[a].f
                             /\ mem'[a].color = "free" <=> mem[a].color = "free"
         /\ phase = "weak2" => Safe \subseteq Safe'
         /\ FreeInv' /\ GrayInv' /\ PhaseInv' /\ ClosedInv' /\ HeapInv' /\ GenInv' /\ RememberInv'
<1>3. /\ t \in MarkerT /\ GrayOf(t)
      /\ \A v \in S : v \in Major => mem'[v].color # "white"
  BY DarkenType
<1>4. mem' = t.mem /\ gray' = t.gray /\ pure' = t.pure
  BY DEF Becomes
<1>5. mem' \in [Major -> Block] /\ Darker(mem, mem', S)
  BY DarkenType
<1>6. \A a \in Major : /\ mem'[a].kind = mem[a].kind /\ mem'[a].f = mem[a].f
                       /\ mem'[a].color = "free" <=> mem[a].color = "free"
                       /\ mem'[a].color = "black" /\ mem'[a].kind = "plain" => mem[a].color = "black"
  BY <1>5 DEF Darker
<1>7. Marking' /\ Kept' = Marked(mem')
  BY DEF Marking, Kept
<1>8. \A v \in S \cap Major : mem[v].color # "free" => v \in Safe'
  <2> SUFFICES ASSUME NEW v \in S \cap Major, mem[v].color # "free" PROVE v \in Safe'
    OBVIOUS
  <2>1. mem'[v].color \in {"gray", "black"}
    BY <1>3, <1>4, <1>5, <1>6 DEF Block
  <2> QED
    BY <1>7, <2>1, MarkedIs DEF IsMarking, Safe
<1>9. phase = "weak2" => Safe \subseteq Safe'
  <2> SUFFICES ASSUME phase = "weak2" PROVE Kept \subseteq Kept'
    BY DEF Safe
  <2> QED
    BY <1>5, <1>7, DarkerKeeps DEF Kept
<1>10. FreeInv'
  <2> SUFFICES ASSUME NEW a \in Major, mem'[a].color = "free" PROVE mem'[a] = FreeBlock
    BY DEF FreeInv
  <2>1. mem[a] = FreeBlock
    BY <1>6 DEF IInv, FreeInv
  <2>2. mem'[a].kind = "plain" /\ mem'[a].f = [i \in Field |-> None] /\ mem'[a] \in Block
    BY <1>5, <1>6, <2>1 DEF FreeBlock
  <2> QED
    BY <2>2 DEF FreeBlock, Block
<1>11. GrayInv'
  BY <1>3, <1>4 DEF GrayOf, GrayInv, GrayIsFound, IsInjective, Range
<1>12. PhaseInv'
  BY <1>7 DEF PhaseInv, Marking
<1>13. HeapInv'
  <2> SUFFICES ASSUME NEW a \in Major, NEW i \in Field
               PROVE  mem'[a].f[i] = None \/ Allocated(mem[a].f[i])'
    BY DEF HeapInv
  <2>1. mem[a].f[i] = None \/ Allocated(mem[a].f[i])
    BY DEF IInv, HeapInv
  <2> QED
    BY <1>6, <2>1 DEF Allocated
<1>14. GenInv'
  BY DEF IInv, GenInv
<1>15. RememberInv'
  <2>1. ref_table' = {} /\ weak_ref_table' = {} /\ DOMAIN young' = {}
    BY DEF IInv, RememberInv
  <2>2. \A a \in Major, i \in Field : mem'[a].f[i] \notin Young
    BY <1>6 DEF IInv, RememberInv
  <2> QED
    BY <2>1, <2>2 DEF RememberInv
<1>16. ClosedInv'
  <2>1. BlackClosed'
    <3> SUFFICES ASSUME NEW a \in Major, mem'[a].color = "black", mem'[a].kind = "plain", NEW i \in Field
                 PROVE  SafeOrNone(mem[a].f[i])'
      BY DEF BlackClosed
    <3>1. mem[a].color = "black" /\ mem[a].kind = "plain" /\ mem'[a].f = mem[a].f
      BY <1>6
    <3>2. phase = "weak2"
      BY <3>1 DEF IInv, PhaseInv
    <3>3. SafeOrNone(mem[a].f[i])
      BY <3>1, <3>2, ClosedGives DEF IInv, Marking, BlackClosed
    <3> QED
      BY <1>9, <3>1, <3>2, <3>3 DEF SafeOrNone
  <2>2. YoungClosed'
    BY DEF YoungClosed
  <2> QED
    BY <1>7, <1>15, <2>1, <2>2, ClosedWhenMarking, PTL
<1> QED
  BY <1>5, <1>6, <1>7, <1>8, <1>9, <1>10, <1>11, <1>12, <1>13, <1>14, <1>15, <1>16

\* A cycle starts: the roots are darkened, so all that is reachable will be marked.
LEMMA StartCycleStep ==
  ASSUME IInv, StartCycle
  PROVE  IInv'
<1> DEFINE S == (Range(root) \cup GenScanned \cup final.todo) \ {None}
<1>1. /\ Slice /\ phase = "idle" /\ phase' = "main" /\ markhp' = None /\ run' = FALSE
      /\ UNCHANGED <<young, root, ref_table, weak_ref_table, sweep_hp, extras>>
  BY DEF StartCycle
<1>2. PICK t \in DarkenAll(Marker, SetToSeq(S)) : Becomes(t)
  BY DEF StartCycle
<1>3. S \in SUBSET Value
  BY DEF IInv, TypeOK, GenScanned, Range
<1>4. DOMAIN young = {} /\ final.recent = {} /\ markhp = None
  BY <1>1 DEF Slice, IInv, PhaseInv, Marking
<1>5. Safe = {a \in Major : mem[a].color # "free"}
  BY <1>1, <1>4 DEF Safe, Kept
<1>6. ASSUME NEW v \in Range(root) \cup GenValue \cup final.todo \cup final.recent
      PROVE  v = None \/ (v \in S /\ v \in Safe)
  <2>1. SafeOrNone(v)
    BY DEF IInv, RootInv
  <2>2. CASE v \in GenValue
    <3>1. gen.reg /\ v = gen.val
      BY <2>2 DEF GenValue
    <3>2. v \in Major => v \in GenScanned
      BY <3>1 DEF IInv, GenInv, GenScanned
    <3> QED
      BY <1>5, <2>1, <3>2, Places DEF SafeOrNone
  <2> QED
    BY <1>4, <2>1, <2>2 DEF SafeOrNone
<1> HIDE DEF S
<1>7. TypeOK'
  <2>1. mem' \in [Major -> Block] /\ gray' \in Seq(Major) /\ pure' \in BOOLEAN
    BY <1>2, <1>3, DarkenType
  <2> QED
    BY <1>1, <1>4, <2>1 DEF IInv, TypeOK, extras
<1>8. /\ \A v \in S \cap Major : mem[v].color # "free" => v \in Safe'
      /\ \A a \in Major : /\ mem'[a].kind = mem[a].kind /\ mem'[a].f = mem[a].f
                          /\ mem'[a].color = "free" <=> mem[a].color = "free"
      /\ FreeInv' /\ GrayInv' /\ PhaseInv' /\ ClosedInv' /\ HeapInv' /\ GenInv' /\ RememberInv'
  BY <1>1, <1>2, <1>3, <1>4, <1>7, DarkenRoots DEF extras
<1>9. RootInv'
  <2>1. \A v \in Range(root) \cup GenValue \cup final.todo \cup final.recent : v = None \/ v \in Safe'
    BY <1>5, <1>6, <1>8
  <2> QED
    BY <1>1, <2>1 DEF RootInv, SafeOrNone, GenValue, extras
<1>10. OldInv'
  BY <1>1, <1>8 DEF IInv, OldInv, Allocated, extras
<1>11. WeakInv'
  <2>1. \A k : ~ Cleaned(k)' /\ ~ Passed(k)'
    BY <1>1 DEF Cleaned, Passed
  <2>2. \A a : IsWeak(a)' <=> IsWeak(a)
    BY <1>8 DEF IsWeak
  <2> QED
    BY <1>1, <2>1, <2>2 DEF IInv, WeakInv, extras
<1>12. UsesInv'
  BY <1>1, <1>8 DEF IInv, UsesInv, extras
<1> QED
  BY <1>7, <1>8, <1>9, <1>10, <1>11, <1>12 DEF IInv

\* A program that registers values with Gc.finalise must not have weak arrays:
\* what caml_final_update keeps for its finaliser, weak arrays were cleared of,
\* but not what it leads to.
LEMMA FinalUpdateStep ==
  ASSUME NotBoth, IInv, FinalUpdate
  PROVE  IInv'
<1> DEFINE S == {v \in final.old : Dead(v)}
<1>1. /\ Done /\ Slice /\ phase = "weak2" /\ phase' = "final" /\ WeakEnd /\ run' = TRUE
      /\ final' = [final EXCEPT !.old = @ \ S, !.todo = @ \cup S]
      /\ UNCHANGED <<young, ref_table, weak_ref_table, root, markhp, sweep_hp, weaks, weak_prev, gen, uses>>
  BY DEF FinalUpdate, Done, Exhausted
<1>2. PICK t \in DarkenAll(Marker, SetToSeq(S)) : Becomes(t)
  BY DEF FinalUpdate
<1>3. S \in SUBSET Value /\ S \subseteq final.old /\ \A v \in S : v \in Major /\ mem[v].color = "white"
  BY DEF IInv, TypeOK, Dead
<1>4. /\ DOMAIN young = {} /\ final.recent = {} /\ Marking
      /\ Kept = {a \in Major : mem[a].color = "black"}
      /\ \A a \in Major : mem[a].color # "gray"
  BY <1>1, AtDone DEF Slice
<1>5. \A v \in final.old \ S : v \in Safe
  <2> SUFFICES ASSUME NEW v \in final.old \ S PROVE v \in Kept
    BY DEF Safe
  <2>1. v \in Major /\ mem[v].color # "free" /\ mem[v].color # "white"
    BY <1>4 DEF IInv, OldInv, Allocated, Dead
  <2> QED
    BY <1>4, <2>1 DEF IInv, TypeOK, Block
<1> HIDE DEF S
<1>6. /\ final'.old = final.old \ S /\ final'.todo = final.todo \cup S /\ final'.recent = final.recent
      /\ final' \in [old : SUBSET (Value \ {None}), recent : SUBSET (Value \ {None}),
                     todo : SUBSET (Value \ {None})]
  BY <1>1, <1>3 DEF IInv, TypeOK
<1>7. TypeOK'
  <2>1. mem' \in [Major -> Block] /\ gray' \in Seq(Major) /\ pure' \in BOOLEAN
    BY <1>2, <1>3, DarkenType
  <2> QED
    BY <1>1, <1>6, <2>1 DEF IInv, TypeOK
<1>8. /\ Darker(mem, mem', S) /\ Kept' = Marked(mem')
      /\ \A v \in S \cap Major : mem[v].color # "free" => v \in Safe'
      /\ \A a \in Major : /\ mem'[a].kind = mem[a].kind /\ mem'[a].f = mem[a].f
                          /\ mem'[a].color = "free" <=> mem[a].color = "free"
      /\ Safe \subseteq Safe'
      /\ FreeInv' /\ GrayInv' /\ PhaseInv' /\ ClosedInv' /\ HeapInv' /\ GenInv' /\ RememberInv'
  BY <1>1, <1>2, <1>3, <1>4, <1>7, DarkenRoots
<1>9. \A v \in S : v \in Safe'
  BY <1>3, <1>8
<1>10. RootInv'
  BY <1>1, <1>6, <1>8, <1>9 DEF IInv, RootInv, SafeOrNone, GenValue
<1>11. OldInv'
  BY <1>1, <1>3, <1>5, <1>6, <1>8 DEF IInv, OldInv, Allocated
<1>12. UsesInv'
  <2>1. ASSUME "final" \notin uses PROVE final' = [old |-> {}, recent |-> {}, todo |-> {}]
    <3>1. final = [old |-> {}, recent |-> {}, todo |-> {}]
      BY <2>1 DEF IInv, UsesInv
    <3>2. S = {}
      BY <1>3, <3>1
    <3> QED
      BY <1>1, <3>1, <3>2
  <2> QED
    BY <1>1, <1>8, <2>1 DEF IInv, UsesInv
<1>13. WeakInv'
  <2>1. \A a : IsWeak(a)' <=> IsWeak(a)
    BY <1>8 DEF IsWeak
  <2>2. CASE "weak" \notin uses
    <3>1. weaks' = << >> /\ \A a : ~ IsWeak(a)
      BY <1>1, <2>2 DEF IInv, UsesInv, IsWeak
    <3> QED
      BY <1>1, <2>1, <3>1 DEF WeakInv, IsInjective
  <2>3. CASE "weak" \in uses
    <3>1. "final" \notin uses
      BY <2>3 DEF NotBoth, IInv, TypeOK
    <3>2. S = {}
      BY <1>3, <3>1 DEF IInv, UsesInv
    <3>3. Kept' \subseteq Kept
      <4>1. Kept = Marked(mem)
        BY <1>4, MarkingIs DEF IInv
      <4> QED
        BY <1>8, <3>2, <4>1, DarkerAdds
    <3>4. Safe' = Safe
      BY <1>1, <1>8, <3>3 DEF Safe
    <3>5. \A k \in DOMAIN weaks : Cleaned(k) /\ Passed(k)
      <4>1. \A k \in DOMAIN weaks : k \in Nat /\ k <= Len(weaks) /\ k >= 1 /\ Len(weaks) \in Nat
        BY DEF IInv, TypeOK
      <4>2. WeakAt \in Nat
        <5>1. weak_prev = None \/ weak_prev \in Range(weaks)
          BY <1>1 DEF IInv, WeakInv
        <5> QED
          BY <4>1, <5>1, WeakAtIs DEF IInv, WeakInv
      <4> QED
        BY <1>1, <4>1, <4>2 DEF Cleaned, Passed, WeakEnd
    <3>6. \A k \in DOMAIN weaks : weaks[k] \in Major
      BY DEF IInv, TypeOK
    <3> QED
      BY <1>1, <1>8, <2>1, <3>4, <3>5, <3>6 DEF IInv, WeakInv, SafeOrNone
  <2> QED
    BY <2>2, <2>3
<1> QED
  BY <1>7, <1>8, <1>10, <1>11, <1>12, <1>13 DEF IInv

-----------------------------------------------------------------------------
(* The minor collection *)

\* Nothing leads out of Safe.
LEMMA SafeIsClosed ==
  ASSUME IInv
  PROVE  Closed(Safe)
<1> SUFFICES ASSUME NEW o \in Safe, Scanned(o), NEW v \in Range(Content(o)) PROVE v = None \/ v \in Safe
  BY DEF Closed
<1>1. o \in Value
  BY KeptMajor, Places DEF Safe, IInv, TypeOK
<1>2. Content(o) \in [Field -> Value] /\ \A i \in Field : SafeOrNone(Content(o)[i])
  BY <1>1, ContentIsSafe DEF SafeOrNone
<1> QED
  BY <1>2 DEF Range, SafeOrNone

\* The young values that a minor collection copies.
KeptYoung == Reach(MinorRoots \cap Young) \cap Young

\* What the minor collection finds from its roots is everything young in use.
LEMMA KeptYoungIs ==
  ASSUME IInv
  PROVE  /\ KeptYoung \subseteq DOMAIN young /\ KeptYoung \subseteq Young
         /\ \A v \in Range(root) \cup GenValue \cup final.recent : v \in Young => v \in KeptYoung
         /\ \A y \in KeptYoung, i \in Field : young[y][i] \in Young => young[y][i] \in KeptYoung
         /\ \A a \in Major, i \in Field :
              mem[a].f[i] \in Young /\ mem[a].kind = "plain" => mem[a].f[i] \in KeptYoung
<1> DEFINE V == MinorRoots \cap Young
<1>1. V \in SUBSET Value
  BY Places
<1>2. \A v \in V : v \in Reach(V)
  BY <1>1, ReachCloses, Places DEF IInv
<1>3. Closed(Reach(V))
  BY <1>1, ReachCloses DEF IInv
<1>4. Closed(Safe)
  BY SafeIsClosed
<1>5. ASSUME NEW v \in V PROVE v \in Safe
  <2>1. v \in Young /\ v # None
    BY Places
  <2>2. CASE v \in Range(root) \cup final.recent
    BY <2>1, <2>2 DEF IInv, RootInv, SafeOrNone
  <2>3. CASE gen.young /\ gen.reg /\ v = gen.val
    BY <2>1, <2>3, RootsAreSafe DEF SafeOrNone
  <2>4. ASSUME NEW l \in ref_table, v = mem[l[1]].f[l[2]] PROVE v \in Safe
    <3>1. l[1] \in Major /\ l[2] \in Field
      BY <2>4 DEF IInv, TypeOK
    <3> QED
      BY <2>1, <2>4, <3>1 DEF IInv, RememberInv, Safe
  <2> QED
    BY <2>2, <2>3, <2>4 DEF MinorRoots
<1>6. Reach(V) \subseteq Safe
  BY <1>4, <1>5, ReachLeast
<1>7. KeptYoung \subseteq DOMAIN young /\ KeptYoung \subseteq Young
  BY <1>6, KeptMajor, Places DEF KeptYoung, Safe
<1>8. \A v \in MinorRoots : v \in Young => v \in KeptYoung
  BY <1>2 DEF KeptYoung
<1>9. \A v \in Range(root) \cup GenValue \cup final.recent : v \in Young => v \in KeptYoung
  <2> SUFFICES ASSUME NEW v \in GenValue, v \in Young PROVE v \in MinorRoots
    BY <1>8 DEF MinorRoots
  <2> QED
    BY DEF GenValue, IInv, GenInv, MinorRoots
<1>10. ASSUME NEW y \in KeptYoung, NEW i \in Field, young[y][i] \in Young PROVE young[y][i] \in KeptYoung
  <2>1. Content(y) = young[y] /\ Scanned(y) /\ y \in Reach(V) /\ young[y] \in [Field -> Value]
    BY <1>7 DEF KeptYoung, Content, Scanned, IInv, TypeOK
  <2>2. young[y][i] \in Range(Content(y))
    BY <2>1 DEF Range
  <2> QED
    BY <1>3, <1>10, <2>1, <2>2, Places DEF Closed, KeptYoung
<1>11. ASSUME NEW a \in Major, NEW i \in Field, mem[a].f[i] \in Young, mem[a].kind = "plain"
       PROVE  mem[a].f[i] \in KeptYoung
  <2>1. <<a, i>> \in ref_table
    BY <1>11 DEF IInv, RememberInv
  <2>2. mem[a].f[i] \in MinorRoots
    BY <2>1 DEF MinorRoots
  <2> QED
    BY <1>8, <1>11, <2>2
<1> QED
  BY <1>7, <1>9, <1>10, <1>11

\* Where v is after a minor collection.
Moved(to, v) == IF v \in KeptYoung THEN to[v] ELSE v

\* What the minor collection does: the young values it keeps move to blocks that
\* were free, what pointed to them points to those, and nothing else changes.
Forwarded(to) ==
  /\ to \in [KeptYoung -> Free] /\ mem' \in [Major -> Block]
  /\ \A a \in Range(to) :
       /\ mem'[a].color = AllocationColor(a) /\ mem'[a].kind = "plain"
       /\ \E y \in KeptYoung : \A i \in Field : mem'[a].f[i] = Moved(to, young[y][i])
  /\ \A a \in Major \ Range(to) :
       /\ mem'[a].color = mem[a].color /\ mem'[a].kind = mem[a].kind
       /\ \A i \in Field :
            \/ mem[a].f[i] \notin Young /\ mem'[a].f[i] = mem[a].f[i]
            \/ mem[a].f[i] \in KeptYoung /\ mem'[a].f[i] = to[mem[a].f[i]]
            \/ /\ mem[a].f[i] \in Young \ KeptYoung /\ mem[a].kind = "weak"
               /\ mem'[a].f[i] = None
  /\ root' = [r \in Root |-> Moved(to, root[r])]
  /\ final' = [final EXCEPT !.old = @ \cup {Moved(to, v) : v \in final.recent}, !.recent = {}]
  /\ gen' = IF young = << >> \/ ~ gen.young THEN gen
            ELSE [gen EXCEPT !.val = Moved(to, gen.val), !.old = TRUE, !.young = FALSE]

\* A minor collection forwards.
LEMMA MinorForwards ==
  ASSUME IInv, EmptyMinorHeap
  PROVE  \E to : Forwarded(to)
<1> DEFINE at(to, a, i) ==
             IF <<a, i>> \in ref_table THEN Moved(to, mem[a].f[i])
             ELSE IF <<a, i>> \in weak_ref_table /\ mem[a].f[i] \in Young
             THEN (IF mem[a].f[i] \in KeptYoung THEN to[mem[a].f[i]] ELSE None)
             ELSE mem[a].f[i]
           copy(to, a) ==
             [color |-> AllocationColor(a), kind |-> "plain",
              f |-> [i \in Field |-> Moved(to, young[CHOOSE y \in KeptYoung : to[y] = a][i])]]
           rest(to, a) == [mem[a] EXCEPT !.f = [i \in Field |-> at(to, a, i)]]
<1>1. PICK to \in Injections(KeptYoung, Free) :
        /\ mem' = [a \in Major |-> IF a \in Range(to) THEN copy(to, a) ELSE rest(to, a)]
        /\ root' = [r \in Root |-> Moved(to, root[r])]
        /\ final' = [final EXCEPT !.old = @ \cup {Moved(to, v) : v \in final.recent}, !.recent = {}]
        /\ gen' = IF young = << >> \/ ~ gen.young THEN gen
                  ELSE [gen EXCEPT !.val = Moved(to, gen.val), !.old = TRUE, !.young = FALSE]
  BY DEF EmptyMinorHeap, KeptYoung, Moved
<1>2. to \in [KeptYoung -> Free] /\ Range(to) \subseteq Free /\ Free \subseteq Major
  BY <1>1 DEF Injections, Range, Free
<1>3. KeptYoung \subseteq DOMAIN young /\ KeptYoung \subseteq Young
  BY KeptYoungIs
<1>4. \A v \in Value : Moved(to, v) \in Value
  BY <1>2, Places DEF Moved
<1>5. ASSUME NEW a \in Range(to)
      PROVE  /\ mem'[a] \in Block
             /\ mem'[a].color = AllocationColor(a) /\ mem'[a].kind = "plain"
             /\ \E y \in KeptYoung : \A i \in Field : mem'[a].f[i] = Moved(to, young[y][i])
  <2> DEFINE z == CHOOSE y \in KeptYoung : to[y] = a
  <2>1. a \in Major /\ mem'[a] = copy(to, a)
    BY <1>1, <1>2
  <2>2. \E y \in KeptYoung : to[y] = a
    BY <1>2 DEF Range
  <2>3. z \in KeptYoung
    BY <2>2
  <2>4. mem'[a].f = [i \in Field |-> Moved(to, young[z][i])]
    BY <2>1
  <2> HIDE DEF z
  <2>5. AllocationColor(a) \in {"white", "black"}
    BY DEF AllocationColor
  <2>6. \A i \in Field : Moved(to, young[z][i]) \in Value
    BY <1>3, <1>4, <2>3 DEF IInv, TypeOK
  <2>7. mem'[a].f \in [Field -> Value]
    BY <2>4, <2>6
  <2>8. mem'[a] \in Block
    BY <2>1, <2>5, <2>7 DEF Block
  <2> QED
    BY <2>1, <2>3, <2>4, <2>8
<1>6. ASSUME NEW a \in Major \ Range(to)
      PROVE  /\ mem'[a] \in Block /\ mem'[a].color = mem[a].color /\ mem'[a].kind = mem[a].kind
             /\ \A i \in Field :
                  \/ mem[a].f[i] \notin Young /\ mem'[a].f[i] = mem[a].f[i]
                  \/ mem[a].f[i] \in KeptYoung /\ mem'[a].f[i] = to[mem[a].f[i]]
                  \/ /\ mem[a].f[i] \in Young \ KeptYoung /\ mem[a].kind = "weak"
                     /\ mem'[a].f[i] = None
  <2>1. mem'[a] = rest(to, a) /\ mem[a] \in Block
    BY <1>1 DEF IInv, TypeOK
  <2>2. mem[a].f \in [Field -> Value]
    BY <2>1 DEF Block
  <2>3. ASSUME NEW i \in Field
        PROVE  /\ at(to, a, i) \in Value
               /\ \/ mem[a].f[i] \notin Young /\ at(to, a, i) = mem[a].f[i]
                  \/ mem[a].f[i] \in KeptYoung /\ at(to, a, i) = to[mem[a].f[i]]
                  \/ /\ mem[a].f[i] \in Young \ KeptYoung /\ mem[a].kind = "weak"
                     /\ at(to, a, i) = None
    <3>1. CASE mem[a].f[i] \notin Young
      BY <1>3, <2>2, <3>1 DEF Moved
    <3>2. CASE mem[a].f[i] \in Young /\ mem[a].kind = "plain"
      <4>1. <<a, i>> \in ref_table /\ mem[a].f[i] \in KeptYoung
        BY <3>2, KeptYoungIs DEF IInv, RememberInv
      <4> QED
        BY <1>4, <2>2, <4>1 DEF Moved
    <3>3. CASE mem[a].f[i] \in Young /\ mem[a].kind = "weak"
      <4>1. <<a, i>> \in weak_ref_table /\ <<a, i>> \notin ref_table
        BY <3>3 DEF IInv, RememberInv
      <4>2. CASE mem[a].f[i] \in KeptYoung
        BY <1>2, <3>3, <4>1, <4>2, Places
      <4>3. CASE mem[a].f[i] \notin KeptYoung
        BY <3>3, <4>1, <4>3, Places
      <4> QED
        BY <4>2, <4>3
    <3> QED
      BY <2>1, <3>1, <3>2, <3>3 DEF Block
  <2> HIDE DEF at
  <2>4. /\ mem'[a].f = [i \in Field |-> at(to, a, i)]
        /\ mem'[a].color = mem[a].color /\ mem'[a].kind = mem[a].kind
    BY <2>1 DEF Block
  <2>5. [i \in Field |-> at(to, a, i)] \in [Field -> Value]
    BY <2>3
  <2>6. mem'[a] \in Block
    BY <2>1, <2>5 DEF Block
  <2> QED
    BY <2>3, <2>4, <2>6
<1>7. mem' \in [Major -> Block]
  BY <1>1, <1>5, <1>6
<1>8. Forwarded(to)
  BY <1>1, <1>2, <1>5, <1>6, <1>7 DEF Forwarded
<1> QED
  BY <1>8

\* The blocks that are in use after it are those that were, and the copies.
LEMMA MinorKeeps ==
  ASSUME IInv, NEW to, Forwarded(to), UNCHANGED <<phase, sweep_hp>>
  PROVE  Kept' = Kept \cup Range(to)
<1>1. /\ to \in [KeptYoung -> Free] /\ Range(to) \subseteq Major
      /\ \A a \in Range(to) : mem[a].color = "free" /\ mem[a] = FreeBlock
  BY DEF Forwarded, Free, Range, IInv, FreeInv
<1>2. \A a \in Range(to) :
        /\ mem'[a].kind = "plain" /\ mem'[a].color = AllocationColor(a)
        /\ mem'[a].color \in {"white", "black"}
  BY DEF Forwarded, AllocationColor
<1>3. \A a \in Major \ Range(to) :
        /\ mem'[a].color = mem[a].color /\ mem'[a].kind = mem[a].kind
        /\ \A i \in Field : mem'[a].f[i] = mem[a].f[i] \/ mem'[a].f[i] \in Range(to) \/ mem'[a].f[i] = None
        /\ \A i \in Field : mem[a].f[i] \in Major => mem'[a].f[i] = mem[a].f[i]
  BY <1>1, Places, KeptYoungIs DEF Forwarded, Range
<1>4. CASE Marking
  <2> DEFINE C == Marked(mem)
             D == Marked(mem')
  <2>1. /\ Kept = C /\ Kept' = D /\ C \subseteq Major /\ D \subseteq Major
        /\ IsMarking(mem, C) /\ IsMarking(mem', D)
    BY <1>4, MarkingIs, MarkedIs DEF IInv, Kept, TypeOK, Marking
  <2>2. \A a \in Range(to) : mem'[a].color = "black"
    BY <1>2, <1>4 DEF AllocationColor
  <2> HIDE DEF C, D
  <2>3. IsMarking(mem', C \cup Range(to))
    <3> SUFFICES ASSUME NEW x \in Major
                 PROVE  /\ mem'[x].color \in {"gray", "black"} => x \in C \cup Range(to)
                        /\ x \in C \cup Range(to) /\ Scans(mem'[x]) => \A i \in Field :
                             mem'[x].f[i] \in Major => mem'[x].f[i] \in C \cup Range(to)
      BY DEF IsMarking
    <3>1. CASE x \in Range(to)
      BY <2>2, <3>1 DEF Scans
    <3>2. CASE x \notin Range(to)
      <4>1. mem'[x].color \in {"gray", "black"} => x \in C
        BY <1>3, <2>1, <3>2 DEF IsMarking
      <4>2. ASSUME x \in C, Scans(mem'[x]), NEW i \in Field, mem'[x].f[i] \in Major
            PROVE  mem'[x].f[i] \in C \cup Range(to)
        <5>1. Scans(mem[x])
          BY <1>3, <3>2, <4>2 DEF Scans
        <5>2. mem'[x].f[i] = mem[x].f[i] \/ mem'[x].f[i] \in Range(to)
          BY <1>3, <3>2, <4>2, Places
        <5> QED
          BY <2>1, <4>2, <5>1, <5>2 DEF IsMarking
      <4> QED
        BY <3>2, <4>1, <4>2
    <3> QED
      BY <3>1, <3>2
  <2>4. IsMarking(mem, D)
    <3> SUFFICES ASSUME NEW x \in Major
                 PROVE  /\ mem[x].color \in {"gray", "black"} => x \in D
                        /\ x \in D /\ Scans(mem[x]) => \A i \in Field :
                             mem[x].f[i] \in Major => mem[x].f[i] \in D
      BY DEF IsMarking
    <3>1. CASE x \in Range(to)
      BY <1>1, <3>1, Places DEF FreeBlock
    <3>2. CASE x \notin Range(to)
      <4>1. mem[x].color \in {"gray", "black"} => x \in D
        BY <1>3, <2>1, <3>2 DEF IsMarking
      <4>2. ASSUME x \in D, Scans(mem[x]), NEW i \in Field, mem[x].f[i] \in Major
            PROVE  mem[x].f[i] \in D
        <5>1. Scans(mem'[x]) /\ mem'[x].f[i] = mem[x].f[i]
          BY <1>3, <3>2, <4>2 DEF Scans
        <5> QED
          BY <2>1, <4>2, <5>1 DEF IsMarking
      <4> QED
        BY <4>1, <4>2
    <3> QED
      BY <3>1, <3>2
  <2>5. C \cup Range(to) \in SUBSET Major /\ Range(to) \subseteq D
    BY <1>1, <2>1, <2>2 DEF IsMarking
  <2>6. D \subseteq C \cup Range(to)
    BY <2>3, <2>5, MarkedLeast DEF D
  <2>7. C \subseteq D
    BY <2>1, <2>4, MarkedLeast DEF C
  <2> QED
    BY <2>1, <2>5, <2>6, <2>7
<1>5. CASE phase = "idle"
  BY <1>1, <1>2, <1>3, <1>5 DEF Kept
<1>6. CASE phase = "sweep"
  <2>1. \A a \in Range(to) : /\ a \in Nat /\ sweep_hp \in Nat
                             /\ mem'[a].color = IF a >= sweep_hp THEN "black" ELSE "white"
    BY <1>1, <1>2, <1>6, Places DEF AllocationColor, Marking, IInv, TypeOK
  <2>2. Kept = {a \in Major : mem[a].color = "black" \/ (mem[a].color = "white" /\ a < sweep_hp)}
    BY <1>6 DEF Kept
  <2>3. Kept' = {a \in Major : mem'[a].color = "black" \/ (mem'[a].color = "white" /\ a < sweep_hp)}
    BY <1>6 DEF Kept
  <2>4. \A a \in Range(to) : a \in Kept'
    BY <1>1, <2>1, <2>3
  <2> QED
    BY <1>1, <1>3, <2>2, <2>3, <2>4
<1> QED
  BY <1>4, <1>5, <1>6, MarkingIs DEF IInv

\* A minor collection keeps the invariant, in any phase of the major one.
LEMMA EmptyMinorHeapStep ==
  ASSUME IInv, EmptyMinorHeap
  PROVE  IInv'
<1>1. /\ young' = << >> /\ ref_table' = {} /\ weak_ref_table' = {}
      /\ UNCHANGED <<marker, weaks, weak_prev, uses>>
  BY DEF EmptyMinorHeap
<1>2. PICK to : Forwarded(to)
  BY MinorForwards
<1>3. Kept' = Kept \cup Range(to)
  BY <1>1, <1>2, MinorKeeps DEF marker
<1>4. Safe' = Kept' /\ DOMAIN young' = {} /\ Kept \subseteq Major
  BY <1>1, KeptMajor DEF Safe
<1>5. /\ to \in [KeptYoung -> Free] /\ Range(to) \subseteq Major
      /\ \A y \in KeptYoung : to[y] \in Range(to)
      /\ \A a \in Range(to) : mem[a].color = "free" /\ mem[a] = FreeBlock
      /\ mem' \in [Major -> Block]
  BY <1>2 DEF Forwarded, Free, Range, IInv, FreeInv
<1>6. \A a \in Range(to) : /\ mem'[a].kind = "plain" /\ mem'[a].color = AllocationColor(a)
                           /\ mem'[a].color \in {"white", "black"}
  BY <1>2 DEF Forwarded, AllocationColor
<1>7. \A a \in Major \ Range(to) :
        /\ mem'[a].color = mem[a].color /\ mem'[a].kind = mem[a].kind
        /\ \A i \in Field :
             \/ mem[a].f[i] \notin Young /\ mem'[a].f[i] = mem[a].f[i]
             \/ mem'[a].f[i] \in Range(to) \/ mem'[a].f[i] = None
  BY <1>2, <1>5 DEF Forwarded
<1>8. /\ KeptYoung \subseteq DOMAIN young /\ KeptYoung \subseteq Young
      /\ \A v \in Range(root) \cup GenValue \cup final.recent : v \in Young => v \in KeptYoung
      /\ \A y \in KeptYoung, i \in Field : young[y][i] \in Young => young[y][i] \in KeptYoung
  BY KeptYoungIs
<1>9. ASSUME NEW v, v \in Young => v \in KeptYoung, SafeOrNone(v)
      PROVE  /\ Moved(to, v) = None \/ (Moved(to, v) \in Safe' /\ Moved(to, v) \in Major)
             /\ v # None => Moved(to, v) # None
  BY <1>3, <1>4, <1>5, <1>8, <1>9, Places DEF Moved, SafeOrNone, Safe, IInv, TypeOK
<1>10. \A v \in Value : Moved(to, v) \in Value
  BY <1>5, Places DEF Moved
<1>11. Range(to) \cap Kept = {} /\ \A a \in Safe' : a \in Major /\ mem'[a].color # "free"
  <2>1. \A a \in Kept : a \in Major /\ mem[a].color # "free"
    BY KeptMajor, SafeAllocated, Places DEF Safe, Allocated, IInv, TypeOK
  <2> QED
    BY <1>3, <1>4, <1>5, <1>6, <1>7, <2>1
<1>12. ASSUME NEW v \in final.recent PROVE v \in Value /\ v # None /\ SafeOrNone(v)
  BY DEF IInv, TypeOK, RootInv
<1>13. /\ final'.old = final.old \cup {Moved(to, v) : v \in final.recent}
       /\ final'.todo = final.todo /\ final'.recent = {}
       /\ final' \in [old : SUBSET (Value \ {None}), recent : SUBSET (Value \ {None}),
                      todo : SUBSET (Value \ {None})]
  <2> DEFINE W == {Moved(to, v) : v \in final.recent}
  <2>1. W \in SUBSET (Value \ {None})
    BY <1>8, <1>9, <1>10, <1>12
  <2>2. final' = [final EXCEPT !.old = @ \cup W, !.recent = {}]
    BY <1>2 DEF Forwarded
  <2> HIDE DEF W
  <2>3. /\ final'.old = final.old \cup W /\ final'.todo = final.todo /\ final'.recent = {}
        /\ final' \in [old : SUBSET (Value \ {None}), recent : SUBSET (Value \ {None}),
                       todo : SUBSET (Value \ {None})]
    BY <2>1, <2>2 DEF IInv, TypeOK
  <2> QED
    BY <2>3 DEF W
<1>14. /\ gen' \in [val : Value, reg : BOOLEAN, young : BOOLEAN, old : BOOLEAN]
       /\ gen'.reg = gen.reg
       /\ gen.reg => /\ gen'.val = Moved(to, gen.val)
                     /\ gen'.val \notin Young
                     /\ gen'.val \in Major => gen'.young \/ gen'.old
  <2>1. gen \in [val : Value, reg : BOOLEAN, young : BOOLEAN, old : BOOLEAN]
    BY DEF IInv, TypeOK
  <2>2. gen' = IF young = << >> \/ ~ gen.young THEN gen
               ELSE [gen EXCEPT !.val = Moved(to, gen.val), !.old = TRUE, !.young = FALSE]
    BY <1>2 DEF Forwarded
  <2>3. gen.reg => (gen.val \in Young => gen.val \in KeptYoung) /\ SafeOrNone(gen.val)
    BY <1>8 DEF GenValue, IInv, RootInv
  <2>4. gen.reg => Moved(to, gen.val) \notin Young
    BY <1>9, <2>3, Places
  <2>5. CASE young = << >> \/ ~ gen.young
    <3>1. gen.reg => gen.val \notin Young
      <4> SUFFICES ASSUME gen.reg, gen.val \in Young PROVE FALSE
        OBVIOUS
      <4>1. gen.young /\ gen.val \in DOMAIN young
        BY <1>8, <2>3 DEF IInv, GenInv
      <4> QED
        BY <2>5, <4>1
    <3>2. gen.reg => Moved(to, gen.val) = gen.val
      BY <1>8, <3>1 DEF Moved
    <3> QED
      BY <2>1, <2>2, <2>5, <3>1, <3>2 DEF IInv, GenInv
  <2>6. CASE ~ (young = << >> \/ ~ gen.young)
    <3>1. gen' = [gen EXCEPT !.val = Moved(to, gen.val), !.old = TRUE, !.young = FALSE]
      BY <2>2, <2>6
    <3> QED
      BY <1>10, <2>1, <2>4, <3>1
  <2> QED
    BY <2>5, <2>6
<1>15. root' = [r \in Root |-> Moved(to, root[r])] /\ \A r \in Root : root[r] \in Range(root)
  BY <1>2 DEF Forwarded, Range, IInv, TypeOK
<1>16. TypeOK'
  <2>1. root' \in [Root -> Value]
    BY <1>10, <1>15 DEF IInv, TypeOK
  <2>2. young' \in [DOMAIN young' -> [Field -> Value]]
    BY <1>1
  <2> QED
    BY <1>1, <1>4, <1>5, <1>13, <1>14, <2>1, <2>2 DEF IInv, TypeOK, marker
<1>17. FreeInv'
  <2> SUFFICES ASSUME NEW a \in Major, mem'[a].color = "free" PROVE mem'[a] = FreeBlock
    BY DEF FreeInv
  <2>1. a \notin Range(to) /\ mem[a] = FreeBlock /\ mem'[a].kind = "plain"
    BY <1>6, <1>7 DEF IInv, FreeInv, FreeBlock
  <2>2. \A i \in Field : mem[a].f[i] = None /\ mem'[a].f[i] = None
    BY <1>2, <1>8, <2>1, Places DEF Forwarded, FreeBlock
  <2>3. mem'[a] \in Block
    BY <1>5
  <2>4. mem'[a].f = [i \in Field |-> None]
    BY <2>2, <2>3 DEF Block
  <2> QED
    BY <2>1, <2>3, <2>4 DEF FreeBlock, Block
<1>18. \A a \in Major : mem'[a].color = "gray" <=> mem[a].color = "gray"
  BY <1>5, <1>6, <1>7
<1>19. GrayInv'
  BY <1>1, <1>18 DEF IInv, TypeOK, GrayInv, GrayIsFound, IsInjective, Range, marker
<1>20. PhaseInv'
  <2>1. Marking' <=> Marking
    BY <1>1 DEF Marking, marker
  <2>2. ASSUME phase = "idle", NEW a \in Major PROVE mem'[a].color # "black"
    BY <1>6, <1>7, <2>2 DEF AllocationColor, Marking, IInv, PhaseInv
  <2>3. ASSUME phase = "sweep", NEW a \in Major, a < sweep_hp PROVE mem'[a].color # "black"
    <3>1. ~ (a >= sweep_hp)
      BY <2>3, Places DEF IInv, TypeOK
    <3> QED
      BY <1>6, <1>7, <2>3, <3>1 DEF AllocationColor, Marking, IInv, PhaseInv
  <2> QED
    BY <1>1, <1>18, <2>1, <2>2, <2>3 DEF IInv, PhaseInv, marker
<1>21. RootInv'
  <2>1. ASSUME NEW r \in Root PROVE SafeOrNone(root[r])'
    <3>1. (root[r] \in Young => root[r] \in KeptYoung) /\ SafeOrNone(root[r]) /\ root'[r] = Moved(to, root[r])
      BY <1>8, <1>15, RootsAreSafe
    <3> QED
      BY <1>9, <3>1 DEF SafeOrNone
  <2>2. ASSUME gen.reg PROVE SafeOrNone(gen.val)'
    <3>1. (gen.val \in Young => gen.val \in KeptYoung) /\ SafeOrNone(gen.val) /\ gen'.val = Moved(to, gen.val)
      BY <1>8, <1>14, <2>2 DEF GenValue, IInv, RootInv
    <3> QED
      BY <1>9, <3>1 DEF SafeOrNone
  <2>3. ASSUME NEW v \in final.todo PROVE v \in Kept
    <3>1. v \in Major /\ v # None /\ SafeOrNone(v)
      BY Places DEF IInv, OldInv, RootInv
    <3> QED
      BY <3>1, Places DEF SafeOrNone, Safe, IInv, TypeOK
  <2> QED
    BY <1>3, <1>4, <1>13, <1>14, <1>15, <2>1, <2>2, <2>3 DEF RootInv, GenValue, SafeOrNone, Range
<1>22. ASSUME NEW o \in Safe', mem'[o].kind = "plain", NEW i \in Field PROVE SafeOrNone(mem[o].f[i])'
  <2>1. CASE o \in Range(to)
    <3>1. PICK y \in KeptYoung : mem'[o].f[i] = Moved(to, young[y][i])
      BY <1>2, <2>1 DEF Forwarded
    <3>2. SafeOrNone(young[y][i]) /\ (young[y][i] \in Young => young[y][i] \in KeptYoung)
      BY <1>8, ClosedGives DEF YoungClosed, IInv
    <3> QED
      BY <1>9, <3>1, <3>2 DEF SafeOrNone
  <2>2. CASE o \notin Range(to)
    <3>1. o \in Kept /\ o \in Major /\ mem[o].kind = "plain"
      BY <1>3, <1>4, <1>7, <1>22, <2>2
    <3>2. SafeOrNone(mem[o].f[i])
      BY <3>1, ClosedGives DEF IInv
    <3> QED
      BY <1>3, <1>4, <1>7, <2>2, <3>1, <3>2 DEF SafeOrNone, Safe, IInv, TypeOK
  <2> QED
    BY <2>1, <2>2
<1>23. ClosedInv'
  <2> SUFFICES ASSUME NEW o \in Safe', Scanned(o)', NEW i \in Field PROVE SafeOrNone(Content(o)[i])'
    BY DEF ClosedInv
  <2>1. o \in Major /\ o \notin Young /\ mem'[o].kind = "plain"
    BY <1>4, <1>11, Places DEF Scanned
  <2>2. Content(o)' = mem'[o].f
    BY <2>1 DEF Content
  <2>3. SafeOrNone(mem[o].f[i])'
    BY <1>22, <2>1
  <2> QED
    BY <2>2, <2>3 DEF SafeOrNone
<1>24. HeapInv'
  <2> SUFFICES ASSUME phase # "sweep", NEW a \in Major, NEW i \in Field
               PROVE  mem'[a].f[i] = None \/ (mem'[a].f[i] \in Major /\ mem'[mem'[a].f[i]].color # "free")
    BY <1>1 DEF HeapInv, Allocated, marker
  <2>1. CASE a \in Range(to)
    <3>1. SafeOrNone(mem[a].f[i])'
      BY <1>3, <1>4, <1>6, <1>22, <2>1
    <3> QED
      BY <1>11, <3>1 DEF SafeOrNone
  <2>2. CASE mem'[a].f[i] \in Range(to)
    BY <1>5, <1>6, <2>2
  <2>3. CASE a \notin Range(to) /\ mem[a].f[i] \notin Young /\ mem'[a].f[i] = mem[a].f[i]
    <3>1. mem[a].f[i] = None \/ (mem[a].f[i] \in Major /\ mem[mem[a].f[i]].color # "free")
      BY <2>3 DEF IInv, HeapInv, Allocated, TypeOK
    <3> QED
      BY <1>5, <1>7, <2>3, <3>1
  <2> QED
    BY <1>7, <2>1, <2>2, <2>3
<1>25. OldInv'
  <2>1. ASSUME NEW v \in final.recent
        PROVE  Moved(to, v) \in Major /\ Moved(to, v) \in Safe'
    BY <1>8, <1>9, <1>12
  <2>2. ASSUME NEW v \in final.old
        PROVE  v \in Major /\ mem'[v].color # "free" /\ (phase \in {"final", "sweep"} => v \in Safe')
    <3>1. v \in Major /\ Allocated(v) /\ (phase \in {"final", "sweep"} => v \in Safe)
      BY DEF IInv, OldInv
    <3>2. mem[v].color # "free"
      BY <3>1, Places DEF Allocated, IInv, TypeOK
    <3>3. v \notin Range(to)
      BY <1>5, <3>2
    <3> QED
      BY <1>3, <1>4, <1>7, <3>1, <3>2, <3>3, Places DEF Safe, IInv, TypeOK
  <2> QED
    BY <1>1, <1>11, <1>13, <2>1, <2>2 DEF OldInv, Allocated, marker, IInv
<1>26. GenInv'
  BY <1>14 DEF GenInv
<1>27. RememberInv'
  <2>1. ASSUME NEW a \in Major, NEW i \in Field PROVE mem'[a].f[i] \notin Young
    <3>1. CASE a \in Range(to)
      <4>1. PICK y \in KeptYoung : mem'[a].f[i] = Moved(to, young[y][i])
        BY <1>2, <3>1 DEF Forwarded
      <4>2. SafeOrNone(young[y][i]) /\ (young[y][i] \in Young => young[y][i] \in KeptYoung)
        BY <1>8, ClosedGives DEF YoungClosed, IInv
      <4> QED
        BY <1>9, <4>1, <4>2, Places
    <3>2. CASE a \notin Range(to)
      <4>1. \/ mem[a].f[i] \notin Young /\ mem'[a].f[i] = mem[a].f[i]
            \/ mem'[a].f[i] \in Range(to) \/ mem'[a].f[i] = None
        BY <1>7, <3>2
      <4>2. None \notin Young /\ Range(to) \cap Young = {}
        BY <1>5, Places
      <4> QED
        BY <4>1, <4>2
    <3> QED
      BY <3>1, <3>2
  <2> QED
    BY <1>1, <1>4, <2>1 DEF RememberInv
<1>28. \A a : IsWeak(a)' <=> IsWeak(a)
  BY <1>5, <1>6, <1>7 DEF IsWeak
<1>29. WeakInv'
  <2>1. \A k : (Cleaned(k)' <=> Cleaned(k)) /\ (Passed(k)' <=> Passed(k))
    BY <1>1 DEF Cleaned, Passed, WeakAt, marker
  <2>2. \A k \in DOMAIN weaks : IsWeak(weaks[k]) /\ weaks[k] \in Major /\ weaks[k] \notin Range(to)
    BY <1>5 DEF IInv, WeakInv, IsWeak
  <2>3. ASSUME NEW a \in Major, IsWeak(a), a \in Safe' PROVE a \in Safe
    BY <1>3, <1>4, <1>5, <2>3 DEF IsWeak, Safe
  <2>4. ASSUME NEW k \in DOMAIN weaks, NEW i \in Field, Cleaned(k)
        PROVE  SafeOrNone(mem[weaks[k]].f[i])'
    <3>1. PICK w \in Major \ Range(to) : w = weaks[k]
      BY <2>2
    <3>2. SafeOrNone(mem[w].f[i])
      BY <2>4, <3>1 DEF IInv, WeakInv
    <3>3. weaks'[k] = w
      BY <1>1, <3>1
    <3>4. SafeOrNone(mem[w].f[i])'
      BY <1>3, <1>4, <1>7, <3>2, Places DEF SafeOrNone, Safe, IInv, TypeOK
    <3> QED
      BY <3>3, <3>4 DEF SafeOrNone
  <2>5. ASSUME NEW k \in DOMAIN weaks, Passed(k) PROVE weaks[k] \in Safe'
    BY <1>3, <1>4, <2>2, <2>5, Places DEF IInv, WeakInv, Safe, TypeOK
  <2> QED
    BY <1>1, <1>28, <2>1, <2>2, <2>3, <2>4, <2>5 DEF IInv, WeakInv, SafeOrNone, marker
<1>30. UsesInv'
  <2>1. "weak" \notin uses => \A a \in Major : mem'[a].kind = "plain"
    BY <1>6, <1>7 DEF IInv, UsesInv
  <2>2. ASSUME "final" \notin uses PROVE final' = [old |-> {}, recent |-> {}, todo |-> {}]
    <3>1. final = [old |-> {}, recent |-> {}, todo |-> {}]
      BY <2>2 DEF IInv, UsesInv
    <3>2. final' = [final EXCEPT !.old = @ \cup {Moved(to, v) : v \in final.recent}, !.recent = {}]
      BY <1>2 DEF Forwarded
    <3> QED
      BY <3>1, <3>2
  <2> QED
    BY <1>1, <2>1, <2>2 DEF IInv, UsesInv
<1> QED
  BY <1>16, <1>17, <1>19, <1>20, <1>21, <1>23, <1>24, <1>25, <1>26, <1>27, <1>29, <1>30 DEF IInv

-----------------------------------------------------------------------------
(* The invariant holds *)

\* The invariant holds at the start, when the heap is empty.
LEMMA InitIInv ==
  ASSUME Init
  PROVE  IInv
<1> USE DEF Init
<1>1. /\ FreeBlock \in Block /\ FreeBlock.color = "free" /\ FreeBlock.kind = "plain"
      /\ \A i \in Field : FreeBlock.f[i] = None
  BY Places DEF FreeBlock, Block
<1>2. \A a \in Major : mem[a] = FreeBlock
  OBVIOUS
<1>3. TypeOK
  <2>1. /\ mem \in [Major -> Block] /\ root \in [Root -> Value]
        /\ DOMAIN young = {} /\ young \in [DOMAIN young -> [Field -> Value]]
    BY <1>1, Places
  <2>2. markhp \in 0 .. M + 1 /\ sweep_hp \in 0 .. M + 1 /\ weak_prev \in 0 .. M
    BY Places DEF None
  <2>3. << >> \in Seq(Major)
    OBVIOUS
  <2>4. /\ final \in [old : SUBSET (Value \ {None}), recent : SUBSET (Value \ {None}),
                      todo : SUBSET (Value \ {None})]
        /\ gen \in [val : Value, reg : BOOLEAN, young : BOOLEAN, old : BOOLEAN]
    BY Places
  <2> QED
    BY <2>1, <2>2, <2>3, <2>4 DEF TypeOK
<1>4. Safe = {} /\ ~ Marking
  BY <1>1 DEF Safe, Kept, Marking
<1>5. FreeInv /\ GrayInv /\ PhaseInv
  BY <1>1, <1>2, <1>4 DEF FreeInv, GrayInv, GrayIsFound, PhaseInv, IsInjective, Range
<1>6. RootInv
  BY DEF RootInv, SafeOrNone, GenValue, Range
<1>7. ClosedInv
  BY <1>4 DEF ClosedInv
<1>8. HeapInv /\ OldInv /\ GenInv
  BY <1>1, <1>2 DEF HeapInv, OldInv, GenInv
<1>9. RememberInv
  BY <1>1, <1>2, Places DEF RememberInv
<1>10. WeakInv
  BY <1>1, <1>2 DEF WeakInv, IsWeak, IsInjective
<1>11. UsesInv
  BY <1>1, <1>2 DEF UsesInv
<1> QED
  BY <1>3, <1>5, <1>6, <1>7, <1>8, <1>9, <1>10, <1>11 DEF IInv

\* Every step keeps the invariant.
LEMMA NextIInv ==
  ASSUME NotBoth, IInv, [Next]_vars
  PROVE  IInv'
<1>1. CASE Program
  BY <1>1, ProgramStep
<1>2. CASE EmptyMinorHeap
  BY <1>2, EmptyMinorHeapStep
<1>3. CASE MajorSlice
  <2>1. CASE StartCycle \/ FinalUpdate
    BY <2>1, StartCycleStep, FinalUpdateStep
  <2>2. CASE MarkTop \/ MarkHeap \/ RestartPure
    BY <2>2, MarkTopStep, MarkHeapStep, RestartPureStep
  <2>3. CASE EndMain \/ WeakClean \/ EndWeakClean \/ WeakUnlink
    BY <2>3, EndMainStep, WeakCleanStep, EndWeakCleanStep, WeakUnlinkStep
  <2>4. CASE EndMark \/ Sweep \/ EndSweep
    BY <2>4, EndMarkStep, SweepStep, EndSweepStep
  <2> QED
    BY <1>3, <2>1, <2>2, <2>3, <2>4 DEF MajorSlice
<1>4. CASE UNCHANGED vars
  <2>1. UNCHANGED <<heap, marker, weaks, weak_prev, uses, final, gen, root>>
    BY <1>4 DEF vars, extras
  <2>2. TypeOK' /\ GenInv' /\ UsesInv'
    BY <2>1 DEF IInv, TypeOK, GenInv, UsesInv, heap, marker
  <2>3. RootInv'
    BY <2>1 DEF IInv, RootInv, SafeOrNone, Safe, Kept, GenValue, heap, marker
  <2> QED
    BY <2>1, <2>2, <2>3, MoveStep
<1> QED
  BY <1>1, <1>2, <1>3, <1>4 DEF Next

(***************************************************************************)
(* The parts of the invariant hold of every state, for any sizes of the    *)
(* heaps and of the stack of gray values: the barrier of Modify, the       *)
(* colours of new blocks, the tables of the minor collection, the walks    *)
(* after an overflow and the subphases of mark_slice work together.        *)
(***************************************************************************)
THEOREM SpecIInv ==
  ASSUME NotBoth
  PROVE  Spec => []IInv
<1>1. Init => IInv
  BY InitIInv
<1>2. IInv /\ [Next]_vars => IInv'
  BY NextIInv
<1> QED
  BY <1>1, <1>2, PTL DEF Spec

\* The program reaches nothing that this collection will free.
LEMMA ReachableIsSafe ==
  ASSUME IInv
  PROVE  Reachable \subseteq Safe /\ Reach(Range(root) \cup GenValue \cup final.todo) \subseteq Safe
<1>1. \A v \in Range(root) \cup GenValue \cup final.todo : v = None \/ v \in Safe
  BY DEF IInv, RootInv, SafeOrNone
<1> QED
  BY <1>1, SafeIsClosed, ReachLeast DEF Reachable

(***************************************************************************)
(* Nothing that the program can reach, nor what waits for its finaliser,   *)
(* is freed by sweep_slice or left behind by caml_empty_minor_heap,        *)
(* whatever the program does between the turns of the collector.           *)
(***************************************************************************)
THEOREM SpecNothingDangles ==
  ASSUME NotBoth
  PROVE  Spec => []NothingDangles
<1>1. IInv => NothingDangles
  BY ReachableIsSafe, SafeAllocated DEF IInv, NothingDangles
<1> QED
  BY <1>1, SpecIInv, PTL

(***************************************************************************)
(* The gray values that realloc_gray_vals dropped are found by markhp, the *)
(* pointers into the minor heap are in ref_table or weak_ref_table, and    *)
(* the arrays from caml_weak_list_head on hold nothing that was freed.     *)
(***************************************************************************)
THEOREM SpecWorkIsFound ==
  ASSUME NotBoth
  PROVE  Spec => []WorkIsFound
<1>1. ASSUME IInv PROVE WeakListIsSound
  <2> SUFFICES ASSUME NEW k \in DOMAIN weaks
               PROVE  IsWeak(weaks[k]) /\ \A i \in Field : mem[weaks[k]].f[i] # None => Allocated(mem[weaks[k]].f[i])
    BY DEF WeakListIsSound
  <2>1. IsWeak(weaks[k]) /\ weaks[k] \in Major
    BY <1>1 DEF IInv, WeakInv, IsWeak
  <2>2. CASE phase = "sweep"
    BY <1>1, <2>1, <2>2, SafeAllocated DEF IInv, WeakInv, Cleaned, SafeOrNone
  <2>3. CASE phase # "sweep"
    BY <1>1, <2>1, <2>3 DEF IInv, HeapInv
  <2> QED
    BY <2>2, <2>3
<1>2. IInv => TypeOK /\ GrayIsFound /\ YoungIsRemembered
  BY DEF IInv, GrayInv, RememberInv, YoungIsRemembered
<1>3. IInv => WorkIsFound
  BY <1>1, <1>2 DEF WorkIsFound
<1> QED
  BY <1>3, SpecIInv, PTL

\* The action of WeakIsErasedDead.
WeakErasure ==
  Collects =>
    \A a \in Major, i \in Field :
      mem[a].kind = "weak" /\ mem[a].f[i] # None /\ mem'[a].kind = "weak" /\ mem'[a].f[i] = None
      => mem[a].f[i] \notin Reachable

\* The program does not collect: it leaves the young blocks where they are.
LEMMA ProgramDoesNotCollect ==
  ASSUME IInv, Program
  PROVE  ~ Collects
<1> DEFINE Stays == DOMAIN young \subseteq DOMAIN young' /\ UNCHANGED <<phase, weak_prev>>
<1>1. UNCHANGED <<young, phase, weak_prev>> => Stays
  OBVIOUS
<1>2. Stays => ~ Collects
  BY DEF Collects
<1>3. ASSUME NEW r \in Root, AllocSmall(r) PROVE Stays
  BY <1>3 DEF AllocSmall, marker, extras
<1>4. ASSUME NEW r \in Root, NEW s \in Root, NEW i \in Field, WeakGetCopy(r, s, i) PROVE Stays
  BY <1>4 DEF WeakGetCopy, extras
<1>5. ASSUME NEW s \in Root, NEW i \in Field, NEW v \in Operand, Store(s, i, v) PROVE Stays
  BY <1>5 DEF Store, Modify, marker, extras
<1>6. ASSUME NEW r \in Root, Drop(r) \/ WeakCreate(r) \/ FinalRegister(r) \/ FinalCall(r) \/ GenLoad(r)
      PROVE  UNCHANGED <<young, phase, weak_prev>>
  BY <1>6 DEF Drop, WeakCreate, FinalRegister, FinalCall, GenLoad, heap, marker, extras
<1>7. ASSUME NEW r \in Root, NEW s \in Root, AllocShr(r, s) PROVE UNCHANGED <<young, phase, weak_prev>>
  BY <1>7 DEF AllocShr, marker, extras
<1>8. ASSUME NEW r \in Root, NEW s \in Root, NEW i \in Field, Load(r, s, i) \/ WeakGet(r, s, i)
      PROVE  UNCHANGED <<young, phase, weak_prev>>
  BY <1>8 DEF Load, WeakGet, heap, marker, extras
<1>9. ASSUME NEW s \in Root, NEW i \in Field, NEW v \in Operand, WeakSet(s, i, v)
      PROVE  UNCHANGED <<young, phase, weak_prev>>
  BY <1>9 DEF WeakSet, marker, extras
<1>10. ASSUME NEW s \in Root, NEW d \in Root, NEW i \in Field, NEW j \in Field, WeakBlit(s, i, d, j)
       PROVE  UNCHANGED <<young, phase, weak_prev>>
  BY <1>10 DEF WeakBlit, marker, extras
<1>11. ASSUME NEW v \in Operand, GenRegister(v) \/ GenModify(v) \/ GenRemove
       PROVE  UNCHANGED <<young, phase, weak_prev>>
  BY <1>11 DEF GenRegister, GenModify, GenRemove, heap, marker
<1>12. None \in Operand
  BY DEF Operand
<1> HIDE DEF Stays
<1> QED
  BY <1>1, <1>2, <1>3, <1>4, <1>5, <1>6, <1>7, <1>8, <1>9, <1>10, <1>11, <1>12 DEF Program

\* A minor collection erases what it did not copy: that was not reachable.
LEMMA WeakErasureOfMinor ==
  ASSUME IInv, EmptyMinorHeap
  PROVE  WeakErasure
<1>1. PICK to : Forwarded(to)
  BY MinorForwards
<1> DEFINE C == Kept \cup KeptYoung
<1>2. Closed(C)
  <2> SUFFICES ASSUME NEW o \in C, Scanned(o), NEW i \in Field
               PROVE  Content(o)[i] = None \/ Content(o)[i] \in C
    <3>1. ASSUME NEW o \in C, Scanned(o) PROVE DOMAIN Content(o) = Field
      <4>1. o \in Safe /\ o \in Value
        BY KeptYoungIs, KeptMajor, Places DEF Safe
      <4> QED
        BY <3>1, <4>1, ContentIsSafe DEF SafeOrNone
    <3> QED
      BY <3>1 DEF Closed, Range
  <2>1. CASE o \in KeptYoung
    <3>1. o \in DOMAIN young /\ Content(o) = young[o]
      BY <2>1, KeptYoungIs DEF Content
    <3>2. SafeOrNone(young[o][i])
      BY <3>1, ClosedGives DEF YoungClosed, IInv
    <3> QED
      BY <2>1, <3>1, <3>2, KeptYoungIs DEF SafeOrNone, Safe, IInv, TypeOK
  <2>2. CASE o \in Kept
    <3>1. o \in Major /\ Content(o) = mem[o].f /\ mem[o].kind = "plain"
      BY <2>2, KeptMajor, Places DEF Content, Scanned, IInv, TypeOK
    <3>2. SafeOrNone(mem[o].f[i])
      BY <2>2, <3>1, ClosedGives DEF IInv
    <3>3. mem[o].f[i] \in Young => mem[o].f[i] \in KeptYoung
      BY <3>1, KeptYoungIs
    <3> QED
      BY <3>1, <3>2, <3>3 DEF SafeOrNone, Safe, IInv, TypeOK
  <2> QED
    BY <2>1, <2>2
<1>3. \A v \in Range(root) \cup GenValue : v = None \/ v \in C
  BY KeptYoungIs DEF IInv, RootInv, SafeOrNone, Safe, TypeOK
<1>4. Reachable \subseteq C
  BY <1>2, <1>3, ReachLeast DEF Reachable
<1>5. ASSUME NEW a \in Major, NEW i \in Field, mem[a].kind = "weak", mem[a].f[i] # None,
             mem'[a].kind = "weak", mem'[a].f[i] = None
      PROVE  mem[a].f[i] \notin C
  <2>1. to \in [KeptYoung -> Free] /\ (a \in Range(to) => mem[a].color = "free")
    BY <1>1 DEF Forwarded, Free, Range
  <2>2. a \notin Range(to)
    BY <1>5, <2>1 DEF IInv, FreeInv, FreeBlock
  <2>3. \A y \in KeptYoung : to[y] # None
    BY <2>1, Places DEF Free
  <2>4. mem[a].f[i] \in Young \ KeptYoung
    BY <1>1, <1>5, <2>2, <2>3 DEF Forwarded
  <2> QED
    BY <2>4, KeptMajor, Places
<1> QED
  BY <1>4, <1>5 DEF WeakErasure

\* The subphase weak1 erases what is white when marking is over.
LEMMA WeakErasureOfMajor ==
  ASSUME IInv, MajorSlice
  PROVE  WeakErasure
<1>1. CASE \A a \in Major : mem'[a].f = mem[a].f
  BY <1>1 DEF WeakErasure
<1>2. CASE UNCHANGED <<phase, weak_prev, young>>
  BY <1>2 DEF WeakErasure, Collects
<1>3. CASE StartCycle
  <2> DEFINE S == (Range(root) \cup GenScanned \cup final.todo) \ {None}
  <2>1. PICK t \in DarkenAll(Marker, SetToSeq(S)) : Becomes(t)
    BY <1>3 DEF StartCycle
  <2>2. S \in SUBSET Value
    BY DEF IInv, TypeOK, GenScanned, Range
  <2> HIDE DEF S
  <2>3. Darker(mem, mem', S)
    BY <2>1, <2>2, DarkenType
  <2> QED
    BY <1>1, <2>3 DEF Darker
<1>4. CASE FinalUpdate
  <2> DEFINE S == {v \in final.old : Dead(v)}
  <2>1. PICK t \in DarkenAll(Marker, SetToSeq(S)) : Becomes(t)
    BY <1>4 DEF FinalUpdate
  <2>2. S \in SUBSET Value
    BY DEF IInv, TypeOK
  <2> HIDE DEF S
  <2>3. Darker(mem, mem', S)
    BY <2>1, <2>2, DarkenType
  <2> QED
    BY <1>1, <2>3 DEF Darker
<1>5. CASE MarkTop \/ Sweep
  BY <1>2, <1>5 DEF MarkTop, Sweep, extras
<1>6. CASE MarkHeap \/ RestartPure \/ EndMain \/ EndWeakClean \/ WeakUnlink \/ EndMark \/ EndSweep
  <2>1. mem' = mem
    BY <1>6 DEF MarkHeap, RestartPure, EndMain, EndWeakClean, WeakUnlink, EndMark, EndSweep, heap
  <2> QED
    BY <1>1, <2>1
<1>7. CASE WeakClean
  <2>1. /\ Done /\ phase = "weak1" /\ ~ WeakEnd
        /\ mem' = [mem EXCEPT ![WeakCur].f = [i \in Field |-> IF Dead(@[i]) THEN None ELSE @[i]]]
    BY <1>7 DEF WeakClean
  <2>2. Safe = {a \in Major : mem[a].color = "black"}
    BY <2>1, AtDone DEF Safe
  <2>3. ASSUME NEW a \in Major, NEW i \in Field, mem[a].f[i] # None, mem'[a].f[i] = None
        PROVE  Dead(mem[a].f[i])
    <3>1. CASE a = WeakCur
      BY <2>1, <2>3, <3>1 DEF IInv, TypeOK, Block
    <3>2. CASE a # WeakCur
      BY <2>1, <2>3, <3>2 DEF IInv, TypeOK
    <3> QED
      BY <3>1, <3>2
  <2>4. ASSUME NEW v, Dead(v) PROVE v \notin Reachable
    BY <2>2, <2>4, ReachableIsSafe DEF Dead
  <2> QED
    BY <2>3, <2>4 DEF WeakErasure
<1> QED
  BY <1>3, <1>4, <1>5, <1>6, <1>7 DEF MajorSlice

\* The action of FinalisedIsDead.
Finalisation == \A v \in final'.todo \ final.todo : v \notin Reachable

\* caml_final_update takes what is white when marking is over.
LEMMA OnlyDeadAreFinalised ==
  ASSUME IInv, Next
  PROVE  Finalisation
<1>1. CASE final'.todo \subseteq final.todo
  BY <1>1 DEF Finalisation
<1>2. CASE Program
  <2>1. ASSUME NEW r \in Root, FinalRegister(r) \/ FinalCall(r) PROVE final'.todo \subseteq final.todo
    BY <2>1 DEF FinalRegister, FinalCall, IInv, TypeOK
  <2>2. ASSUME NEW r \in Root, AllocSmall(r) \/ Drop(r) \/ WeakCreate(r) \/ GenLoad(r)
        PROVE  final' = final
    BY <2>2 DEF AllocSmall, Drop, WeakCreate, GenLoad, extras
  <2>3. ASSUME NEW r \in Root, NEW s \in Root, AllocShr(r, s) PROVE final' = final
    BY <2>3 DEF AllocShr, extras
  <2>4. ASSUME NEW r \in Root, NEW s \in Root, NEW i \in Field,
               Load(r, s, i) \/ WeakGet(r, s, i) \/ WeakGetCopy(r, s, i)
        PROVE  final' = final
    BY <2>4 DEF Load, WeakGet, WeakGetCopy, extras
  <2>5. ASSUME NEW s \in Root, NEW i \in Field, NEW v \in Operand, Store(s, i, v) \/ WeakSet(s, i, v)
        PROVE  final' = final
    BY <2>5 DEF Store, WeakSet, extras
  <2>6. ASSUME NEW s \in Root, NEW d \in Root, NEW i \in Field, NEW j \in Field, WeakBlit(s, i, d, j)
        PROVE  final' = final
    BY <2>6 DEF WeakBlit, extras
  <2>7. ASSUME NEW v \in Operand, GenRegister(v) \/ GenModify(v) PROVE final' = final
    BY <2>7 DEF GenRegister, GenModify
  <2>8. GenRemove => final' = final
    BY DEF GenRemove
  <2> QED
    BY <1>1, <1>2, <2>1, <2>2, <2>3, <2>4, <2>5, <2>6, <2>7, <2>8 DEF Program
<1>3. CASE EmptyMinorHeap
  <2>1. PICK to : Forwarded(to)
    BY <1>3, MinorForwards
  <2> DEFINE W == {Moved(to, v) : v \in final.recent}
  <2>2. final' = [final EXCEPT !.old = @ \cup W, !.recent = {}]
    BY <2>1 DEF Forwarded
  <2> HIDE DEF W
  <2>3. final'.todo = final.todo
    BY <2>2 DEF IInv, TypeOK
  <2> QED
    BY <1>1, <2>3
<1>4. CASE MajorSlice /\ ~ FinalUpdate
  <2>1. final' = final
    BY <1>4 DEF MajorSlice, StartCycle, MarkTop, MarkHeap, RestartPure, EndMain, WeakClean,
                EndWeakClean, WeakUnlink, EndMark, Sweep, EndSweep, extras
  <2> QED
    BY <1>1, <2>1
<1>5. CASE FinalUpdate
  <2>1. Done /\ final' = [final EXCEPT !.old = @ \ {v \in final.old : Dead(v)},
                                       !.todo = @ \cup {v \in final.old : Dead(v)}]
    BY <1>5 DEF FinalUpdate
  <2>2. \A v \in final'.todo \ final.todo : Dead(v)
    BY <2>1 DEF IInv, TypeOK
  <2>3. Safe = {a \in Major : mem[a].color = "black"}
    BY <2>1, AtDone DEF Safe
  <2> QED
    BY <2>2, <2>3, ReachableIsSafe DEF Finalisation, Dead
<1> QED
  BY <1>2, <1>3, <1>4, <1>5 DEF Next

(***************************************************************************)
(* The subphase weak1 and caml_empty_minor_heap erase no weak pointer to a *)
(* value that the program can reach, and caml_final_update calls the       *)
(* function of no such value.                                              *)
(***************************************************************************)
THEOREM SpecOnlyDeadAreDropped ==
  ASSUME NotBoth
  PROVE  Spec => OnlyDeadAreDropped
<1>1. IInv /\ [Next]_vars => [WeakErasure]_vars
  BY ProgramDoesNotCollect, WeakErasureOfMinor, WeakErasureOfMajor DEF Next, WeakErasure
<1>2. IInv /\ [Next]_vars => [Finalisation]_vars
  BY OnlyDeadAreFinalised
<1> QED
  BY <1>1, <1>2, SpecIInv, PTL DEF Spec, OnlyDeadAreDropped, WeakIsErasedDead, FinalisedIsDead,
                                   WeakErasure, Finalisation

=============================================================================
