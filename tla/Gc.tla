--------------------------------- MODULE Gc ---------------------------------
(***************************************************************************)
(* The generational, incremental collector of the OCaml runtime: the minor *)
(* collection (minor_gc.c), the marker with its stack of gray values and   *)
(* its subphases (major_gc.c), the write barrier (memory.c, memory.h),     *)
(* weak arrays (weak.c), finalised values (finalise.c) and generational    *)
(* global roots (globroots.c), interleaved with a program that allocates,  *)
(* loads, stores, drops.  Free lists and sizes are those of module Heap;   *)
(* here each address of the major heap holds one block.                    *)
(*                                                                         *)
(* A step of the collector is one turn of the loop of mark_slice or        *)
(* sweep_slice.  The program runs between slices, so never between turns   *)
(* that cost no work (`run`), and a slice starts with an empty minor heap. *)
(***************************************************************************)
EXTENDS Integers, Sequences, FiniteSets, FiniteSetsExt, SequencesExt

CONSTANTS M,          \* blocks of the major heap, at the addresses 1..M
          Y,          \* blocks of the minor heap
          F,          \* fields of a block
          Root,       \* the program's roots: its stack, globals, local roots
          GrayMax,    \* entries of the stack of gray values
          MaxWeak,    \* weak arrays in the list, for TLC
          MaxFinal,   \* values registered with Gc.finalise, for TLC
          Room,       \* addresses that every program has, for TLC: those
                      \* above are for weak arrays, when no cycle is under way
          Programs    \* what programs use: sets of weak arrays, finalised
                      \* values and a generational root

None == 0   \* an immediate value, caml_weak_none, NULL
Major == 1..M
Young == M + 1..M + Y
Field == 1..F
Value == 0..M + Y

ASSUME GcAssumption ==
  /\ M \in Nat \ {0} /\ Y \in Nat /\ F \in Nat \ {0} /\ GrayMax \in Nat \ {0}
  /\ MaxWeak \in Nat /\ MaxFinal \in Nat /\ Room \in Nat /\ Programs \subseteq SUBSET {"weak", "final", "gen"}

VARIABLES mem,        \* the major heap: colour, kind and fields of each block
          young,      \* the fields of each block of the minor heap
          root,
          ref_table, weak_ref_table,  \* locations <<block, field>>
          gray,       \* gray_vals
          pure,       \* heap_is_pure
          markhp,
          phase,      \* caml_gc_phase, with the subphases of marking
          sweep_hp,
          run,        \* a slice is under way and has not used its work
          weaks,      \* the list from caml_weak_list_head on
          weak_prev,  \* the array whose link is weak_prev, None for the head
          final,      \* [old, recent, todo]: the sets of finalise.c
          gen,        \* [val, reg, young, old]: a generational root, whether it
                      \* is registered, and the lists it is in
          uses        \* what this program uses

heap == <<mem, young, ref_table, weak_ref_table>>
marker == <<gray, pure, markhp, phase, sweep_hp, run>>
extras == <<weaks, weak_prev, final, gen, uses>>
vars == <<heap, root, marker, extras>>

Marking == phase \in {"main", "weak1", "weak2", "final"}
Block == [color : {"free", "white", "gray", "black"}, kind : {"plain", "weak"},
          f : [Field -> Value]]
FreeBlock == [color |-> "free", kind |-> "plain", f |-> [i \in Field |-> None]]
Free == {a \in Major : mem[a].color = "free"
                       /\ (a <= Room \/ (phase = "idle" /\ "weak" \in uses))}
Content(o) == IF o \in Young THEN young[o] ELSE mem[o].f
Scanned(o) == o \in DOMAIN young \/ (o \in Major /\ mem[o].kind = "plain")

(* What the values V lead to. *)
Reach(V) ==
  LET from[n \in 0..M + Y] ==
        IF n = 0 THEN V \ {None}
        ELSE from[n - 1] \cup
             UNION {Range(Content(o)) \ {None} : o \in {p \in from[n - 1] : Scanned(p)}}
  IN from[M + Y]

GenValue == IF gen.reg THEN {gen.val} ELSE {}
Reachable == Reach(Range(root) \cup GenValue)

(***************************************************************************)
(* Darkening.  A marker state is [mem, gray, pure].  A push that fills the *)
(* stack grows it, or drops its upper half, or all of it if malloc fails;  *)
(* how far it has grown is left out: from GrayMax on each push may fill it. *)
(***************************************************************************)
OverflowedPure(g, p) ==
  {[gray |-> g, pure |-> p], [gray |-> SubSeq(g, 1, GrayMax \div 2), pure |-> p]}

Overflowed(g, p) ==
  {[gray |-> g, pure |-> p], [gray |-> SubSeq(g, 1, GrayMax \div 2), pure |-> FALSE],
   [gray |-> << >>, pure |-> FALSE]}

Pushed(s, v) ==
  LET g == Append(s.gray, v)
  IN IF Len(g) < GrayMax THEN {[s EXCEPT !.gray = g]}
     ELSE {[s EXCEPT !.gray = o.gray, !.pure = o.pure] : o \in Overflowed(g, s.pure)}

Colored(m, v, color) == [m EXCEPT ![v].color = color]

(* A white block is pushed; one of the kinds `leaves` is black at once.     *)
Shade(s, v, leaves) ==
  IF v \notin Major \/ s.mem[v].color # "white" THEN {s}
  ELSE IF s.mem[v].kind \in leaves THEN {[s EXCEPT !.mem = Colored(@, v, "black")]}
  ELSE Pushed([s EXCEPT !.mem = Colored(@, v, "gray")], v)

Darken(s, v) == Shade(s, v, {"weak"})

ShadeAll(s, vs, leaves) ==
  LET after[n \in 0..Len(vs)] ==
        IF n = 0 THEN {s} ELSE UNION {Shade(t, vs[n], leaves) : t \in after[n - 1]}
  IN after[Len(vs)]

DarkenAll(s, vs) == ShadeAll(s, vs, {"weak"})

Marker == [mem |-> mem, gray |-> gray, pure |-> pure]
Becomes(s) == mem' = s.mem /\ gray' = s.gray /\ pure' = s.pure

AllocationColor(a) ==
  IF Marking \/ (phase = "sweep" /\ a >= sweep_hp) THEN "black" ELSE "white"

(***************************************************************************)
(* The program.                                                            *)
(***************************************************************************)
Mutator == ~run

AllocSmall(r) ==
  /\ Mutator
  /\ Young \ DOMAIN young # {}
  /\ LET y == Min(Young \ DOMAIN young)
     IN /\ young' = [o \in DOMAIN young \cup {y} |->
                       IF o = y THEN [i \in Field |-> None] ELSE young[o]]
        /\ root' = [root EXCEPT ![r] = y]
  /\ UNCHANGED <<mem, ref_table, weak_ref_table, marker, extras>>

(* caml_alloc_shr, and caml_initialize of the first field with a root.      *)
AllocShr(r, s) ==
  /\ Mutator
  /\ \E a \in Free :
       /\ mem' = [mem EXCEPT ![a] = [color |-> AllocationColor(a), kind |-> "plain",
                                     f |-> [i \in Field |-> IF i = 1 THEN root[s] ELSE None]]]
       /\ root' = [root EXCEPT ![r] = a]
       /\ ref_table' = IF root[s] \in Young THEN ref_table \cup {<<a, 1>>} ELSE ref_table
  /\ UNCHANGED <<young, weak_ref_table, marker, extras>>

Load(r, s, i) ==
  /\ Mutator
  /\ Scanned(root[s])
  /\ root' = [root EXCEPT ![r] = Content(root[s])[i]]
  /\ UNCHANGED <<heap, marker, extras>>

Drop(r) ==
  /\ Mutator
  /\ root' = [root EXCEPT ![r] = None]
  /\ UNCHANGED <<heap, marker, extras>>

(* The states of the marker after the value `old` of a field is overwritten *)
(* in the major heap.                                                       *)
BarrierOfMain(old) == IF phase = "main" THEN Darken(Marker, old) ELSE {Marker}

Barrier(old) == IF Marking THEN Darken(Marker, old) ELSE {Marker}

\* Mutant: an old value that is a block is taken for one of the minor heap.
RememberFirst(table, at, old, v) ==
  IF v \in Young /\ old = None THEN table \cup {at} ELSE table

Remember(table, at, old, v) ==
  IF v \in Young /\ old \notin Young THEN table \cup {at} ELSE table

WithField(m, o, i, v) == [m EXCEPT ![o].f[i] = v]

(* Modify (&Field (o, i), v). *)
Modify(o, i, v) ==
  IF o \in Young
  THEN /\ young' = [young EXCEPT ![o][i] = v]
       /\ UNCHANGED <<mem, ref_table, weak_ref_table, marker>>
  ELSE LET old == mem[o].f[i]
       IN /\ \E s \in Barrier(old) : Becomes([s EXCEPT !.mem = WithField(@, o, i, v)])
          /\ ref_table' = Remember(ref_table, <<o, i>>, old, v)
          /\ UNCHANGED <<young, weak_ref_table, markhp, phase, sweep_hp, run>>

Store(s, i, v) ==
  /\ Mutator
  /\ Scanned(root[s])
  /\ Modify(root[s], i, v)
  /\ UNCHANGED <<root, extras>>

-----------------------------------------------------------------------------
(* Weak arrays. *)

IsWeak(v) == v \in Major /\ mem[v].color # "free" /\ mem[v].kind = "weak"

WeakCreate(r) ==
  /\ Mutator
  /\ "weak" \in uses /\ Len(weaks) < MaxWeak
  /\ \E a \in Free :
       /\ mem' = [mem EXCEPT ![a] = [color |-> AllocationColor(a), kind |-> "weak",
                                     f |-> [i \in Field |-> None]]]
       /\ root' = [root EXCEPT ![r] = a]
       /\ weaks' = <<a>> \o weaks
  /\ UNCHANGED <<young, ref_table, weak_ref_table, marker, weak_prev, final, gen, uses>>

(* do_set *)
DoSet(m, a, i, v) ==
  /\ mem' = WithField(m, a, i, v)
  /\ weak_ref_table' = Remember(weak_ref_table, <<a, i>>, m[a].f[i], v)

WeakSet(s, i, v) ==
  /\ Mutator
  /\ IsWeak(root[s])
  /\ DoSet(mem, root[s], i, v)
  /\ UNCHANGED <<young, root, ref_table, marker, extras>>

WeakGetPlain(r, s, i) ==
  /\ Mutator
  /\ IsWeak(root[s]) /\ mem[root[s]].f[i] # None
  /\ root' = [root EXCEPT ![r] = mem[root[s]].f[i]]
  /\ UNCHANGED <<heap, marker, extras>>

WeakGet(r, s, i) ==
  /\ Mutator
  /\ IsWeak(root[s]) /\ mem[root[s]].f[i] # None
  /\ root' = [root EXCEPT ![r] = mem[root[s]].f[i]]
  /\ \E t \in Barrier(mem[root[s]].f[i]) : Becomes(t)
  /\ UNCHANGED <<young, ref_table, weak_ref_table, markhp, phase, sweep_hp, run, extras>>

(* caml_weak_get_copy: the fields of the value are darkened and copied to a *)
(* young block.                                                             *)
WeakGetCopy(r, s, i) ==
  /\ Mutator
  /\ IsWeak(root[s]) /\ Scanned(mem[root[s]].f[i])
  /\ Young \ DOMAIN young # {}
  /\ LET y == Min(Young \ DOMAIN young)
         v == mem[root[s]].f[i]
     IN /\ young' = [o \in DOMAIN young \cup {y} |-> IF o = y THEN Content(v) ELSE young[o]]
        /\ root' = [root EXCEPT ![r] = y]
        /\ \E t \in IF Marking THEN DarkenAll(Marker, Content(v)) ELSE {Marker} : Becomes(t)
  /\ UNCHANGED <<ref_table, weak_ref_table, markhp, phase, sweep_hp, run, extras>>

(* caml_weak_blit of one entry.                                             *)
WeakBlit(s, i, d, j) ==
  /\ Mutator
  /\ IsWeak(root[s]) /\ IsWeak(root[d])
  /\ LET v == mem[root[s]].f[i]
         dead == phase = "weak1" /\ v \in Major /\ mem[v].color = "white"
     IN IF dead THEN DoSet(WithField(mem, root[s], i, None), root[d], j, None)
        ELSE DoSet(mem, root[d], j, v)
  /\ UNCHANGED <<young, root, ref_table, marker, extras>>

-----------------------------------------------------------------------------
(* Finalised values.  The closures are left out. *)

FinalRegister(r) ==
  /\ Mutator
  /\ "final" \in uses /\ root[r] # None
  /\ root[r] \notin final.old \cup final.recent \cup final.todo
  /\ Cardinality(final.old \cup final.recent \cup final.todo) < MaxFinal
  /\ final' = [final EXCEPT !.recent = @ \cup {root[r]}]
  /\ UNCHANGED <<heap, root, marker, weaks, weak_prev, gen, uses>>

(* caml_final_do_calls hands a value to its function.                        *)
FinalCall(r) ==
  /\ Mutator
  /\ \E v \in final.todo :
       /\ final' = [final EXCEPT !.todo = @ \ {v}]
       /\ root' = [root EXCEPT ![r] = v]
  /\ UNCHANGED <<heap, marker, weaks, weak_prev, gen, uses>>

-----------------------------------------------------------------------------
(* A generational global root.  Inserted into a list by the value it has.    *)

GenRegister(v) ==
  /\ Mutator
  /\ "gen" \in uses /\ ~gen.reg
  /\ gen' = [val |-> v, reg |-> TRUE, young |-> gen.young \/ v \in Young,
             old |-> gen.old \/ v \in Major]
  /\ UNCHANGED <<heap, root, marker, weaks, weak_prev, final, uses>>

GenRemove ==
  /\ Mutator
  /\ gen.reg
  /\ gen' = [gen EXCEPT !.val = None, !.reg = FALSE,
                        !.young = @ /\ gen.val \notin Young,
                        !.old = @ /\ gen.val \notin Major]
  /\ UNCHANGED <<heap, root, marker, weaks, weak_prev, final, uses>>

GenModifyKept(v) ==
  /\ Mutator
  /\ gen.reg
  /\ gen' = [gen EXCEPT !.val = v]
  /\ UNCHANGED <<heap, root, marker, weaks, weak_prev, final, uses>>

GenModify(v) ==
  /\ Mutator
  /\ gen.reg
  /\ gen' = LET old == gen.val
                g == [gen EXCEPT !.val = v]
            IN IF v \in Young /\ old \in Major
               THEN [g EXCEPT !.old = FALSE, !.young = TRUE]
               ELSE IF old = None /\ v # None
               THEN [g EXCEPT !.young = @ \/ v \in Young, !.old = @ \/ v \in Major]
               ELSE IF old # None /\ v = None
               THEN [g EXCEPT !.young = @ /\ old \notin Young, !.old = @ /\ old \notin Major]
               ELSE g
  /\ UNCHANGED <<heap, root, marker, weaks, weak_prev, final, uses>>

GenLoad(r) ==
  /\ Mutator
  /\ gen.reg
  /\ root' = [root EXCEPT ![r] = gen.val]
  /\ UNCHANGED <<heap, marker, extras>>

Operand == Range(root) \cup {None}

Program ==
  \/ \E r \in Root : AllocSmall(r) \/ Drop(r) \/ WeakCreate(r) \/ FinalRegister(r)
                     \/ FinalCall(r) \/ GenLoad(r)
  \/ \E r, s \in Root : AllocShr(r, s)
  \/ \E r, s \in Root, i \in Field : Load(r, s, i) \/ WeakGet(r, s, i) \/ WeakGetCopy(r, s, i)
  \/ \E s \in Root, i \in Field, v \in Operand : Store(s, i, v) \/ WeakSet(s, i, v)
  \/ \E s, d \in Root, i, j \in Field : WeakBlit(s, i, d, j)
  \/ \E v \in Operand : GenRegister(v) \/ GenModify(v)
  \/ GenRemove

(***************************************************************************)
(* The minor collection: what roots, remembered fields, the recent set and *)
(* the young generational root lead to is copied to the major heap; the    *)
(* remembered weak pointers follow or are erased.                          *)
(***************************************************************************)
(* Without young blocks only the recent set is emptied.                      *)
MinorRoots ==
  Range(root) \cup {mem[l[1]].f[l[2]] : l \in ref_table} \cup final.recent
    \cup IF gen.young /\ gen.reg THEN {gen.val} ELSE {}

Injections(S, T) == {g \in [S -> T] : \A x, y \in S : x # y => g[x] # g[y]}

EmptyMinorHeap ==
  /\ Mutator
  /\ DOMAIN young # {} \/ final.recent # {}
  /\ LET kept == Reach(MinorRoots \cap Young) \cap Young
     IN \E to \in Injections(kept, Free) :
          LET Fwd(v) == IF v \in kept THEN to[v] ELSE v
              copy == [a \in Range(to) |->
                         [color |-> AllocationColor(a), kind |-> "plain",
                          f |-> [i \in Field |-> Fwd(young[CHOOSE y \in kept : to[y] = a][i])]]]
              at(a, i) == IF <<a, i>> \in ref_table THEN Fwd(mem[a].f[i])
                          ELSE IF <<a, i>> \in weak_ref_table /\ mem[a].f[i] \in Young
                          THEN (IF mem[a].f[i] \in kept THEN to[mem[a].f[i]] ELSE None)
                          ELSE mem[a].f[i]
          IN /\ mem' = [a \in Major |-> IF a \in Range(to) THEN copy[a]
                                        ELSE [mem[a] EXCEPT !.f = [i \in Field |-> at(a, i)]]]
             /\ root' = [r \in Root |-> Fwd(root[r])]
             /\ final' = [final EXCEPT !.old = @ \cup {Fwd(v) : v \in final.recent}, !.recent = {}]
             /\ gen' = IF young = << >> \/ ~gen.young THEN gen
                        ELSE [gen EXCEPT !.val = Fwd(@), !.old = TRUE, !.young = FALSE]
  /\ young' = << >> /\ ref_table' = {} /\ weak_ref_table' = {}
  /\ UNCHANGED <<marker, weaks, weak_prev, uses>>

(***************************************************************************)
(* The major collection.                                                   *)
(***************************************************************************)
Slice == young = << >> /\ final.recent = {}

GenScanned == IF (gen.young \/ gen.old) /\ gen.reg THEN {gen.val} ELSE {}

StartCycle ==
  /\ Slice /\ phase = "idle"
  /\ \A a \in Major : a > Room => mem[a].color = "free"
  /\ \E s \in DarkenAll(Marker, SetToSeq((Range(root) \cup GenScanned \cup final.todo) \ {None})) :
       Becomes(s)
  /\ phase' = "main" /\ markhp' = None /\ run' = FALSE
  /\ UNCHANGED <<young, root, ref_table, weak_ref_table, sweep_hp, extras>>

(* The top of the stack is blackened and its children are pushed.            *)
MarkTop ==
  /\ Slice /\ Marking /\ gray # << >>
  /\ LET v == Last(gray)
         s == [mem |-> Colored(mem, v, "black"), gray |-> Front(gray), pure |-> pure]
     IN \E t \in IF Scanned(v) THEN ShadeAll(s, mem[v].f, {}) ELSE {s} : Becomes(t)
  /\ run' = FALSE
  /\ UNCHANGED <<young, root, ref_table, weak_ref_table, markhp, phase, sweep_hp, extras>>

Exhausted == Slice /\ Marking /\ gray = << >>

(* markhp walks the heap for gray blocks that the stack has lost.            *)
MarkHeap ==
  /\ Exhausted /\ markhp # None
  /\ IF markhp > M THEN markhp' = None /\ gray' = gray
     ELSE /\ gray' = IF mem[markhp].color = "gray" THEN <<markhp>> ELSE gray
          /\ markhp' = markhp + 1
  /\ run' = TRUE
  /\ UNCHANGED <<heap, root, pure, phase, sweep_hp, extras>>

RestartPure ==
  /\ Exhausted /\ markhp = None /\ ~pure
  /\ pure' = TRUE /\ markhp' = 1 /\ run' = TRUE
  /\ UNCHANGED <<heap, root, gray, phase, sweep_hp, extras>>

Done == Exhausted /\ markhp = None /\ pure

EndMain ==
  /\ Done /\ phase = "main"
  /\ phase' = "weak1" /\ weak_prev' = None /\ run' = TRUE
  /\ UNCHANGED <<heap, root, gray, pure, markhp, sweep_hp, weaks, final, gen, uses>>

(* The place in the list after weak_prev, and what is there. *)
WeakAt == IF weak_prev = None THEN 1 ELSE 1 + CHOOSE k \in DOMAIN weaks : weaks[k] = weak_prev
WeakEnd == WeakAt > Len(weaks)
WeakCur == weaks[WeakAt]

Dead(v) == v \in Major /\ mem[v].color = "white"

WeakClean ==
  /\ Done /\ phase = "weak1" /\ ~WeakEnd
  /\ mem' = [mem EXCEPT ![WeakCur].f = [i \in Field |-> IF Dead(@[i]) THEN None ELSE @[i]]]
  /\ weak_prev' = WeakCur /\ run' = FALSE
  /\ UNCHANGED <<young, ref_table, weak_ref_table, root, gray, pure, markhp, phase, sweep_hp,
                 weaks, final, gen, uses>>

EndWeakClean ==
  /\ Done /\ phase = "weak1" /\ WeakEnd
  /\ phase' = "weak2" /\ weak_prev' = None /\ run' = TRUE
  /\ UNCHANGED <<heap, root, gray, pure, markhp, sweep_hp, weaks, final, gen, uses>>

(* An array that is dead leaves the list.                                    *)
WeakUnlink ==
  /\ Done /\ phase = "weak2" /\ ~WeakEnd
  /\ IF Dead(WeakCur) THEN weaks' = RemoveAt(weaks, WeakAt) /\ UNCHANGED weak_prev
     ELSE weak_prev' = WeakCur /\ UNCHANGED weaks
  /\ run' = FALSE
  /\ UNCHANGED <<heap, root, gray, pure, markhp, phase, sweep_hp, final, gen, uses>>

(* caml_final_update: the dead finalisable values are darkened and wait for   *)
(* their call.                                                                *)
FinalUpdate ==
  /\ Done /\ phase = "weak2" /\ WeakEnd
  /\ LET dead == {v \in final.old : Dead(v)}
     IN /\ final' = [final EXCEPT !.old = @ \ dead, !.todo = @ \cup dead]
        /\ \E s \in DarkenAll(Marker, SetToSeq(dead)) : Becomes(s)
  /\ phase' = "final" /\ run' = TRUE
  /\ UNCHANGED <<young, ref_table, weak_ref_table, root, markhp, sweep_hp, weaks, weak_prev, gen, uses>>

EndMark ==
  /\ Done /\ phase = "final"
  /\ phase' = "sweep" /\ sweep_hp' = 1 /\ weak_prev' = None /\ run' = FALSE
  /\ UNCHANGED <<heap, root, gray, pure, markhp, weaks, final, gen, uses>>

Sweep ==
  /\ Slice /\ phase = "sweep" /\ sweep_hp <= M
  /\ mem' = [mem EXCEPT ![sweep_hp] =
               IF @.color = "white" THEN FreeBlock
               ELSE IF @.color = "black" THEN [@ EXCEPT !.color = "white"] ELSE @]
  /\ sweep_hp' = sweep_hp + 1 /\ run' = FALSE
  /\ UNCHANGED <<young, ref_table, weak_ref_table, root, gray, pure, markhp, phase, extras>>

EndSweep ==
  /\ Slice /\ phase = "sweep" /\ sweep_hp > M
  /\ phase' = "idle" /\ sweep_hp' = None /\ run' = FALSE
  /\ UNCHANGED <<heap, root, gray, pure, markhp, extras>>

MajorSlice ==
  \/ StartCycle \/ MarkTop \/ MarkHeap \/ RestartPure
  \/ EndMain \/ WeakClean \/ EndWeakClean \/ WeakUnlink \/ FinalUpdate \/ EndMark
  \/ Sweep \/ EndSweep

Init ==
  /\ mem = [a \in Major |-> FreeBlock] /\ young = << >>
  /\ root = [r \in Root |-> None]
  /\ ref_table = {} /\ weak_ref_table = {}
  /\ gray = << >> /\ pure = TRUE /\ markhp = None
  /\ phase = "idle" /\ sweep_hp = None /\ run = FALSE
  /\ weaks = << >> /\ weak_prev = None
  /\ final = [old |-> {}, recent |-> {}, todo |-> {}]
  /\ gen = [val |-> None, reg |-> FALSE, young |-> FALSE, old |-> FALSE]
  /\ uses \in Programs

Next == Program \/ EmptyMinorHeap \/ MajorSlice

Spec == Init /\ [][Next]_vars

-----------------------------------------------------------------------------
TypeOK ==
  /\ mem \in [Major -> Block]
  /\ DOMAIN young \subseteq Young /\ young \in [DOMAIN young -> [Field -> Value]]
  /\ root \in [Root -> Value]
  /\ ref_table \subseteq Major \X Field /\ weak_ref_table \subseteq Major \X Field
  /\ gray \in Seq(Major) /\ pure \in BOOLEAN /\ markhp \in 0..M + 1
  /\ phase \in {"idle", "main", "weak1", "weak2", "final", "sweep"}
  /\ sweep_hp \in 0..M + 1 /\ run \in BOOLEAN
  /\ weaks \in Seq(Major) /\ weak_prev \in 0..M
  /\ final \in [old : SUBSET (Value \ {None}), recent : SUBSET (Value \ {None}),
                todo : SUBSET (Value \ {None})]
  /\ uses \in Programs
  /\ gen \in [val : Value, reg : BOOLEAN, young : BOOLEAN, old : BOOLEAN]

Allocated(v) == v \in DOMAIN young \/ (v \in Major /\ mem[v].color # "free")

(***************************************************************************)
(* Nothing the program can reach, nor what waits for its finaliser, was    *)
(* freed or left behind in the minor heap (minor_gc.c, major_gc.c): the    *)
(* barriers, the colours of new blocks, the remembered fields and the      *)
(* rescans after an overflow of the stack together.                        *)
(***************************************************************************)
NothingDangles == \A v \in Reach(Range(root) \cup GenValue \cup final.todo) : Allocated(v)

(***************************************************************************)
(* If heap_is_pure, the only gray objects are below gray_vals_cur in the   *)
(* stack or at markhp and above (major_gc.c:44-46), and the stack holds    *)
(* nothing else.                                                           *)
(***************************************************************************)
GrayIsFound ==
  /\ \A v \in Range(gray) : mem[v].color = "gray"
  /\ pure => \A a \in Major : mem[a].color = "gray" =>
                 a \in Range(gray) \/ (markhp # None /\ a >= markhp)

(***************************************************************************)
(* Every pointer from the major to the minor heap is in a table            *)
(* (memory.h:133-140, weak.c:59-72), or the minor collection misses it.    *)
(***************************************************************************)
YoungIsRemembered ==
  \A a \in Major, i \in Field :
    mem[a].f[i] \in Young => <<a, i>> \in ref_table \cup weak_ref_table

\* A step of a collection: the program never empties the minor heap, nor
\* turns the collector.
Collects ==
  (DOMAIN young # {} /\ DOMAIN young' = {}) \/ weak_prev' # weak_prev \/ phase' # phase

(***************************************************************************)
(* A collection erases a weak pointer only when its value is not reachable: *)
(* the minor collection, which moves what the roots and the remembered     *)
(* fields lead to and erases the other remembered weak pointers            *)
(* (minor_gc.c:251-259), and the subphase weak1 of the major one           *)
(* (major_gc.c:225-240), also of what the program gets from a weak array   *)
(* in between (weak.c:108-110).                                            *)
(***************************************************************************)
WeakIsErasedDead ==
  [][Collects =>
       \A a \in Major, i \in Field :
         mem[a].kind = "weak" /\ mem[a].f[i] # None /\ mem'[a].kind = "weak" /\ mem'[a].f[i] = None
         => mem[a].f[i] \notin Reachable]_vars

(***************************************************************************)
(* The weak arrays in the list are blocks, and what is not erased of them  *)
(* points to blocks (the subphases weak1 and weak2).                       *)
(***************************************************************************)
WeakListIsSound ==
  \A k \in DOMAIN weaks :
    /\ IsWeak(weaks[k])
    /\ \A i \in Field : mem[weaks[k]].f[i] # None => Allocated(mem[weaks[k]].f[i])

(***************************************************************************)
(* What the collector has to come back to, it finds: gray values, pointers *)
(* into the minor heap, weak arrays.                                       *)
(***************************************************************************)
WorkIsFound == TypeOK /\ GrayIsFound /\ YoungIsRemembered /\ WeakListIsSound

(***************************************************************************)
(* The same of the arrays that the program can reach: a weak pointer is    *)
(* full, that is, points to a value, or empty (weak.mli:28-29).            *)
(***************************************************************************)
WeakIsSound ==
  \A a \in Reachable : IsWeak(a) =>
    \A i \in Field : mem[a].f[i] # None => Allocated(mem[a].f[i])

(***************************************************************************)
(* A value is finalised only once it is unreachable (finalise.c:72-76).    *)
(***************************************************************************)
FinalisedIsDead ==
  [][\A v \in final'.todo \ final.todo : v \notin Reachable]_vars

(***************************************************************************)
(* No weak pointer to a value that is in use is erased, no such value is   *)
(* finalised.                                                              *)
(***************************************************************************)
OnlyDeadAreDropped == WeakIsErasedDead /\ FinalisedIsDead

=============================================================================
