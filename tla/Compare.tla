------------------------------ MODULE Compare ------------------------------
(***************************************************************************)
(* Structural comparison and hashing of values (compare.c, hash.c), over   *)
(* the graphs of module Marshal. The kernel has no floats, so that no pair *)
(* of values is unordered. An operator returns 0, less or more; Failed     *)
(* stands for an exception and Exhausted for the overflow of the stack of  *)
(* fields that remain to be compared.                                      *)
(***************************************************************************)
EXTENDS Marshal

CONSTANTS
    StackInit, StackMax,  \* COMPARE_STACK_INIT_SIZE, COMPARE_STACK_MAX_SIZE
    HashAlpha, HashBeta, HashWord, HashMask  \* the multipliers, the range of a word and of a result

Failed == 1000000
Exhausted == 2000000

InArea(v) == v.t \in {"ptr", "infix", "atom"}
TagOf(h, v) == CASE v.t = "ptr" -> h[v.n].tag [] v.t = "infix" -> Infix [] v.t = "atom" -> v.n
Address(v) == IF v.t = "out" THEN v.n ELSE 100 + v.n
IsForward(h, v) == InArea(v) /\ TagOf(h, v) = Forward
Contents(h, v) == IF v.t = "atom" THEN <<>> ELSE h[v.n].f
Sign(a, b) == IF a > b THEN 1 ELSE IF a < b THEN -1 ELSE 0

\* Mutant: a prefix is equal.
CompareCommon(s, t) ==
    LET differ == {i \in DOMAIN s \cap DOMAIN t: s[i] # t[i]} IN
    IF differ = {} THEN 0 ELSE LET i == CHOOSE j \in differ: \A k \in differ: j <= k IN s[i] - t[i]

\* Byte by byte up to the shorter length, then by length.
CompareStrings(s, t) ==
    LET differ == {i \in DOMAIN s \cap DOMAIN t: s[i] # t[i]} IN
    IF differ = {} THEN Len(s) - Len(t)
    ELSE LET i == CHOOSE j \in differ: \A k \in differ: j <= k IN s[i] - t[i]

CompareCustom(b, c) == IF b.f[1].n = OpaqueOps THEN Failed ELSE Sign(b.f[2].n, c.f[2].n)

\* Each item of the stack holds the fields that two blocks have left.
RECURSIVE CompareFrom(_, _, _, _, _, _)
CompareNext(h, total, stack, limit) ==
    IF stack = <<>> THEN 0
    ELSE LET top == Last(stack)
             rest == Front(stack)
         IN  CompareFrom(h, total, Head(top.a), Head(top.b),
                         IF Len(top.a) = 1 THEN rest
                         ELSE Append(rest, [a |-> Tail(top.a), b |-> Tail(top.b)]), limit)

CompareFields(h, total, f, g, stack, limit) ==
    IF Len(f) # Len(g) THEN Len(f) - Len(g)
    ELSE IF f = <<>> THEN CompareNext(h, total, stack, limit)
    ELSE IF Len(f) = 1 THEN CompareFrom(h, total, f[1], g[1], stack, limit)
    ELSE LET full == Len(stack) + 1 >= limit IN
         IF full /\ 2 * limit >= StackMax THEN Exhausted
         ELSE CompareFrom(h, total, f[1], g[1], Append(stack, [a |-> Tail(f), b |-> Tail(g)]),
                          IF full THEN 2 * limit ELSE limit)

\* A result of zero goes on with what remains.
Otherwise(d, h, total, stack, limit) == IF d = 0 THEN CompareNext(h, total, stack, limit) ELSE d

CompareFrom(h, total, v, w, stack, limit) ==
    CASE v = w /\ total -> CompareNext(h, total, stack, limit)
      [] v.t = "int" /\ w.t = "int" -> Otherwise(v.n - w.n, h, total, stack, limit)
      [] v.t = "int" /\ w.t # "int" -> IF IsForward(h, w)
                                       THEN CompareFrom(h, total, v, h[w.n].f[1], stack, limit) ELSE -1
      [] v.t # "int" /\ w.t = "int" -> IF IsForward(h, v)
                                       THEN CompareFrom(h, total, h[v.n].f[1], w, stack, limit) ELSE 1
      [] OTHER ->
           IF ~ InArea(v) \/ ~ InArea(w) THEN Otherwise(Address(v) - Address(w), h, total, stack, limit)
           ELSE IF IsForward(h, v) THEN CompareFrom(h, total, h[v.n].f[1], w, stack, limit)
           ELSE IF IsForward(h, w) THEN CompareFrom(h, total, v, h[w.n].f[1], stack, limit)
           ELSE IF TagOf(h, v) # TagOf(h, w) THEN TagOf(h, v) - TagOf(h, w)
           ELSE LET t == TagOf(h, v) IN
                CASE t = String -> Otherwise(CompareStrings(h[v.n].f[1].s, h[w.n].f[1].s), h, total, stack, limit)
                  [] t \in {Abstract, Closure, Infix} -> Failed
                  [] t = Object -> Otherwise(h[v.n].f[2].n - h[w.n].f[2].n, h, total, stack, limit)
                  [] t = Custom -> Otherwise(CompareCustom(h[v.n], h[w.n]), h, total, stack, limit)
                  [] OTHER -> CompareFields(h, total, Contents(h, v), Contents(h, w), stack, limit)

CompareVal(h, v, w, total) == CompareFrom(h, total, v, w, <<>>, StackInit)

\* The entry points; a failure passes through.
Raised(c) == c \in {Failed, Exhausted}
CamlCompare(h, v, w) == LET c == CompareVal(h, v, w, TRUE) IN IF Raised(c) THEN c ELSE Sign(c, 0)
Test(c, holds) == IF Raised(c) THEN "raised" ELSE IF holds THEN "true" ELSE "false"
CamlTests(h, v, w) ==
    LET c == CompareVal(h, v, w, FALSE) IN
    [eq |-> Test(c, c = 0), ne |-> Test(c, c # 0), lt |-> Test(c, c < 0), le |-> Test(c, c <= 0),
     gt |-> Test(c, c > 0), ge |-> Test(c, c >= 0)]

-----------------------------------------------------------------------------
\* hash.c: the accumulator, the nodes that may still be met and the ones that
\* may still be counted.
Combined(s, multiplier, n) == [s EXCEPT !.accu = (@ * multiplier + n) % HashWord]
Counted(s) == [s EXCEPT !.count = @ - 1]

\* Mutant: by address.
HashPhysically(h, s, v) == Combined(Counted(s), HashAlpha, Address(v))
HashCustom(h, s, v) == IF h[v.n].f[1].n = OpaqueOps THEN s ELSE Combined(Counted(s), HashAlpha, h[v.n].f[2].n)

RECURSIVE HashBody(_, _, _)
HashAux(h, q, v) ==
    LET s == [q EXCEPT !.limit = @ - 1] IN
    IF s.count < 0 \/ s.limit < 0 THEN s ELSE HashBody(h, s, v)

HashBody(h, s, v) ==
    CASE v.t = "int" -> Combined(Counted(s), HashAlpha, v.n)
      [] v.t \in {"out", "code"} -> Combined(s, HashAlpha, Address(v))
      [] v.t = "infix" -> HashAux(h, s, Ptr(v.n))
      [] v.t \in {"ptr", "atom"} ->
           LET t == TagOf(h, v) IN
           CASE t = String -> FoldLeft(LAMBDA x, c: Combined(x, HashBeta, c), Counted(s), h[v.n].f[1].s)
             [] t = Abstract -> s
             [] t = Forward -> HashBody(h, s, h[v.n].f[1])
             [] t = Object -> Combined(Counted(s), HashAlpha, h[v.n].f[2].n)
             [] t = Custom -> HashCustom(h, s, v)
             [] OTHER -> FoldRight(LAMBDA x, y: HashAux(h, y, x), Contents(h, v),
                                   Combined(Counted(s), HashBeta, t))

HashUnivParam(h, v, count, limit) ==
    HashAux(h, [accu |-> 0, count |-> count, limit |-> limit], v).accu % HashMask
=============================================================================
