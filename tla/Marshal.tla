------------------------------ MODULE Marshal ------------------------------
(***************************************************************************)
(* The writer and the reader of marshalled values of the OCaml runtime,    *)
(* as it is compiled for the kernel: extern.c walks a graph of blocks,     *)
(* marks the blocks it has met in place and undoes the marks at the end;   *)
(* intern.c rebuilds the graph in one block whose size is in the header.   *)
(* A byte is a digit in base Base, a word is eight of them; a code is a    *)
(* cell of its own.                                                        *)
(***************************************************************************)
EXTENDS Integers, Sequences, SequencesExt

CONSTANTS
    Base,        \* one more than the largest byte
    SmallInt, SmallString, SmallTag, SmallSize,  \* limits of the one-byte forms
    OutBlock,    \* SIZE_EXTERN_OUTPUT_BLOCK
    TrailBlock   \* ENTRIES_PER_TRAIL_BLOCK

\* Tags of blocks, in the order of mlvalues.h; the ones below Lazy are free.
Lazy == 7
Closure == 8
Object == 9
Infix == 10
Forward == 11
Abstract == 12
String == 13
Double == 14
Custom == 15
TagLimit == 16
White == 0
Blue == 2

\* A value: an integer, a pointer to a block or into the middle of a closure,
\* an atom, a code pointer, a pointer out of the heap, or the raw contents of
\* a word: data, the operations of a custom block, the counter of a mark.
Value(t, n) == [t |-> t, n |-> n, s |-> <<>>]
Long(n) == Value("int", n)
Ptr(a) == Value("ptr", a)
Chars(s) == [t |-> "chars", n |-> Len(s), s |-> s]
InfixOffset == 24

Digits(n, k) == [i \in 1..k |-> (n \div Base^(k - i)) % Base]
Unsigned(d) == FoldLeft(LAMBDA n, x: n * Base + x, 0, d)
Signed(d) == IF d[1] >= Base \div 2 THEN Unsigned(d) - Base^Len(d) ELSE Unsigned(d)
Fits(n, k) == n >= -(Base^k \div 2) /\ n < Base^k \div 2
Header(size, color, tag) == (size * 4 + color) * TagLimit + tag

Code(c) == [code |-> c, n |-> 0, m |-> 0]
Prefix(c, n, m) == [code |-> c, n |-> n, m |-> m]

-----------------------------------------------------------------------------
\* The writer. Its state: the heap it walks, the trail, the counters, the
\* blocks of output that are full, the one being written and its capacity,
\* and the number of times malloc will succeed.

\* Mutant: the field is not put back.
ReplayColors(e) ==
    [e EXCEPT !.heap = FoldLeft(LAMBDA h, x: [h EXCEPT ![x.obj].color = x.color], @, e.trail), !.trail = <<>>]

\* Puts back what the marks overwrote.
ReplayTrail(e) ==
    [e EXCEPT
        !.heap = FoldLeft(LAMBDA h, x: [h EXCEPT ![x.obj].color = x.color, ![x.obj].f[1] = x.field0],
                          @, e.trail),
        !.trail = <<>>]

ExternFail(e, msg) == [ReplayTrail(e) EXCEPT !.fail = msg, !.done = <<>>, !.cur = <<>>]

\* Makes room for the cells, in a new block when the current one is short.
Emit(e, cells) ==
    IF e.fail # "none" THEN e
    ELSE IF Len(e.cur) + Len(cells) <= e.cap THEN [e EXCEPT !.cur = @ \o cells]
    ELSE IF e.user THEN ExternFail(e, "buffer overflow")
    ELSE IF e.mallocs = 0 THEN ExternFail(e, "out of memory")
    ELSE [e EXCEPT !.done = Append(@, e.cur), !.cur = cells, !.mallocs = @ - 1,
                   !.cap = OutBlock + (IF Len(cells) <= OutBlock \div 2 THEN 0 ELSE Len(cells))]

WriteCode(e, c, n, k) == Emit(e, <<Code(c)>> \o Digits(n, k))

\* Marks a block: blue, with its number in field 0.
RecordLocation(e, a) ==
    IF e.fail # "none" \/ e.ignore THEN e
    ELSE LET full == Len(e.trail) > 0 /\ Len(e.trail) % TrailBlock = 0 IN
         IF full /\ e.mallocs = 0 THEN ExternFail(e, "out of memory")
         ELSE [e EXCEPT
                 !.mallocs = IF full THEN @ - 1 ELSE @,
                 !.trail = Append(@, [obj |-> a, color |-> e.heap[a].color, field0 |-> e.heap[a].f[1]]),
                 !.heap[a].color = Blue,
                 !.heap[a].f[1] = Value("mark", e.counter),
                 !.counter = @ + 1]

Sized(e, s32, s64) == IF e.fail # "none" THEN e ELSE [e EXCEPT !.size32 = @ + s32, !.size64 = @ + s64]

\* Mutant: one byte is taken for unsigned.
WriteIntUnsigned(e, n) ==
    IF n >= 0 /\ n < SmallInt THEN Emit(e, <<Prefix("SMALL_INT", n, 0)>>)
    ELSE IF n > -Base /\ n < Base THEN WriteCode(e, "INT8", n, 1)
    ELSE IF ~ Fits(n, 4) THEN WriteCode(e, "INT64", n, 8)
    ELSE WriteCode(e, "INT32", n, 4)

WriteInt(e, n) ==
    IF n >= 0 /\ n < SmallInt THEN Emit(e, <<Prefix("SMALL_INT", n, 0)>>)
    ELSE IF Fits(n, 1) THEN WriteCode(e, "INT8", n, 1)
    ELSE IF Fits(n, 2) THEN WriteCode(e, "INT16", n, 2)
    ELSE IF ~ Fits(n, 4) THEN WriteCode(e, "INT64", n, 8)
    ELSE WriteCode(e, "INT32", n, 4)

\* What the word in field 0 of a forward block is taken for: a mark is a
\* pointer out of the heap when its number is even, an integer when it is odd.
AsValue(w) == IF w.t # "mark" THEN w
              ELSE IF w.n % 2 = 1 THEN Long(w.n \div 2) ELSE Value("out", w.n)

\* A forward block is skipped unless what it holds must stay behind one.
SkipsForward(h, v) == /\ v.t \notin {"code", "out"}
                      /\ v.t = "ptr" => h[v.n].tag \notin {Forward, Lazy, Double}

WriteAtom(e, tag) ==
    IF tag < SmallTag THEN Emit(e, <<Prefix("SMALL_BLOCK", tag, 0)>>)
    ELSE WriteCode(e, "BLOCK32", Header(0, White, tag), 4)

WriteShared(e, a) ==
    LET d == e.counter - e.heap[a].f[1].n IN
    IF d < Base THEN WriteCode(e, "SHARED8", d, 1)
    ELSE IF d < Base^2 THEN WriteCode(e, "SHARED16", d, 2)
    ELSE WriteCode(e, "SHARED32", d, 4)

WriteString(e, a) ==
    LET s == e.heap[a].f[1].s
        len == Len(s)
        e1 == IF len < SmallString THEN Emit(e, <<Prefix("SMALL_STRING", len, 0)>>)
              ELSE IF len < Base THEN WriteCode(e, "STRING8", len, 1)
              ELSE WriteCode(e, "STRING32", len, 4)
    IN  RecordLocation(Sized(Emit(e1, s), 1 + (len + 4) \div 4, 1 + (len + 8) \div 8), a)

\* The custom blocks of ints.c: identifier, size in bytes on either machine.
\* The fourth kind has no serialize function.
Int32Ops == 1
Int64Ops == 2
NativeOps == 3
OpaqueOps == 4

Serialize(e, ops, n) ==
    CASE ops = Int32Ops -> Emit(e, Digits(n, 4))
      [] ops = Int64Ops -> Emit(e, Digits(n, 8))
      [] ops = NativeOps -> IF Fits(n, 4) THEN Emit(Emit(e, <<1>>), Digits(n, 4))
                            ELSE Emit(Emit(e, <<2>>), Digits(n, 8))

SerializedSize(ops) == CASE ops = Int32Ops -> <<4, 4>> [] ops = Int64Ops -> <<8, 8>> [] ops = NativeOps -> <<4, 8>>

WriteCustom(e, a) ==
    LET ops == e.heap[a].f[1].n
        sz == SerializedSize(ops)
    IN  IF ops = OpaqueOps THEN ExternFail(e, "abstract value (Custom)")
        ELSE RecordLocation(
               Sized(Serialize(Emit(Emit(e, <<Code("CUSTOM")>>), <<ops, 0, 0>>), ops, e.heap[a].f[2].n),
                     2 + (sz[1] + 3) \div 4, 2 + (sz[2] + 7) \div 8), a)

WriteHeader(e, size, tag) ==
    LET hd == Header(size, White, tag) IN
    IF tag < SmallTag /\ size < SmallSize THEN Emit(e, <<Prefix("SMALL_BLOCK", tag, size)>>)
    ELSE IF hd >= Base^4 THEN WriteCode(e, "BLOCK64", hd, 8)
    ELSE WriteCode(e, "BLOCK32", hd, 4)

RECURSIVE ExternRec(_, _)
WriteBlock(e, a) ==
    LET b == e.heap[a]
        e1 == RecordLocation(Sized(WriteHeader(e, Len(b.f), b.tag), 1 + Len(b.f), 1 + Len(b.f)), a)
    IN  FoldLeft(ExternRec, e1, b.f)

ExternBlock(e, a) ==
    LET b == e.heap[a] IN
    IF b.tag = Forward /\ SkipsForward(e.heap, AsValue(b.f[1])) THEN ExternRec(e, AsValue(b.f[1]))
    ELSE IF b.color = Blue THEN WriteShared(e, a)
    ELSE CASE b.tag = String -> WriteString(e, a)
           [] b.tag = Abstract -> ExternFail(e, "abstract value (Abstract)")
           [] b.tag = Custom -> WriteCustom(e, a)
           [] OTHER -> WriteBlock(e, a)

ExternRec(e, v) ==
    IF e.fail # "none" THEN e
    ELSE CASE v.t = "int" -> WriteInt(e, v.n)
           [] v.t = "ptr" -> ExternBlock(e, v.n)
           [] v.t = "atom" -> WriteAtom(e, v.n)
           [] v.t = "infix" -> ExternRec(WriteCode(e, "INFIXPOINTER", InfixOffset, 4), Ptr(v.n))
           [] v.t = "code" -> IF ~ e.closures THEN ExternFail(e, "functional value")
                              ELSE Emit(WriteCode(e, "CODEPOINTER", v.n, 4), [i \in 1..16 |-> 0])
           [] v.t = "out" -> ExternFail(e, "abstract value (outside heap)")

Magic == <<3, 1, 2, 0>>
Hole == [i \in 1..16 |-> 0]

\* The output goes to a buffer of the caller (user) or to blocks from malloc.
ExternStart(h, flags, user, cap, mallocs) ==
    [heap |-> h, trail |-> <<>>, counter |-> 0, size32 |-> 0, size64 |-> 0,
     ignore |-> "NO_SHARING" \in flags, closures |-> "CLOSURES" \in flags,
     user |-> user, cap |-> cap, done |-> <<>>, cur |-> <<>>, mallocs |-> mallocs, fail |-> "none"]

\* The sizes are written into the hole when the value is out.
SizesWritten(e, out) ==
    IF Len(out) >= Base^4 \/ e.size32 >= Base^4 \/ e.size64 >= Base^4
    THEN [e |-> [e EXCEPT !.fail = "object too big"], out |-> <<>>]
    ELSE [e |-> e,
          out |-> SubSeq(out, 1, 4) \o Digits(Len(out) - 20, 4) \o Digits(e.counter, 4) \o Digits(e.size32, 4)
                  \o Digits(e.size64, 4) \o SubSeq(out, 21, Len(out))]
ExternFinish(e) ==
    IF e.fail # "none" THEN [e |-> e, out |-> <<>>]
    ELSE SizesWritten(ReplayTrail(e), FlattenSeq(Append(e.done, e.cur)))

\* A hole for the sizes, taken without a look at the limit.
MakeHole(e) == IF e.fail # "none" THEN e ELSE [e EXCEPT !.cur = @ \o Hole]
ExternValue(start, v) == ExternFinish(ExternRec(MakeHole(Emit(start, Magic)), v))

OutputToBlocks(h, v, flags, mallocs) ==
    ExternValue(ExternStart(h, flags, FALSE, OutBlock, mallocs), v)

OutputToBuffer(h, v, flags, len, mallocs) == ExternValue(ExternStart(h, flags, TRUE, len, mallocs), v)

-----------------------------------------------------------------------------
\* The reader. Its state: the input and the place in it, the blocks made so far
\* with the place of the next one (in words), the table of the blocks by number
\* (when there is one), the value just read. sound is FALSE when an assertion
\* of the code fails.

ReadDigits(r, k) == SubSeq(r.in, r.p, r.p + k - 1)
Skip(r, k) == [r EXCEPT !.p = @ + k]
Got(r, v) == [r EXCEPT !.v = v]

InternFail(r, msg) == [r EXCEPT !.fail = msg]

ReadInt(r, k) == Skip(Got(r, Long(Signed(ReadDigits(r, k)))), k)

\* A block at the place of the next one, entered in the table.
NewBlock(r, tag, size, fields) ==
    [r EXCEPT !.blocks = Append(@, [tag |-> tag, f |-> fields]),
              !.dest = @ + 1 + size,
              !.table = IF r.tabled THEN Append(@, Len(r.blocks) + 1) ELSE @,
              !.v = Ptr(Len(r.blocks) + 1)]

ReadShared(r, k) ==
    LET ofs == Unsigned(ReadDigits(r, k)) IN
    IF ofs > 0 /\ r.tabled /\ ofs <= Len(r.table)
    THEN Skip(Got(r, Ptr(r.table[Len(r.table) + 1 - ofs])), k)
    ELSE [r EXCEPT !.sound = FALSE, !.fail = "assertion"]

ReadString(r, len) ==
    Skip(NewBlock(r, String, (len + 8) \div 8, <<Chars(ReadDigits(r, len))>>), len)

\* Reads the data of a custom block: the value and the size it reports.
Deserialize(r, ops) ==
    CASE ops = Int32Ops -> [r |-> ReadInt(r, 4), size |-> 4]
      [] ops = Int64Ops -> [r |-> ReadInt(r, 8), size |-> 8]
      [] ops = NativeOps /\ r.in[r.p] = 1 -> [r |-> ReadInt(Skip(r, 1), 4), size |-> 8]
      [] ops = NativeOps /\ r.in[r.p] = 2 -> [r |-> ReadInt(Skip(r, 1), 8), size |-> 8]

ReadCustom(r) ==
    LET ops == r.in[r.p]
        d == Deserialize(Skip(r, 3), ops)
    IN  NewBlock(d.r, Custom, 1 + (d.size + 7) \div 8, <<Value("ops", ops), Value("data", d.r.v.n)>>)

RECURSIVE InternRec(_)
ReadField(r, id, i) ==
    LET q == InternRec(r) IN IF q.fail # "none" THEN q ELSE [q EXCEPT !.blocks[id].f[i] = q.v]

ReadBlock(r, tag, size) ==
    IF size = 0 THEN Got(r, Value("atom", tag))
    ELSE LET id == Len(r.blocks) + 1
             new == NewBlock(r, tag, size, [i \in 1..size |-> Value("unset", 0)])
         IN  Got(FoldLeft(LAMBDA q, i: ReadField(q, id, i), new, [i \in 1..size |-> i]), Ptr(id))

ReadHeader(r, k) ==
    LET hd == Unsigned(ReadDigits(r, k)) IN ReadBlock(Skip(r, k), hd % TagLimit, hd \div (TagLimit * 4))

\* The kernel's reader knows no code pointer: the message is ill formed.
InternRec(q) ==
    IF q.fail # "none" THEN q
    ELSE LET c == q.in[q.p]
             r == Skip(q, 1)
         IN  CASE c.code = "SMALL_BLOCK" -> ReadBlock(r, c.n, c.m)
               [] c.code = "SMALL_INT" -> Got(r, Long(c.n))
               [] c.code = "SMALL_STRING" -> ReadString(r, c.n)
               [] c.code = "INT8" -> ReadInt(r, 1)
               [] c.code = "INT16" -> ReadInt(r, 2)
               [] c.code = "INT32" -> ReadInt(r, 4)
               [] c.code = "INT64" -> ReadInt(r, 8)
               [] c.code = "SHARED8" -> ReadShared(r, 1)
               [] c.code = "SHARED16" -> ReadShared(r, 2)
               [] c.code = "SHARED32" -> ReadShared(r, 4)
               [] c.code = "BLOCK32" -> ReadHeader(r, 4)
               [] c.code = "BLOCK64" -> ReadHeader(r, 8)
               [] c.code = "STRING8" -> ReadString(Skip(r, 1), Unsigned(ReadDigits(r, 1)))
               [] c.code = "STRING32" -> ReadString(Skip(r, 4), Unsigned(ReadDigits(r, 4)))
               [] c.code = "INFIXPOINTER" -> LET s == InternRec(Skip(r, 4)) IN Got(s, Value("infix", s.v.n))
               [] c.code = "CUSTOM" -> ReadCustom(r)
               [] OTHER -> InternFail(r, "ill-formed message")

\* The destination is one block of size_64 words, a string as long as nothing
\* has been written over its header; a failure puts the header back.
InternAlloc(in, objects, whsize) ==
    [in |-> in, p |-> 21, blocks |-> <<>>, dest |-> 0, table |-> <<>>, tabled |-> whsize > 0 /\ objects > 0,
     v |-> Long(0), room |-> whsize, fail |-> "none", sound |-> TRUE]

InternCleanup(r) == IF r.fail = "none" THEN r ELSE [r EXCEPT !.blocks = <<>>, !.dest = 0]

\* Reads from a string, whose magic number nobody looks at.
InputFromString(in) ==
    InternCleanup(InternRec(InternAlloc(in, Unsigned(SubSeq(in, 9, 12)), Unsigned(SubSeq(in, 17, 20)))))

\* Reads from a block of len bytes.
InputFromBlock(in, len) ==
    LET start == InternAlloc(in, Unsigned(SubSeq(in, 9, 12)), Unsigned(SubSeq(in, 17, 20))) IN
    IF SubSeq(in, 1, 4) # Magic THEN InternFail(start, "bad object")
    ELSE IF 20 + Unsigned(SubSeq(in, 5, 8)) > len THEN InternFail(start, "bad block length")
    ELSE InternCleanup(InternRec(start))

DataSize(in) == IF SubSeq(in, 1, 4) # Magic THEN -1 ELSE Unsigned(SubSeq(in, 5, 8))
=============================================================================
