----------------------------- MODULE Primitives -----------------------------
(***************************************************************************)
(* The primitives of the OCaml runtime that compute: one action calls one  *)
(* of them on an input, and the properties compare what it returned with   *)
(* what it is meant to compute. A state is one call.                       *)
(***************************************************************************)
EXTENDS Compare, Bigarray, Tables, Engines, KernelStubs, Channel

CONSTANTS
    Messages,   \* calls of Marshal: heap, value, flags, mallocs that succeed, length of the buffer
    Graphs,     \* heaps whose values are compared: a heap and the values
    Limits,     \* pairs of counts for Hashtbl.hash_param
    Operations, Operands, Numerals,  \* arithmetic and the strings that are parsed
    Arrays,     \* bigarrays
    Roots, RootLevels, Pages, PageKinds, Names, MaxOps,
    Stacks,     \* frame tables, and chunks of frames
    LexTable, LexInputs, ParseTable, ParseInputs, Lengths,
    Views,      \* lists of views that are checksummed
    Clocks,     \* days and seconds
    MaxChannels, MaxHandles, MaxSent

VARIABLES op, arg, res
vars == <<op, arg, res>>

Init == op = "none" /\ arg = <<>> /\ res = <<>>

CallMarshal == \E m \in Messages:
    /\ op = "none" /\ op' = "marshal" /\ arg' = m
    /\ res' = IF m.len = -1 THEN OutputToBlocks(m.h, m.v, m.flags, m.mallocs)
              ELSE OutputToBuffer(m.h, m.v, m.flags, m.len, m.mallocs)

CallCompare == \E g \in Graphs:
    /\ op = "none" /\ op' = "compare" /\ arg' = g
    /\ res' = [order |-> [p \in g.vs \X g.vs |-> CamlCompare(g.h, p[1], p[2])],
               tests |-> [p \in g.vs \X g.vs |-> CamlTests(g.h, p[1], p[2])],
               hash |-> [v \in g.vs |-> [l \in Limits |-> HashUnivParam(g.h, v, l[1], l[2])]]]

CallArithmetic == \E f \in Operations, p, q \in Operands, bits \in {WordBits - 2, WordBits}:
    /\ f \in {"lsl", "asr", "lsr"} => q \in 0..(bits - 1)
    /\ op = "none" /\ op' = "arithmetic" /\ arg' = [f |-> f, p |-> Convert(p, bits), q |-> Convert(q, bits), bits |-> bits]
    /\ res' = Arithmetic(f, Convert(p, bits), Convert(q, bits), bits)

Widths == {WordBits \div 2, WordBits - 1, WordBits}
CallParse == \E s \in Numerals:
    /\ op = "none" /\ op' = "parse" /\ arg' = s
    /\ res' = [nat |-> [w \in Widths |-> ParseIntnat(s, w)], int64 |-> ParseInt64(s)]

\* Element i of the store of an array.
Filling(kind, n) == [p \in 0..n |-> Stored(kind, p * 97 - 300)]
CallBigarray == \E b \in Arrays:
    op = "none" /\ op' = "bigarray" /\ arg' = b /\ res' = Create(b.kind, b.layout, b.dims, b.room)

Multiply == \E a \in 0..(2^WordBits - 1):
    op = "none" /\ op' = "multov" /\ arg' = a /\ res' = [b \in 0..(2^WordBits - 1) |-> Multov(a, b)]

CallScan == \E s \in Stacks: op = "none" /\ op' = "stack" /\ arg' = s /\ res' = InitFrameDescriptors(s.tables)

CallLexer == \E x \in LexInputs:
    op = "none" /\ op' = "lexer" /\ arg' = x /\ res' = LexAll(LexTable, x.cap, 3, x.chunks, 3)

\* A parser is called twice in a row, in the same environment.
CallParser == \E x \in ParseInputs:
    /\ op = "none" /\ op' = "parser" /\ arg' = x
    /\ res' = LET first == Yyparse(ParseTable, ParserEnv(2), 5, x)
              IN  [first |-> first, again |-> Yyparse(ParseTable, first.env, 5, x)]

Digested(bytes) ==
    FoldLeft(LAMBDA r, n: [ctx |-> Md5Update(r.ctx, [i \in 1..n |-> r.at + i]), at |-> r.at + n],
             [ctx |-> Md5Init, at |-> 0], bytes)
CallDigest == \E x \in Lengths: op = "none" /\ op' = "digest" /\ arg' = x /\ res' = Md5Final(Digested(x).ctx)

CallChecksum == \E x \in Views:
    op = "none" /\ op' = "checksum" /\ arg' = x /\ res' = OnesComplementList(x)

CallGmtime == \E x \in Clocks: op = "none" /\ op' = "gmtime" /\ arg' = x /\ res' = Gmtime(x.day, x.sec)

-----------------------------------------------------------------------------
\* The tables live on: arg is what was put in, res the table.
Starts(name) == op \in {"none", name}

InsertRoot == \E r \in Roots, level \in RootLevels:
    /\ Starts("roots") /\ op' = "roots"
    /\ arg' = (IF op = "none" THEN {} ELSE arg) \cup {r}
    /\ res' = InsertGlobalRoot(IF op = "none" THEN NoRoots ELSE res, r, level)

DeleteRoot == \E r \in Roots:
    /\ op = "roots" /\ arg' = arg \ {r} /\ res' = DeleteGlobalRoot(res, r) /\ UNCHANGED op

EmptyRoots == op = "roots" /\ arg' = {} /\ res' = EmptyGlobalRoots(res) /\ UNCHANGED op

\* For each page the kinds it has, and those it may have since an update failed.
Unknown == [p \in Pages |-> [has |-> {}, may |-> {}]]
ChangePages == \E lo, hi \in Pages, kind \in PageKinds, room \in BOOLEAN, adds \in BOOLEAN:
    LET table == IF op = "none" THEN PageTableInitialize(1) ELSE res
        old == IF op = "none" THEN Unknown ELSE arg
        r == IF adds THEN PageTableAdd(table, kind, lo, hi, room) ELSE PageTableRemove(table, kind, lo, hi, room)
        new(x) == IF adds THEN [has |-> IF r.ok THEN x.has \cup {kind} ELSE x.has, may |-> x.may \cup {kind}]
                  ELSE [has |-> x.has \ {kind}, may |-> IF r.ok THEN x.may \ {kind} ELSE x.may]
    IN  /\ Starts("pages") /\ lo <= hi /\ op' = "pages"
        /\ arg' = [p \in Pages |-> IF p \in lo..hi THEN new(old[p]) ELSE old[p]]
        /\ res' = r.t

Register == \E name \in Names, v \in 1..2:
    /\ Starts("names") /\ op' = "names"
    /\ arg' = [x \in Names |-> IF x = name THEN v ELSE IF op = "none" THEN 0 ELSE arg[x]]
    /\ res' = RegisterNamedValue(IF op = "none" THEN NoNames ELSE res, name, v)

\* Two tables of operations under each identifier, MaxOps registrations.
RegisterOps == \E ident \in Names, id \in 1..2:
    /\ Starts("ops") /\ op' = "ops" /\ (op = "ops" => Len(res) < MaxOps)
    /\ arg' = [x \in Names |-> IF x = ident THEN id ELSE IF op = "none" THEN 0 ELSE arg[x]]
    /\ res' = RegisterCustomOperations(res, [ident |-> ident, id |-> id])

\* Channels: arg has how many bytes were output to each, and the values that hold it.
OpenChannel == \E output \in BOOLEAN:
    LET s == IF op = "none" THEN NoChannels ELSE res
        old == IF op = "none" THEN <<>> ELSE arg
    IN  /\ Starts("channels") /\ ~ s.fault /\ Len(s.chan) < MaxChannels
        /\ op' = "channels" /\ res' = OpenDescriptor(s, output) /\ arg' = Append(old, [sent |-> 0, held |-> 1])

\* The next n bytes of channel i.
Fresh(i, n) == [k \in 1..n |-> <<i, arg[i].sent + k>>]
Open(i, output) == op = "channels" /\ ~ res.fault /\ i \in DOMAIN arg /\ arg[i].held > 0 /\ IsOutput(res, i) = output
Sent(i, n) == arg' = [arg EXCEPT ![i].sent = @ + n] /\ UNCHANGED op
WriteChannel == \E i \in 1..MaxChannels, n \in 0..MaxSent:
    /\ Open(i, TRUE) /\ n + FoldLeft(LAMBDA m, x: m + x.sent, 0, arg) <= MaxSent
    /\ \/ res' = Output(res, i, Fresh(i, n)) /\ Sent(i, n)
       \/ LET r == PutBlock(res, i, Fresh(i, n)) IN res' = r.s /\ Sent(i, r.n)
       \/ n = 1 /\ res' = OutputChar(res, i, Fresh(i, n)[1]) /\ Sent(i, n)
       \/ n = 4 /\ res' = OutputInt(res, i, Fresh(i, n)) /\ Sent(i, n)

FlushChannel == \E i \in 1..MaxChannels: Open(i, TRUE) /\ res' = Flush(res, i) /\ UNCHANGED <<op, arg>>

ListChannels ==
    /\ op = "channels" /\ ~ res.fault /\ \A i \in DOMAIN arg: arg[i].held < MaxHandles
    /\ res' = OutChannelsList(res) /\ UNCHANGED op
    /\ arg' = [i \in DOMAIN arg |-> IF i \in ToSet(OutChannels(res)) THEN [arg[i] EXCEPT !.held = @ + 1] ELSE arg[i]]

DropChannel == \E i \in 1..MaxChannels:
    /\ op = "channels" /\ ~ res.fault /\ i \in DOMAIN arg /\ arg[i].held > 0
    /\ res' = FinalizeChannel(res, i) /\ arg' = [arg EXCEPT ![i].held = @ - 1] /\ UNCHANGED op

ReadChannel == \E i \in 1..MaxChannels, n \in 0..1:
    /\ Open(i, FALSE) /\ res' \in {Input(res, i, n), InputChar(res, i), SeekIn(res, i, n), CloseChannel(res, i)} /\ UNCHANGED <<op, arg>>

SeekChannel == \E i \in 1..MaxChannels:
    Open(i, TRUE) /\ res' \in {SeekOut(res, i), CloseChannel(res, i)} /\ UNCHANGED <<op, arg>>

Next == \/ CallMarshal \/ CallCompare \/ CallArithmetic \/ CallParse \/ CallBigarray \/ Multiply
        \/ CallScan \/ CallLexer \/ CallParser \/ CallDigest
        \/ CallChecksum \/ CallGmtime \/ OpenChannel \/ WriteChannel \/ FlushChannel \/ ListChannels
        \/ DropChannel \/ ReadChannel \/ SeekChannel
        \/ InsertRoot \/ DeleteRoot \/ EmptyRoots \/ ChangePages \/ Register \/ RegisterOps
Spec == Init /\ [][Next]_vars
-----------------------------------------------------------------------------
RECURSIVE Resolved(_, _)
Resolved(h, v) == IF v.t = "ptr" /\ h[v.n].tag = Forward /\ SkipsForward(h, h[v.n].f[1])
                  THEN Resolved(h, h[v.n].f[1]) ELSE v
Leaf(b) == b.tag \in {String, Custom, Abstract}
Fields(h, v) == IF v.t = "infix" THEN {Ptr(v.n)}
                ELSE IF v.t # "ptr" \/ Leaf(h[v.n]) THEN {}
                ELSE {Resolved(h, h[v.n].f[i]): i \in DOMAIN h[v.n].f}
RECURSIVE ReachedFrom(_, _)
ReachedFrom(h, V) == LET W == V \cup UNION {Fields(h, v): v \in V} IN IF W = V THEN V ELSE ReachedFrom(h, W)
Values(h, v) == ReachedFrom(h, {Resolved(h, v)})
Addresses(V) == {v.n: v \in {x \in V: x.t = "ptr"}}

\* What cannot be written at all.
Unwritable(h, v, flags) == \E x \in Values(h, v):
    \/ x.t = "out"
    \/ x.t = "code" /\ "CLOSURES" \notin flags
    \/ x.t = "ptr" /\ h[x.n].tag \in {Abstract, Custom} /\ (h[x.n].tag = Custom => h[x.n].f[1].n = OpaqueOps)

\* Pairs of a value and the value read back for it.
AlikeHere(h, g, v, w) ==
    /\ v.t = w.t
    /\ v.t \notin {"ptr", "infix"} => v = w
    /\ v.t = "ptr" => /\ h[v.n].tag = g[w.n].tag /\ Len(h[v.n].f) = Len(g[w.n].f)
                      /\ Leaf(h[v.n]) => h[v.n].f = g[w.n].f
Below(h, g, v, w) ==
    IF v.t = "infix" THEN {<<Ptr(v.n), Ptr(w.n)>>}
    ELSE IF v.t # "ptr" \/ Leaf(h[v.n]) THEN {}
    ELSE {<<Resolved(h, h[v.n].f[i]), g[w.n].f[i]>>: i \in DOMAIN h[v.n].f}
RECURSIVE Paired(_, _, _)
Paired(h, g, P) ==
    IF \E p \in P: ~ AlikeHere(h, g, p[1], p[2]) THEN P
    ELSE LET Q == P \cup UNION {Below(h, g, p[1], p[2]): p \in P} IN IF Q = P THEN P ELSE Paired(h, g, Q)

\* The two graphs have the same shape, and the same sharing if it is kept.
SameGraph(h, v, g, w, sharing) ==
    LET P == Paired(h, g, {<<Resolved(h, v), w>>})
        B == {p \in P: p[1].t = "ptr"}
    IN  /\ \A p \in P: AlikeHere(h, g, p[1], p[2])
        /\ \A p, q \in B: p[2] = q[2] => p[1] = q[1]
        /\ sharing => \A p, q \in B: p[1] = q[1] => p[2] = q[2]

\* A forward block that stays and that two fields point to.
SharedForward(h, v) == \E a \in Addresses(Values(h, v)):
    /\ h[a].tag = Forward
    /\ Cardinality({x \in Addresses(Values(h, v)) \X (1..4): ~ Leaf(h[x[1]]) /\ x[2] \in DOMAIN h[x[1]].f
                       /\ Resolved(h, h[x[1]].f[x[2]]) = Ptr(a)}) > 1

ReadsBack(m, e, r) ==
    /\ r.sound
    /\ IF \E x \in Values(m.h, m.v): x.t = "code" THEN r.fail = "ill-formed message"
       ELSE /\ r.fail = "none" /\ r.p = Len(r.in) + 1 /\ r.dest = r.room
            /\ r.tabled => Len(r.table) = e.counter
            /\ SameGraph(m.h, m.v, r.blocks, r.v, "NO_SHARING" \notin m.flags)

RoundTrips(m) ==
    /\ res.e.fail = "none" => /\ ReadsBack(m, res.e, InputFromString(res.out))
                              /\ ReadsBack(m, res.e, InputFromBlock(res.out, Len(res.out)))
                              /\ InputFromBlock(res.out, Len(res.out) - 1).fail = "bad block length"
                              /\ DataSize(res.out) = Len(res.out) - 20
    /\ res.e.fail = "none" => ~ Unwritable(m.h, m.v, m.flags)
    /\ Unwritable(m.h, m.v, m.flags) \/ res.e.fail \in {"none", "out of memory", "buffer overflow", "object too big"}

\* What is written is read back as the same graph, with the same sharing unless
\* it was asked to be lost; the message is exactly as long as its header says
\* and fills the block that is allocated for it (extern.c, intern.c).
RoundTrip == op = "marshal" /\ ~ SharedForward(arg.h, arg.v) => RoundTrips(arg)

\* The same of forward blocks that are shared.
SharedForwardRoundTrip == op = "marshal" => RoundTrips(arg)

\* The program's blocks are as they were (extern_replay_trail).
HeapIsRestored == op = "marshal" => res.e.heap = arg.h

\* The buffer of the caller is not overrun, and is refused only when it is too
\* short (caml_output_value_to_buffer).
BufferIsRespected == op = "marshal" /\ arg.len # -1 =>
    LET full == OutputToBlocks(arg.h, arg.v, arg.flags, 99) IN
    /\ Len(res.out) <= arg.len
    /\ full.e.fail = "none" /\ arg.mallocs > 9 => (res.e.fail = "buffer overflow") = (Len(full.out) > arg.len)
    /\ res.e.fail = "none" => res.out = full.out

\* Whatever happens while it writes, the writer undoes its marks in the program's
\* blocks and stays in the buffer it was given.
WriterIsContained == HeapIsRestored /\ BufferIsRespected

-----------------------------------------------------------------------------
RECURSIVE Resolve(_, _)
Resolve(h, v) == IF IsForward(h, v) THEN Resolve(h, h[v.n].f[1]) ELSE v

\* Comparison as a recursion over the two values: the first field that differs.
Precedes(s, t) == \E k \in 0..Len(s): /\ k < Len(t) /\ \A i \in 1..k: s[i] = t[i]
                                      /\ (k = Len(s) \/ s[k + 1] < t[k + 1])
RECURSIVE Order(_, _, _, _)
Order(h, v, w, total) ==
    LET a == Resolve(h, v)
        b == Resolve(h, w)
        fields == [i \in 1..Len(Contents(h, a)) |-> Order(h, h[a.n].f[i], h[b.n].f[i], total)]
        differ == {i \in DOMAIN fields: fields[i] # 0}
    IN  IF total /\ a = b THEN 0
        ELSE IF a.t = "int" \/ b.t = "int"
             THEN IF a.t = b.t THEN Sign(a.n, b.n) ELSE IF a.t = "int" THEN -1 ELSE 1
        ELSE IF ~ InArea(a) \/ ~ InArea(b) THEN Sign(Address(a), Address(b))
        ELSE IF TagOf(h, a) # TagOf(h, b) THEN Sign(TagOf(h, a), TagOf(h, b))
        ELSE CASE TagOf(h, a) = String -> LET s == h[a.n].f[1].s
                                           t == h[b.n].f[1].s
                                       IN  IF s = t THEN 0 ELSE IF Precedes(s, t) THEN -1 ELSE 1
               [] TagOf(h, a) \in {Abstract, Closure, Infix} -> Failed
               [] TagOf(h, a) = Object -> Sign(h[a.n].f[2].n, h[b.n].f[2].n)
               [] TagOf(h, a) = Custom -> CompareCustom(h[a.n], h[b.n])
               [] Len(Contents(h, a)) # Len(Contents(h, b)) -> Sign(Len(Contents(h, a)), Len(Contents(h, b)))
               [] differ = {} -> 0
               [] OTHER -> fields[CHOOSE i \in differ: \A j \in differ: i <= j]

\* The number of blocks on the way down that are not the last field of another.
RECURSIVE Pending(_, _)
Pending(h, v) ==
    LET a == Resolve(h, v)
        f == IF a.t # "ptr" \/ Leaf(h[a.n]) THEN <<>> ELSE h[a.n].f
        below == {Pending(h, f[i]) + (IF i < Len(f) THEN 1 ELSE 0): i \in DOMAIN f}
    IN  IF below = {} THEN 0 ELSE CHOOSE n \in below: \A m \in below: m <= n

OrderIsLexicographic == op = "compare" => \A p \in arg.vs \X arg.vs:
    LET h == arg.h
        c == res.order[p]
        o == Order(h, p[1], p[2], TRUE)
        e == Order(h, p[1], p[2], FALSE)
        t == res.tests[p]
    IN  /\ c = Exhausted => Pending(h, p[1]) >= StackMax \div 2 - 1
        /\ c # Exhausted => c = o
        /\ ~ Raised(c) => /\ res.order[<<p[2], p[1]>>] = -c
                          /\ \A v \in arg.vs: c <= 0 /\ res.order[<<p[2], v>>] <= 0 => res.order[<<p[1], v>>] <= 0
        /\ t.eq # "raised" => /\ ~ Raised(e)
                              /\ t = [eq |-> Test(0, e = 0), ne |-> Test(0, e # 0), lt |-> Test(0, e < 0),
                                      le |-> Test(0, e <= 0), gt |-> Test(0, e > 0), ge |-> Test(0, e >= 0)]

EqualHashEqually == op = "compare" => \A p \in arg.vs \X arg.vs:
    res.tests[p].eq = "true" => res.hash[p[1]] = res.hash[p[2]]

\* The walk with a stack of its own computes the lexicographic order, which does
\* not see forward blocks, and is total wherever it does not raise; it gives up
\* only when more fields are pending than the stack may hold (compare_val). Equal
\* values hash to the same number, however many nodes are looked at
\* (caml_hash_univ_param).
ComparesInOrder == OrderIsLexicographic /\ EqualHashEqually

-----------------------------------------------------------------------------
\* Numbers without a width.
Within(n, bits) == n >= MinInt(bits) /\ n < -MinInt(bits)
IsExact(a, r) ==
    LET p == a.p
        q == a.q
        alike(n) == (r.n - n) % 2^a.bits = 0
        u == UnsignedOf(r.n, a.bits)
        other(f) == Arithmetic(f, p, q, a.bits).n
        truncates(m) == Magnitude(m) < Magnitude(q) /\ (m = 0 \/ (m < 0) = (p < 0))
    IN  CASE a.f = "neg" -> alike(-p) [] a.f = "add" -> alike(p + q)
          [] a.f = "sub" -> alike(p - q) [] a.f = "mul" -> alike(p * q)
          [] a.f = "div" -> truncates(p - q * r.n) \/ (p = MinInt(a.bits) /\ q = -1 /\ alike(-p))
          [] a.f = "mod" -> truncates(r.n) /\ (p - r.n) % Magnitude(q) = 0
          [] a.f \in {"and", "or", "xor"} -> /\ other("and") + other("or") = p + q
                                             /\ other("or") - other("and") = other("xor")
          [] a.f = "lsl" -> alike(p * 2^q)
          [] a.f = "asr" -> r.n * 2^q <= p /\ p < (r.n + 1) * 2^q
          [] a.f = "lsr" -> u * 2^q <= UnsignedOf(p, a.bits) /\ UnsignedOf(p, a.bits) < (u + 1) * 2^q

\* What a numeral stands for.
Spelled(s) ==
    LET h == ParseSignAndBase(s)
        rest == SubSeq(s, h.p, Len(s))
        digits == SelectSeq(rest, LAMBDA x: x.c # "_")
    IN  [ok |-> rest # <<>> /\ rest[1].c # "_" /\ \A i \in DOMAIN digits: digits[i].d < h.base,
         n |-> FoldLeft(LAMBDA n, x: IF x.d >= h.base THEN 0 ELSE n * h.base + x.d, 0, digits), sign |-> h.sign, base |-> h.base]
Represents(r, s, bits) ==
    LET x == Spelled(s) IN
    /\ r.ok = (x.ok /\ IF x.base = 10 THEN Within(x.sign * x.n, bits) ELSE x.n < 2^bits)
    /\ r.ok => r.n = Wrapped(x.sign * x.n, bits)

\* The day after a date.
MonthLength(d) == IF d.mon = 1 /\ IsLeap(d.year + 1900) THEN 29 ELSE <<31, 28, 31, 30, 31, 30, 31, 31, 30, 31, 30, 31>>[d.mon + 1]
DayAfter(d) ==
    LET w == [d EXCEPT !.wday = (@ + 1) % 7, !.yday = @ + 1, !.mday = @ + 1] IN
    IF d.mday < MonthLength(d) THEN w
    ELSE IF d.mon < 11 THEN [w EXCEPT !.mday = 1, !.mon = @ + 1]
    ELSE [w EXCEPT !.mday = 1, !.mon = 0, !.year = @ + 1, !.yday = 0]

\* Arithmetic is exact modulo the width, with a division that truncates and never
\* traps; a string is read as the number it spells, at every width, exactly when
\* that number fits (parse_intnat, caml_int64_of_string); a time is the date that
\* follows that of the day before, from the first of January 1970 (kern_gmtime).
NumbersAreExact ==
    /\ op = "arithmetic" => IF arg.f \in {"div", "mod"} /\ arg.q = 0 THEN res.why = "Division_by_zero"
                            ELSE res.ok /\ Within(res.n, arg.bits) /\ IsExact(arg, res)
    /\ op = "parse" => Represents(res.int64, arg, WordBits) /\ \A w \in Widths: Represents(res.nat[w], arg, w)
    /\ op = "multov" => \A b \in DOMAIN res: res[b].overflow = (arg * b >= 2^WordBits)
    /\ op = "gmtime" => /\ res.sec + 60 * (res.min + 60 * res.hour) = arg.sec /\ res.sec < 60 /\ res.min < 60
                        /\ IF arg.day = 0 THEN <<res.mday, res.mon, res.year, res.wday, res.yday>> = <<1, 0, 70, 4, 0>>
                           ELSE res = DayAfter(Gmtime(arg.day - 1, arg.sec))

-----------------------------------------------------------------------------
\* Bigarrays: the elements of one, and the views of it.
Base0(b) == IF b.layout = "c" THEN 0 ELSE 1
Indices(b) == {x \in [DOMAIN b.dims -> 0..3]: \A i \in DOMAIN x: x[i] - Base0(b) \in 0..(b.dims[i] - 1)}
Around(b) == [DOMAIN b.dims -> -1..4]
Joined(b, inds, rest) == IF b.layout = "c" THEN inds \o rest ELSE rest \o inds
Moved1(b, index, ofs) == LET i == IF b.layout = "c" THEN 1 ELSE Len(index) IN [index EXCEPT ![i] = @ + ofs - Base0(b)]

SlicesWell(st, b) == \A k \in 0..Len(b.dims): \A inds \in [1..k -> 0..3]:
    LET s == Slice(b, inds) IN
    /\ s.why = "too many indices" <=> k = Len(b.dims)
    /\ s.why = "" => \A x \in Indices(s.b): Get(st, s.b, x) = Get(st, b, Joined(b, inds, x))
NarrowsWell(st, b) == \A ofs, len \in -1..3:
    LET s == SubArray(b, ofs, len)
        n == IF b.layout = "c" THEN Head(b.dims) ELSE Last(b.dims)
    IN  /\ s.why = "" <=> len >= 0 /\ ofs >= Base0(b) /\ ofs + len <= n + Base0(b)
        /\ s.why = "" => \A x \in Indices(s.b): Get(st, s.b, x) = Get(st, b, Moved1(b, x, ofs))
ReadsAndWrites(st, b) == \A x \in Around(b):
    /\ (Get(st, b, x).why = "") = (x \in Indices(b))
    /\ x \in Indices(b) => LET w == Set(st, b, x, 7) IN
                           /\ Get(w, b, x).n = Stored(b.kind, 7)
                           /\ \A y \in Indices(b) \ {x}: Get(w, b, y) = Get(st, b, y)

\* A created array has room for every element and only then; every element has a
\* place of its own, indices out of bounds are refused, and a slice or a
\* sub-array shows the elements of the array it was made from
\* (caml_ba_create, caml_ba_offset, caml_ba_slice, caml_ba_sub).
ViewsPlaceElements == op = "bigarray" =>
    LET n == NumElts(arg.dims) * ElementSize(arg.kind) IN
    IF res.why # ""
    THEN res.why = "Out_of_memory" =>
           ~ arg.room \/ n >= 2^WordBits \/ \E k \in DOMAIN arg.dims: NumElts(SubSeq(arg.dims, 1, k)) >= 2^WordBits
    ELSE /\ res.bytes = n
         /\ LET st == Filling(arg.kind, NumElts(arg.dims))
                b == res.b
            IN ReadsAndWrites(st, b) /\ SlicesWell(st, b) /\ NarrowsWell(st, b)

\* An array that was marshalled, copied or reshaped has the elements it had,
\* compares equal and hashes alike; only the marshalled int64 arrays do not.
CopiesKeepElements == op = "bigarray" /\ res.why = "" =>
    LET b == res.b
        n == NumElts(b.dims)
        st == [p \in 0..(2 * n) |-> IF p < n THEN Filling(b.kind, n)[p] ELSE Stored(b.kind, p)]
        c == [b EXCEPT !.at = n]
        copied == Blit(st, b, c).store
        m == BigarrayDeserialize(BigarraySerialize(st, b))
    IN  /\ BigarrayCompare(copied, b, c) = 0 /\ BigarrayHash(copied, b) = BigarrayHash(copied, c)
        /\ Elements(copied, b) = Elements(st, b)
        /\ n > 0 => /\ BigarrayCompare(st, b, c) = -BigarrayCompare(st, c, b)
                    /\ LET f == Fill(st, c, 7) IN BigarrayCompare(f, b, c) = 0 <=> \A p \in 0..(n - 1): f[p] = f[n]
        /\ b.kind # "int64" => m.why = "" /\ m.elements = Elements(st, b) /\ m.left = 0 /\ m.dims = b.dims
        /\ \A d \in {<<n>>, <<1, n>>, <<n + 1>>}:
             LET r == Reshape(b, d) IN IF r.why = "" THEN Elements(st, r.b) = Elements(st, b) ELSE d = <<n + 1>>

\* Views share the elements of their array, copies have them: both find each
\* element where it was put (caml_ba_sub, caml_ba_slice, caml_ba_blit,
\* caml_ba_reshape, caml_ba_serialize).
ElementsArePlaced == ViewsPlaceElements /\ CopiesKeepElements

-----------------------------------------------------------------------------
\* Tables.
Sorted(S) == SetToSortSeq(S, <)

\* The skip list holds the roots that were registered and not removed, each
\* once; the upper levels are shorter lists of the same, and no level above the
\* list's own is in use (caml_insert_global_root, caml_delete_global_root).
RootsAreASortedSet == op = "roots" =>
    /\ IterateGlobalRoots(res) = Sorted(arg)
    /\ DOMAIN res.next = arg \cup {0}
    /\ \A i \in 0..MaxLevel: LET c == Chain(res, 0, i) IN c = Sorted(ToSet(c)) /\ ToSet(c) \subseteq arg
    /\ res.level > 0 => res.next[0][res.level] # Nil
    /\ \A i \in (res.level + 1)..MaxLevel: res.next[0][i] = Nil

\* A page is found with the kinds it was given, also after the table grew; a
\* failed update leaves each page with its kinds of before or after; the table is
\* at most half full, so that a search ends (caml_page_table_lookup).
PagesAreFound == op = "pages" =>
    /\ \A p \in Pages: arg[p].has \subseteq PageTableLookup(res, p) /\ PageTableLookup(res, p) \subseteq arg[p].may
    /\ res.occupancy = Cardinality({i \in DOMAIN res.entries: res.entries[i].page # 0})
    /\ 2 * res.occupancy <= res.size /\ res.size = 2^(PageBits - res.shift)

\* The last value registered under a name is found (caml_register_named_value),
\* and the last operations under an identifier (caml_find_custom_operations).
NamesAreFound ==
    /\ op = "names" => \A x \in Names: NamedValue(res, x) = arg[x]
    /\ op = "ops" => \A x \in Names: FindCustomOperations(res, x) = arg[x]

\* A stack as the compiled code lays it out, from the oldest chunk of frames to
\* the one on top: each frame ends with the return address into its caller, and
\* the chunk with the link to the chunk before. The roots are noted meanwhile.
LayFrame(s, d, next) ==
    [s EXCEPT !.stack = @ \o [i \in 1..d.size |-> IF i = d.size THEN next ELSE 0],
              !.roots = @ \cup {IF o.reg THEN <<"reg", s.regs, o.at>>
                                ELSE <<"stack", Len(s.stack) + 1 + o.at, 0>>: o \in ToSet(d.live)}]
LayChunk(old, chunk) ==
    LET s == [old EXCEPT !.regs = @ + 1]
        laid == FoldLeft(LAMBDA x, i: LayFrame(x, chunk[i], IF i = Len(chunk) THEN 1 ELSE chunk[i + 1].ret), s,
                         [i \in DOMAIN chunk |-> i])
    IN  [laid EXCEPT !.stack = @ \o <<0, 0, [bottom |-> old.sp, ret |-> old.ret, regs |-> old.regs]>>,
                     !.sp = Len(old.stack) + 1, !.ret = chunk[1].ret]
LaidOut(chunks) == FoldLeft(LayChunk, [stack |-> <<>>, roots |-> {}, sp |-> 0, ret |-> 0, regs |-> 0], chunks)

\* Every descriptor is found by its return address, and the walk of the stack
\* finds the roots of all frames, across the C code between the chunks
\* (init_frame_descriptors, caml_do_local_roots).
FramesAreFound == op = "stack" =>
    LET all == FlattenSeq(arg.tables)
        s == LaidOut(arg.chunks)
    IN  /\ \A i \in DOMAIN all: FrameOf(res, all[i].ret) = all[i]
        /\ ScanStack(res, s.stack, s.sp, s.ret, s.regs) = s.roots

\* The skip list, the page table, the named values and the custom operations
\* find what was added and not removed, after any sequence of updates, and the
\* collector every frame of a stack (globroots.c, memory.c, callback.c, roots.c).
LookupsFind == RootsAreASortedSet /\ PagesAreFound /\ NamesAreFound /\ FramesAreFound

-----------------------------------------------------------------------------
\* The lexer of MC: rules a (0), aab (1), b+ (2), end of input (3). The longest
\* match counts; the memory of b+ has the place behind the first letter and, if
\* there are more, behind the last one.
Letters(s, p, c) == CHOOSE k \in 0..(Len(s) - p):
    (\A i \in 1..k: s[p + i] = c) /\ (p + k = Len(s) \/ s[p + k + 1] # c)
MatchAt(s, p) ==
    IF p = Len(s) THEN [action |-> 3, len |-> 0]
    ELSE IF s[p + 1] = 1 THEN IF Letters(s, p, 1) >= 2 /\ p + 3 <= Len(s) /\ s[p + 3] = 2 THEN [action |-> 1, len |-> 3]
                              ELSE [action |-> 0, len |-> 1]
    ELSE IF s[p + 1] = 2 THEN [action |-> 2, len |-> Letters(s, p, 2)]
    ELSE [action |-> None, len |-> 0]
RECURSIVE Expected(_, _)
Expected(s, p) ==
    LET m == MatchAt(s, p)
        mem == [i \in 0..2 |-> IF m.action # 2 THEN None
                               ELSE IF i = 0 THEN p + 1 ELSE IF m.len = 1 THEN None ELSE p + m.len]
    IN  IF m.action = None THEN <<[action |-> "failure", from |-> p]>>
        ELSE <<[action |-> m.action, from |-> p, to |-> p + m.len, mem |-> mem]>>
             \o (IF m.action = 3 THEN <<>> ELSE Expected(s, p + m.len))

\* The tokens are the longest matches of the input, with their places and their
\* remembered positions, however the input is cut into chunks and the buffer is
\* shifted and grown (caml_new_lex_engine, Lexing.lex_refill).
TokensAreMaximal == op = "lexer" => res = Expected(FlattenSeq(arg.chunks), 0)

\* The grammar of MC: main -> list EOF, list -> empty | list item,
\* item -> A | ( list ) | error ;  The tokens EOF, A, (, ), ; are 0 to 4.
\* A prefix of a sentence without errors has only A and balanced parentheses.
RECURSIVE Nesting(_, _)
Nesting(x, k) == IF k = 0 THEN 0
                 ELSE LET d == Nesting(x, k - 1) IN
                      IF d < 0 THEN d
                      ELSE CASE x[k].code = 1 -> d [] x[k].code = 2 -> d + 1 [] x[k].code = 3 -> d - 1
                             [] x[k].code = 0 /\ d = 0 -> 0 [] OTHER -> -1
FirstBad(x) == {k \in DOMAIN x: Nesting(x, k) < 0 /\ \A j \in 1..(k - 1): Nesting(x, j) >= 0}

\* What action is called at the end of token k, of A or of a closing parenthesis:
\* that of the opening one, if any.
Opening(x, k) == {j \in 1..k: /\ x[j].code = 2 /\ Nesting(x, k) = Nesting(x, j) - 1
                              /\ \A i \in j..(k - 1): Nesting(x, i) >= Nesting(x, j)}
Raises(x, k) == \/ x[k].code = 1 /\ x[k].lval.bad
                \/ x[k].code = 3 /\ \E j \in Opening(x, k): x[j].lval.bad
\* The errors up to the first.
FirstErrors(x) ==
    LET all == {[at |-> k, what |-> "syntax"]: k \in FirstBad(x)}
               \cup {[at |-> k, what |-> "action"]: k \in {j \in DOMAIN x: Raises(x, j)}}
    IN  {m \in all: \A n \in all: m.at <= n.at}

\* The yield of a tree.
RECURSIVE Yield(_)
Yield(v) ==
    IF v.rule = 0 THEN <<v.tok>>
    ELSE FlattenSeq([i \in DOMAIN v.kids |-> IF v.rule = 6 /\ i = 1 THEN <<>> ELSE Yield(v.kids[i])])
RECURSIVE Placed(_)
Placed(v) ==
    /\ v.from <= v.to
    /\ \A i \in DOMAIN v.kids: v.rule # 6 \/ i # 1 =>
         LET k == v.kids[i] IN Placed(k) /\ (k.from # k.to => k.from >= v.from /\ k.to <= v.to)
Codes(x) == [i \in DOMAIN x |-> x[i].code]
\* A tree of the grammar, all of whose actions have returned. What error stands
\* for has no value of its own.
RECURSIVE Derived(_)
Derived(v) ==
    LET token(i, c) == v.kids[i].rule = 0 /\ v.kids[i].tok = c
        node(i, rules) == v.kids[i].rule \in rules /\ Derived(v.kids[i])
    IN  CASE v.rule = 2 -> Len(v.kids) = 2 /\ node(1, {2, 3}) /\ node(2, {4, 5, 6})
          [] v.rule = 3 -> v.kids = <<>>
          [] v.rule = 4 -> Len(v.kids) = 1 /\ token(1, 1) /\ ~ v.kids[1].bad
          [] v.rule = 5 -> Len(v.kids) = 3 /\ token(1, 2) /\ ~ v.kids[1].bad /\ node(2, {2, 3}) /\ token(3, 3)
          [] v.rule = 6 -> Len(v.kids) = 2 /\ token(2, 4)
          [] v.rule = 1 -> Len(v.kids) = 2 /\ node(1, {2, 3}) /\ token(2, 0)

\* A sentence whose actions return is accepted without an error and the tree
\* spells it; otherwise the first error is at the first token that no sentence
\* goes on with, or that ends a symbol whose action raises Parse_error. What is
\* accepted after a recovery is a tree of the grammar too, without a symbol whose
\* action raised. The parser leaves its environment as it found it, so that a
\* second parse of the same input, on the stacks that have grown, ends alike
\* (caml_parse_engine, yyparse).
ParsesTheGrammar == op = "parser" =>
    LET r == res.first
        kept(e) == <<e.asp, e.sp, e.base, e.state, e.curr, e.err>>
    IN  /\ (r.ok /\ r.errors = <<>>) <=> FirstErrors(arg) = {}
        /\ FirstErrors(arg) # {} => r.errors # <<>> /\ {Head(r.errors)} = FirstErrors(arg)
        /\ r.ok /\ r.errors = <<>> => Yield(r.v) = Codes(arg)
        /\ r.ok => Derived(r.v) /\ Placed(r.v)
        /\ kept(r.env) = kept(ParserEnv(2)) /\ kept(res.again.env) = kept(ParserEnv(2))
        /\ res.again.ok = r.ok /\ res.again.v = r.v /\ res.again.errors = r.errors

-----------------------------------------------------------------------------
\* What is printed of a channel, and is still in its buffer, is what was output to
\* it, in that order; and a channel that somebody holds is listed.
ChannelsPrintInOrder == op = "channels" =>
    /\ \A i \in DOMAIN arg: IsOutput(res, i) =>
         LET c == res.chan[i]
             listed == i \in ToSet(res.list)
             all == SelectSeq(res.out, LAMBDA b: b[1] = i) \o IF listed THEN SubSeq(c.buff, 1, c.curr) ELSE <<>>
         IN  /\ all = [k \in 1..Len(all) |-> <<i, k>>]
             /\ listed <=> arg[i].held > 0
             /\ listed /\ ~ res.fault => Len(all) = arg[i].sent /\ PosOut(res, i) = arg[i].sent
    /\ \A b \in ToSet(res.out): b # Garbage

\* RFC 1071: the ones' complement of the sum of the words, modulo 65535.
RFC1071(bytes) ==
    LET word(i) == bytes[i] * IF i % 2 = 1 THEN 256 ELSE 1
        total == FoldLeftDomain(LAMBDA n, i: n + word(i), 0, bytes)
    IN  65535 - IF total = 0 THEN 0 ELSE ((total - 1) % 65535) + 1
EvenViews(views) == \A k \in DOMAIN views: k < Len(views) => Len(views[k]) % 2 = 0

\* MD5 pads the message with 1, zeros and the length, whatever the pieces it came
\* in (caml_MD5Update, caml_MD5Final).
Padded(n) ==
    LET bits == [i \in 1..n |-> i] \o <<Md5Pad>>
        total == CHOOSE t \in Len(bits)..(Len(bits) + 2 * Md5Block):
                     /\ t % Md5Block = 0 /\ t >= Len(bits) + Md5Tail
                     /\ t < Len(bits) + Md5Tail + Md5Block
        flat == bits \o [i \in 1..(total - Len(bits) - 2) |-> 0] \o <<n \div 16, n % 16>>
    IN  [k \in 1..(total \div Md5Block) |-> SubSeq(flat, (k - 1) * Md5Block + 1, k * Md5Block)]
DigestIsPadded == op = "digest" => res = Padded(FoldLeft(LAMBDA n, k: n + k, 0, arg))

\* How bytes are cut into pieces does not show in what is made of them: in a digest,
\* in what a channel prints, and in the checksum of views of even length.
ChunksDoNotShow ==
    /\ DigestIsPadded /\ ChannelsPrintInOrder
    /\ op = "checksum" /\ EvenViews(arg) => res = RFC1071(FlattenSeq(arg)) /\ res = OnesComplement(FlattenSeq(arg), Len(FlattenSeq(arg)))

\* The checksum of a frame in several views is that of RFC 1071 (checksum.ml:17).
ChecksumIsRFC1071 == op = "checksum" => res = RFC1071(FlattenSeq(arg))
=============================================================================
