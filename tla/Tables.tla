------------------------------- MODULE Tables -------------------------------
(***************************************************************************)
(* The lookup structures of the runtime: the skip list of global roots     *)
(* (globroots.c), the page table (memory.c), the frame descriptors and the *)
(* walk of the stack that uses them (roots.c), the named values            *)
(* (callback.c) and the custom operations (custom.c).                      *)
(***************************************************************************)
EXTENDS Integers, Sequences, SequencesExt, FiniteSets

CONSTANTS
    PageBits, HashFactor,  \* the width of a page number and the multiplier of its hash
    NameBuckets            \* Named_value_size

-----------------------------------------------------------------------------
\* A list of roots: forward pointers per node and level, the head being 0; a
\* root is a positive address, Nil ends a chain.
Nil == 1000
MaxLevel == 3
NoRoots == [level |-> 0, next |-> [n \in {0} |-> [i \in 0..MaxLevel |-> Nil]]]

RECURSIVE Before(_, _, _, _)
Before(l, e, i, r) == IF l.next[e][i] >= r THEN e ELSE Before(l, l.next[e][i], i, r)

\* The last node before r at each level in use, from the top level down.
RECURSIVE Cursors(_, _, _, _)
Cursors(l, e, i, r) ==
    LET here == Before(l, e, i, r) IN
    IF i = 0 THEN [j \in {0} |-> here]
    ELSE LET lower == Cursors(l, here, i - 1, r) IN [j \in 0..i |-> IF j = i THEN here ELSE lower[j]]

\* new is the level that random_level gives the node.
InsertGlobalRoot(l, r, new) ==
    LET found == Cursors(l, 0, l.level, r)
        update == [i \in 0..MaxLevel |-> IF i <= l.level THEN found[i] ELSE 0]
    IN  IF l.next[update[0]][0] = r THEN l
        ELSE LET node == [i \in 0..MaxLevel |-> IF i <= new THEN l.next[update[i]][i] ELSE Nil]
                 linked == [n \in DOMAIN l.next |->
                              [i \in 0..MaxLevel |-> IF i <= new /\ update[i] = n THEN r ELSE l.next[n][i]]]
             IN  [level |-> IF new > l.level THEN new ELSE l.level,
                  next |-> [n \in DOMAIN l.next \cup {r} |-> IF n = r THEN node ELSE linked[n]]]

DeleteGlobalRoot(l, r) ==
    LET update == Cursors(l, 0, l.level, r) IN
    IF l.next[update[0]][0] # r THEN l
    ELSE LET next == [n \in DOMAIN l.next \ {r} |->
                        [i \in 0..MaxLevel |-> IF i <= l.level /\ update[i] = n /\ l.next[n][i] = r
                                               THEN l.next[r][i] ELSE l.next[n][i]]]
             used == {i \in 1..l.level: next[0][i] # Nil}
         IN  [level |-> IF used = {} THEN 0 ELSE CHOOSE i \in used: \A j \in used: j <= i, next |-> next]

RECURSIVE Chain(_, _, _)
Chain(l, n, i) == IF l.next[n][i] = Nil THEN <<>> ELSE <<l.next[n][i]>> \o Chain(l, l.next[n][i], i)
IterateGlobalRoots(l) == Chain(l, 0, 0)
EmptyGlobalRoots(l) == [level |-> 0, next |-> [n \in {0} |-> [i \in 0..MaxLevel |-> IF i <= l.level THEN Nil ELSE l.next[0][i]]]]

-----------------------------------------------------------------------------
\* The page table: open addressing with a multiplicative hash. An entry holds
\* a page and the set of its kinds; a page number is never 0.
Free == [page |-> 0, kinds |-> {}]
PageHash(page, shift) == ((page * HashFactor) % 2^PageBits) \div 2^shift

RECURSIVE SlotOf(_, _, _)
SlotOf(t, page, h) == IF t.entries[h].page \in {0, page} THEN h ELSE SlotOf(t, page, (h + 1) % t.size)
PageTableLookup(t, page) == t.entries[SlotOf(t, page, PageHash(page, t.shift))].kinds

EmptyTable(size, shift) ==
    [size |-> size, shift |-> shift, occupancy |-> 0, entries |-> [h \in 0..(size - 1) |-> Free]]

\* The load factor is at most a half at first.
PageTableInitialize(pages) ==
    LET k == CHOOSE i \in 0..PageBits: 2^i >= 2 * pages /\ \A j \in 0..(i - 1): 2^j < 2 * pages
    IN  EmptyTable(2^k, PageBits - k)

Rehashed(t, e) ==
    IF e.page = 0 THEN t ELSE [t EXCEPT !.entries[SlotOf(t, 0, PageHash(e.page, t.shift))] = e]
\* Mutant: the last entry is left behind.
ResizeShort(t) ==
    FoldLeft(Rehashed, [EmptyTable(2 * t.size, t.shift - 1) EXCEPT !.occupancy = t.occupancy],
             [i \in 1..(t.size - 1) |-> t.entries[i - 1]])
PageTableResize(t) ==
    FoldLeft(Rehashed, [EmptyTable(2 * t.size, t.shift - 1) EXCEPT !.occupancy = t.occupancy],
             [i \in 1..t.size |-> t.entries[i - 1]])

\* The table grows first when it is half full, which may fail (room FALSE).
PageTableModify(u, page, clear, set, room) ==
    LET full == u.occupancy * 2 >= u.size IN
    IF full /\ ~ room THEN [ok |-> FALSE, t |-> u]
    ELSE LET t == IF full THEN PageTableResize(u) ELSE u
             h == SlotOf(t, page, PageHash(page, t.shift))
         IN  [ok |-> TRUE,
              t |-> IF t.entries[h].page = 0
                    THEN [t EXCEPT !.entries[h] = [page |-> page, kinds |-> set], !.occupancy = @ + 1]
                    ELSE [t EXCEPT !.entries[h].kinds = (@ \ clear) \cup set]]

\* Page by page; a failure leaves the pages before it changed.
ModifyRange(t, lo, hi, clear, set, room) ==
    FoldLeft(LAMBDA r, p: IF r.ok THEN PageTableModify(r.t, p, clear, set, room) ELSE r,
             [ok |-> TRUE, t |-> t], [i \in 1..(hi - lo + 1) |-> lo + i - 1])
PageTableAdd(t, kind, lo, hi, room) == ModifyRange(t, lo, hi, {}, {kind}, room)
PageTableRemove(t, kind, lo, hi, room) == ModifyRange(t, lo, hi, {kind}, {}, room)

-----------------------------------------------------------------------------
\* Frame descriptors: return address, size, live slots. The table has at least
\* twice as many entries as there are descriptors.
Special == 65535
NoFrame == [ret |-> 0, size |-> 0, live |-> <<>>]
RetHash(ret, size) == (ret \div 8) % size

RECURSIVE FrameSlot(_, _, _)
FrameSlot(t, ret, h) == IF t[h].ret \in {0, ret} THEN h ELSE FrameSlot(t, ret, (h + 1) % Cardinality(DOMAIN t))

InitFrameDescriptors(frametables) ==
    LET all == FlattenSeq(frametables)
        k == CHOOSE i \in 2..12: 2^i >= 2 * Len(all) /\ \A j \in 2..(i - 1): 2^j < 2 * Len(all)
        size == 2^k
    IN  FoldLeft(LAMBDA t, d: [t EXCEPT ![FrameSlot(t, 0, RetHash(d.ret, size))] = d],
                 [h \in 0..(size - 1) |-> NoFrame], all)

FrameOf(t, ret) == t[FrameSlot(t, ret, RetHash(ret, Cardinality(DOMAIN t)))]

\* The roots of a stack: the live slots of each frame, then, over the C part, of
\* the chunk that called it. A slot is a word of the frame or a saved register.
RECURSIVE ScanStack(_, _, _, _, _)
ScanStack(t, stack, sp, ret, regs) ==
    IF sp = 0 THEN {}
    ELSE LET d == FrameOf(t, ret) IN
         IF d.size # Special
         THEN {IF o.reg THEN <<"reg", regs, o.at>> ELSE <<"stack", sp + o.at, 0>>: o \in ToSet(d.live)}
              \cup ScanStack(t, stack, sp + d.size, stack[sp + d.size - 1], regs)
         ELSE LET context == stack[sp + 2] IN
              ScanStack(t, stack, context.bottom, context.ret, context.regs)

\* The roots that C functions declare, in tables chained by the callers.
ScanLocalRoots(blocks) ==
    UNION {{<<"local", b, i, j>>: i \in 1..blocks[b].ntables, j \in 1..blocks[b].nitems}: b \in DOMAIN blocks}

-----------------------------------------------------------------------------
\* Named values: buckets of chains, a new name at the head of its chain. A name
\* is a number whose remainder is its hash.
NoNames == [b \in 0..(NameBuckets - 1) |-> <<>>]
RegisterNamedValue(table, name, v) ==
    LET b == name % NameBuckets
        at == {i \in DOMAIN table[b]: table[b][i].name = name}
    IN  IF at # {} THEN [table EXCEPT ![b][CHOOSE i \in at: \A j \in at: i <= j].val = v]
        ELSE [table EXCEPT ![b] = <<[name |-> name, val |-> v]>> \o @]
NamedValue(table, name) ==
    LET s == SelectSeq(table[name % NameBuckets], LAMBDA x: x.name = name) IN
    IF s = <<>> THEN 0 ELSE Head(s).val

\* Custom operations: the last ones registered under an identifier are found.
RegisterCustomOperations(list, ops) == <<ops>> \o list
FindCustomOperations(list, ident) ==
    LET s == SelectSeq(list, LAMBDA x: x.ident = ident) IN IF s = <<>> THEN 0 ELSE Head(s).id
=============================================================================
