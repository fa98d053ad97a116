------------------------------ MODULE Engines ------------------------------
(***************************************************************************)
(* The automata that ocamllex and ocamlyacc tables drive (lexing.c with    *)
(* the refilling of lexing.ml, parsing.c with the driver of parsing.ml),   *)
(* and the buffering of the MD5 digest (md5.c). The packed tables are      *)
(* functions here: what a lookup with its check returns.                   *)
(***************************************************************************)
EXTENDS Integers, Sequences, SequencesExt, FiniteSets

Eof == 256
None == -1

-----------------------------------------------------------------------------
\* The lexer. A table has, for each state, the action of a final state, the
\* action of a backtrack point, the next state by character, and the moves of
\* the memory: pairs of a cell and a source, a cell or the current position.
Here == 255

Moved(mem, moves, pos) ==
    FoldLeft(LAMBDA m, x: [m EXCEPT ![x.dst] = IF x.src = Here THEN pos ELSE m[x.src]], mem, moves)

\* One step at a time: an action, a failure, or the need of a refill (wait).
RECURSIVE LexRun(_, _, _)
LexRun(tbl, b, state) ==
    IF tbl.final[state] # None
    THEN [lb |-> [b EXCEPT !.mem = Moved(@, tbl.tags[state], None)], out |-> "action",
          n |-> tbl.final[state], state |-> state]
    ELSE LET lb == IF tbl.backtrk[state] = None THEN b
                   ELSE [b EXCEPT !.last = b.curr, !.action = tbl.backtrk[state],
                                  !.mem = Moved(@, tbl.tags[state], None)]
             full == lb.curr >= lb.len
             c == IF full THEN Eof ELSE lb.buf[lb.curr + 1]
             read == IF full THEN lb ELSE [lb EXCEPT !.curr = @ + 1]
             next == tbl.next[state][c]
         IN  IF full /\ ~ lb.eof THEN [lb |-> lb, out |-> "wait", n |-> 0, state |-> state]
             ELSE IF next = None
             THEN [lb |-> [read EXCEPT !.curr = lb.last], n |-> lb.action, state |-> state,
                   out |-> IF lb.action = None THEN "empty token" ELSE "action"]
             ELSE LexRun(tbl, [read EXCEPT !.mem = Moved(@, tbl.moves[state][c], read.curr),
                                           !.eof = IF c = Eof THEN FALSE ELSE @], next)

LexEngine(tbl, lb) == LexRun(tbl, [lb EXCEPT !.start = lb.curr, !.last = lb.curr, !.action = None], 0)

\* Mutant: the remembered positions stay behind.
RefillOnly(lb, chunk) ==
    LET n == Len(chunk)
        s == IF lb.len + n > Len(lb.buf) THEN lb.start ELSE 0
        newcap == IF lb.len - s + n > Len(lb.buf) THEN 2 * Len(lb.buf) ELSE Len(lb.buf)
        kept == SubSeq(lb.buf, s + 1, lb.len)
        at == Len(kept)
    IN  [lb EXCEPT !.buf = kept \o chunk \o [i \in 1..(newcap - at - n) |-> 99], !.abs = @ + s, !.curr = @ - s,
                   !.start = @ - s, !.last = @ - s, !.len = at + n, !.eof = IF n = 0 THEN TRUE ELSE @]

\* Adds what was read: behind the data, after a shift of the data to the left
\* when there is no room, in a buffer twice as long when that is not enough.
Refill(lb, chunk) ==
    LET n == Len(chunk)
        cap == Len(lb.buf)
        valid == SubSeq(lb.buf, lb.start + 1, lb.len)
        s == IF lb.len + n > cap THEN lb.start ELSE 0
        newcap == IF lb.len - s + n > cap THEN 2 * cap ELSE cap
        kept == IF s = 0 /\ newcap = cap THEN SubSeq(lb.buf, 1, lb.len) ELSE valid
        at == Len(kept)
    IN  [lb EXCEPT
           !.buf = kept \o chunk \o [i \in 1..(newcap - at - n) |-> 99],
           !.abs = @ + s, !.curr = @ - s, !.start = @ - s, !.last = @ - s,
           !.len = at + n, !.eof = IF n = 0 THEN TRUE ELSE @,
           !.mem = [i \in DOMAIN @ |-> IF @[i] >= 0 THEN @[i] - s ELSE @[i]]]

FromFunction(cap, cells) ==
    [buf |-> [i \in 1..cap |-> 99], len |-> 0, abs |-> 0, start |-> 0, curr |-> 0, last |-> 0,
     action |-> None, eof |-> FALSE, mem |-> [i \in 0..(cells - 1) |-> None]]

\* A lexeme with its place in the whole input and what the memory says.
Lexeme(lb, n) == [action |-> n, from |-> lb.abs + lb.start, to |-> lb.abs + lb.curr,
                  mem |-> [i \in DOMAIN lb.mem |-> IF lb.mem[i] = None THEN None ELSE lb.abs + lb.mem[i]]]

\* Reads tokens until the action that stands for the end of the input.
RECURSIVE Tokens(_, _, _, _, _)
Tokens(tbl, r, chunks, last, acc) ==
    CASE r.out = "wait" ->
           LET chunk == IF chunks = <<>> THEN <<>> ELSE Head(chunks) IN
           Tokens(tbl, LexRun(tbl, Refill(r.lb, chunk), r.state),
                  IF chunks = <<>> THEN <<>> ELSE Tail(chunks), last, acc)
      [] r.out = "empty token" -> Append(acc, [action |-> "failure", from |-> r.lb.abs + r.lb.start])
      [] r.out = "action" ->
           LET all == Append(acc, Lexeme(r.lb, r.n)) IN
           IF r.n = last THEN all
           ELSE Tokens(tbl, LexEngine(tbl, [r.lb EXCEPT !.mem = [i \in DOMAIN @ |-> None]]), chunks, last, all)

LexAll(tbl, cap, cells, chunks, last) == Tokens(tbl, LexEngine(tbl, FromFunction(cap, cells)), chunks, last, <<>>)

-----------------------------------------------------------------------------
\* The parser. Its environment: four stacks of the same size, the base and the
\* top, the state, the token ahead with its value and place, the rule that is
\* being reduced, and the number of tokens to shift before an error is new.
ErrCode == 256

ParserEnv(size) ==
    [s |-> [i \in 0..(size - 1) |-> 0], v |-> [i \in 0..(size - 1) |-> <<>>],
     ss |-> [i \in 0..(size - 1) |-> 0], se |-> [i \in 0..(size - 1) |-> 0],
     size |-> size, base |-> 0, curr |-> 0, lval |-> <<>>, symb_start |-> 0, symb_end |-> 0,
     asp |-> 0, len |-> 0, rule |-> 0, sp |-> 0, state |-> 0, err |-> 0]

Out(e, what) == [env |-> e, out |-> what]
Entry(f, x) == IF x \in DOMAIN f THEN f[x] ELSE 0

ShiftTo(e, state) ==
    LET f == [e EXCEPT !.state = state, !.sp = @ + 1] IN
    IF f.sp < f.size THEN Out(f, "push") ELSE Out(f, "Grow_stacks_1")

Shift(t, e) ==
    ShiftTo([e EXCEPT !.curr = -1, !.err = IF @ > 0 THEN @ - 1 ELSE 0], Entry(t.shift[e.state], e.curr))

Reduce(t, e, n) ==
    LET sp == e.sp - t.len[n] + 1
        f == [e EXCEPT !.asp = e.sp, !.rule = n, !.len = t.len[n], !.sp = sp,
                       !.state = t.goto[t.lhs[n]][e.s[sp - 1]]]
    IN  IF sp < f.size THEN Out(f, "Compute_semantic_action") ELSE Out(f, "Grow_stacks_2")

\* Pops to a state that shifts the error token, or drops the token ahead.
Recover(t, e) ==
    IF e.err < 3
    THEN LET at == {i \in e.base..e.sp: Entry(t.shift[e.s[i]], ErrCode) # 0} IN
         IF at = {} THEN Out([e EXCEPT !.err = 3], "Raise_parse_error")
         ELSE LET i == CHOOSE j \in at: \A k \in at: k <= j
              IN  ShiftTo([e EXCEPT !.err = 3, !.sp = i], Entry(t.shift[e.s[i]], ErrCode))
    ELSE IF e.curr = 0 THEN Out(e, "Raise_parse_error")
    ELSE Out([e EXCEPT !.curr = -1], "loop")

TestShift(t, e) ==
    IF Entry(t.shift[e.state], e.curr) # 0 THEN Shift(t, e)
    ELSE IF Entry(t.reduce[e.state], e.curr) # 0 THEN Reduce(t, e, Entry(t.reduce[e.state], e.curr))
    ELSE IF e.err > 0 THEN Recover(t, e)
    ELSE Out(e, "Call_error_function")

Top(t, e) ==
    IF t.defred[e.state] # 0 THEN Reduce(t, e, t.defred[e.state])
    ELSE IF e.curr >= 0 THEN TestShift(t, e)
    ELSE Out(e, "Read_token")

Push(e) == Out([e EXCEPT !.s[e.sp] = e.state, !.v[e.sp] = e.lval,
                         !.ss[e.sp] = e.symb_start, !.se[e.sp] = e.symb_end], "loop")

\* An empty production starts where it ends.
Computed(e, v) ==
    Out([e EXCEPT !.s[e.sp] = e.state, !.v[e.sp] = v, !.se[e.sp] = e.se[e.asp],
                  !.ss[e.sp] = IF e.sp > e.asp THEN e.se[e.asp] ELSE @], "loop")

Grown(f, size, x) == [i \in 0..(2 * size - 1) |-> IF i < size THEN f[i] ELSE x]
\* Mutant: the places are not copied.
GrowValues(e) == [e EXCEPT !.s = Grown(@, e.size, 0), !.v = Grown(@, e.size, <<>>),
                           !.ss = [i \in 0..(2 * e.size - 1) |-> 0], !.se = [i \in 0..(2 * e.size - 1) |-> 0], !.size = 2 * @]
GrowStacks(e) ==
    [e EXCEPT !.s = Grown(@, e.size, 0), !.v = Grown(@, e.size, <<>>), !.ss = Grown(@, e.size, 0),
              !.se = Grown(@, e.size, 0), !.size = 2 * @]

\* The places a semantic action can ask for.
SymbolStart(e) ==
    LET full == {i \in 1..e.len: e.ss[e.asp - i + 1] # e.se[e.asp - i + 1]} IN
    IF full = {} THEN e.se[e.asp]
    ELSE e.ss[e.asp - (CHOOSE i \in full: \A j \in full: j <= i) + 1]
SymbolEnd(e) == e.se[e.asp]

\* The driver: answers the engine until the entry rule is reduced (YYexit) or
\* an error is raised; then it restores the environment. A token has a code, a
\* place and a value; after the last one the lexer goes on with the last. The
\* errors are those that the error function was called for and the Parse_error
\* of an action, after which the engine recovers from where the reduction would
\* have pushed its value. An action of a strict rule raises it for a bad value.
Restored(e, init) ==
    [e EXCEPT !.asp = init.asp, !.sp = init.sp, !.base = init.base, !.state = init.state,
              !.curr = init.curr, !.lval = init.lval, !.err = init.err]

RECURSIVE Drive(_, _, _, _, _, _)
Drive(t, r, in, p, errors, init) ==
    LET e == r.env IN
    CASE r.out = "loop" -> Drive(t, Top(t, e), in, p, errors, init)
      [] r.out = "push" -> Drive(t, Push(e), in, p, errors, init)
      [] r.out = "Read_token" ->
           LET k == IF p < Len(in) THEN p + 1 ELSE Len(in) IN
           Drive(t, TestShift(t, [e EXCEPT !.curr = in[k].code, !.lval = in[k].lval,
                                           !.symb_start = in[k].from, !.symb_end = in[k].to]),
                 in, k, errors, init)
      [] r.out = "Grow_stacks_1" -> Drive(t, Push(GrowStacks(e)), in, p, errors, init)
      [] r.out = "Grow_stacks_2" -> Drive(t, Out(GrowStacks(e), "Compute_semantic_action"), in, p, errors, init)
      [] r.out = "Call_error_function" -> Drive(t, Recover(t, e), in, p, Append(errors, [at |-> p, what |-> "syntax"]), init)
      [] r.out = "Compute_semantic_action" ->
           LET kids == [i \in 1..e.len |-> e.v[e.asp - e.len + i]] IN
           IF e.rule = t.entry THEN [ok |-> TRUE, v |-> kids[2], errors |-> errors, env |-> Restored(e, init)]
           ELSE IF e.rule \in t.strict /\ kids[1].bad
           THEN Drive(t, Recover(t, e), in, p, Append(errors, [at |-> p, what |-> "action"]), init)
           ELSE Drive(t, Computed(e, [rule |-> e.rule, kids |-> kids, from |-> SymbolStart(e), to |-> SymbolEnd(e)]),
                      in, p, errors, init)
      [] r.out = "Raise_parse_error" -> [ok |-> FALSE, v |-> <<>>, errors |-> errors, env |-> Restored(e, init)]

Yyparse(t, e, start, in) ==
    Drive(t, Out([e EXCEPT !.base = e.sp + 1, !.curr = start, !.symb_end = 0, !.state = 0, !.err = 0], "loop"),
          in, 0, <<>>, e)

-----------------------------------------------------------------------------
\* MD5: blocks of Md5Block bytes go through the transformation (kept as the list
\* of the blocks); the length in bytes takes the last Md5Tail of the last one.
Md5Block == 8
Md5Tail == 2
Md5Pad == 128

Md5Init == [done |-> <<>>, in |-> <<>>, bytes |-> 0]

RECURSIVE Md5Blocks(_, _)
Md5Blocks(ctx, data) ==
    IF Len(data) < Md5Block THEN [ctx EXCEPT !.in = data]
    ELSE Md5Blocks([ctx EXCEPT !.done = Append(@, SubSeq(data, 1, Md5Block)), !.in = <<>>],
                   SubSeq(data, Md5Block + 1, Len(data)))

\* Mutant: a chunk that fills the block is kept.
Md5UpdateLate(c, data) ==
    LET t == c.bytes % Md5Block
        ctx == [c EXCEPT !.bytes = @ + Len(data)]
        need == Md5Block - t
    IN  IF t = 0 THEN Md5Blocks(ctx, data)
        ELSE IF Len(data) <= need THEN [ctx EXCEPT !.in = @ \o data]
        ELSE Md5Blocks([ctx EXCEPT !.done = Append(@, c.in \o SubSeq(data, 1, need)), !.in = <<>>],
                       SubSeq(data, need + 1, Len(data)))

\* An odd-sized chunk is first completed.
Md5Update(c, data) ==
    LET t == c.bytes % Md5Block
        ctx == [c EXCEPT !.bytes = @ + Len(data)]
        need == Md5Block - t
    IN  IF t = 0 THEN Md5Blocks(ctx, data)
        ELSE IF Len(data) < need THEN [ctx EXCEPT !.in = @ \o data]
        ELSE Md5Blocks([ctx EXCEPT !.done = Append(@, c.in \o SubSeq(data, 1, need)), !.in = <<>>],
                       SubSeq(data, need + 1, Len(data)))

\* Pads the last block, or two when the length does not fit.
Md5Final(ctx) ==
    LET count == Md5Block - 1 - (ctx.bytes % Md5Block)
        zeros(n) == [i \in 1..n |-> 0]
        length == <<(ctx.bytes \div 16) % 16, ctx.bytes % 16>>
    IN  IF count < Md5Tail
        THEN ctx.done \o <<ctx.in \o <<Md5Pad>> \o zeros(count), zeros(Md5Block - Md5Tail) \o length>>
        ELSE Append(ctx.done, ctx.in \o <<Md5Pad>> \o zeros(count - Md5Tail) \o length)
=============================================================================
