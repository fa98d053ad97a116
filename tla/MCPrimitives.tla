---------------------------- MODULE MCPrimitives ----------------------------
\* The inputs of the primitives.
EXTENDS Primitives

Blk(tag, f) == [tag |-> tag, color |-> White, f |-> f]
Chr(s) == Blk(String, <<Chars(s)>>)
Cst(ops, n) == Blk(Custom, <<Value("ops", ops), Value("data", n)>>)

\* Three blocks that point to each other, with a leaf or a forward at the end.
Word == {Long(0), Ptr(2), Ptr(3), Value("atom", 1)}
Shapes == {Blk(0, <<x>>): x \in Word} \cup {Blk(2, <<x, y>>): x \in {Long(-3), Ptr(1), Ptr(2), Ptr(3)}, y \in Word}
          \cup {Blk(Forward, <<x>>): x \in Word \ {Ptr(2)}}
Seconds == {Blk(1, <<x, Ptr(3)>>): x \in Word} \cup {Blk(Forward, <<x>>): x \in {Long(0), Ptr(3)}}
Thirds == {Chr(<<1, 2>>), Blk(Forward, <<Value("code", 5)>>), Blk(Forward, <<Long(1)>>), Blk(Lazy, <<Long(1)>>),
           Blk(Abstract, <<Value("data", 7)>>), Cst(1, -7), Cst(2, 100), Cst(3, 100), Cst(3, -1000), Cst(OpaqueOps, 7)}
Msg(h, v, flags, mallocs, len) == [h |-> h, v |-> v, flags |-> flags, mallocs |-> mallocs, len |-> len]
RECURSIVE Acyclic(_, _, _)
Acyclic(h, v, seen) == \A w \in Fields(h, v): w.t = "ptr" => w.n \notin seen /\ Acyclic(h, w, seen \cup {w.n})
SmallMessages == {m \in {Msg(<<a, b, c>>, Ptr(1), w[1], w[2], w[3]): a \in Shapes, b \in Seconds, c \in Thirds,
                         w \in {<<{}, 99, -1>>, <<{}, 0, -1>>, <<{}, 99, 30>>, <<{"NO_SHARING"}, 99, -1>>, <<{"CLOSURES"}, 99, -1>>}}:
                     "NO_SHARING" \in m.flags => Acyclic(m.h, m.v, {1})}
Ns == {0, 1, -1, 2, -2, -3, 7, 8, -8, -9, 127, 128, -128, -129, 10000, -10000}
IntMessages == {Msg(<<Blk(0, <<Long(n), Value("atom", t)>>)>>, Ptr(1), {}, 99, -1): n \in Ns, t \in {0, 1, 2, 5}}
Wide(n, x) == Blk(1, [i \in 1..n |-> IF i = 1 THEN x ELSE Long(0)])
Apart(n) == <<Blk(0, [i \in 1..n |-> IF i = n THEN Ptr(2) ELSE Ptr(i + 1)])>>
            \o [i \in 1..n |-> Chr([j \in 1..(i % 5) |-> 1])]
Lambda(f) == Blk(Closure, f)
Twice == Blk(0, <<Value("infix", 2), Ptr(2), Value("infix", 2)>>)
WideMessages ==
    {Msg(<<Wide(n, Ptr(1))>>, Ptr(1), {}, k, -1): n \in 2..5, k \in {0, 9}}
    \cup {Msg(Apart(n), Ptr(1), {}, k, len): n \in {4, 6, 18}, k \in {1, 2, 3, 99}, len \in {-1, 20, 24, 27, 28, 29, 30, 33, 40}}
    \cup {Msg(<<Chr([i \in 1..n |-> i % 4])>>, Ptr(1), {}, 99, -1): n \in {0, 1, 2, 3, 4, 7, 8, 9, 235, 236, 260}}
    \cup {Msg(<<Twice, Lambda(<<Value("code", 1), Long(3), Long(7), Value("code", 2), Long(5)>>)>>, Ptr(1), fl, 99, -1):
          fl \in {{}, {"CLOSURES"}}}
    \cup {Msg(<<Twice, Lambda(<<Long(3), Long(7), Long(5), Long(8)>>)>>, Ptr(1), {}, 99, -1),
          Msg(<<Blk(0, <<Value("out", 2)>>)>>, Ptr(1), {}, 99, -1)}
MCMessages == SmallMessages \cup IntMessages \cup WideMessages

\* Four blocks, each of the ones after it, compared with each other.
Leaves == {Chr(<<>>), Chr(<<1>>), Chr(<<1, 2>>), Chr(<<2>>), Cst(1, -7), Cst(1, 3), Cst(OpaqueOps, 7),
           Blk(Abstract, <<Value("data", 7)>>), Lambda(<<Value("code", 1)>>), Blk(Object, <<Long(0), Long(4)>>),
           Blk(Forward, <<Long(1)>>), Blk(0, <<Long(1), Long(0)>>)}
Inner == {Blk(0, <<x>>): x \in {Ptr(3), Ptr(4), Long(1)}} \cup {Blk(Forward, <<Ptr(3)>>)}
         \cup {Blk(0, <<x, y>>): x \in {Ptr(3), Long(1)}, y \in {Ptr(4), Value("atom", 0)}}
Outer == {Blk(0, <<x, Ptr(4)>>): x \in {Ptr(2), Ptr(3), Long(1)}} \cup {Blk(0, <<Ptr(3), Ptr(2)>>), Blk(0, <<Ptr(2)>>)}
Tower(n) == [i \in 1..n |-> IF i = n THEN Chr(<<1>>) ELSE Blk(0, <<Ptr(i + 1), Long(0)>>)]
Typed(h) == ~ \E i, j \in DOMAIN h: h[i].tag = Custom /\ h[j].tag = Custom /\ h[i].f[1] # h[j].f[1]
Towers(n) == [i \in 1..(2 * n) |-> IF i <= n THEN Tower(n)[i]
                                   ELSE LET b == Tower(n)[i - n] IN IF b.tag = String THEN b ELSE [b EXCEPT !.f[1].n = @ + n]]
MCGraphs == {[h |-> h, vs |-> {Long(1), Ptr(1), Ptr(2), Ptr(3), Ptr(4)}]:
               h \in {x \in {<<a, b, c, d>>: a \in Outer, b \in Inner, c, d \in Leaves}: Typed(x)}}
            \cup {[h |-> Towers(n), vs |-> {Ptr(1), Ptr(n + 1), Long(0)}]: n \in 2..8}
MCLimits == {<<1, 3>>, <<10, 2>>, <<10, 100>>}

Bin == {"neg", "add", "sub", "mul", "div", "mod", "and", "or", "xor", "lsl", "asr", "lsr"}
MCOperands == {-32, -31, -16, -9, -1, 0, 1, 2, 3, 5, 15, 31}
Char(c, d) == [c |-> c, d |-> d]
Minus == Char("-", NoDigit)
Number == {Char("digit", 0), Char("digit", 1), Char("digit", 2), Char("digit", 6), Char("_", NoDigit), Char("f", 15)}
Signs == {<<>>, <<Minus>>, <<Char("digit", 0), Char("x", NoDigit)>>, <<Minus, Char("digit", 0), Char("b", 11)>>,
             <<Char("digit", 0), Char("o", NoDigit)>>, <<Minus, Minus>>}
Texts == UNION {[1..n -> Number]: n \in 0..3}
         \cup {[i \in 1..n |-> Char("digit", 1)]: n \in 5..8} \cup {<<Char("digit", 3), Char("digit", 2)>>, <<Char("digit", 6), Char("digit", 4)>>}
MCNumerals == {p \o t: p \in Signs, t \in Texts}

Shape(kind, layout, dims, room) == [kind |-> kind, layout |-> layout, dims |-> dims, room |-> room]
MCArrays == {Shape("uint8", l, d, TRUE): l \in {"c", "fortran"}, d \in UNION {[1..n -> 0..2]: n \in 1..3} \cup {<<3>>, <<3, 2>>, <<-1>>, <<>>, <<1, 1, 1, 1>>}}
            \cup {Shape(k, l, d, r): k \in Kinds, l \in {"c", "fortran"}, d \in {<<0>>, <<2>>, <<2, 2>>, <<8, 8>>, <<63, 2, 2>>, <<9, 9, 0>>}, r \in BOOLEAN}

D(ret, size, live) == [ret |-> ret, size |-> size, live |-> live]
At(i) == [reg |-> FALSE, at |-> i]
Reg(i) == [reg |-> TRUE, at |-> i]
F1 == D(120, 2, <<At(0)>>)
F2 == D(248, 3, <<At(0), At(1), Reg(2)>>)
F3 == D(376, 1, <<>>)
F4 == D(16, 2, <<Reg(1)>>)
Start == D(1, Special, <<>>)
Chunk == {<<x>>: x \in {F1, F2, F3, F4}} \cup {<<F1, F2>>, <<F2, F3, F4>>, <<F4, F1, F1>>}
MCStacks == {[tables |-> t, chunks |-> c]: t \in {<<<<Start, F1, F2>>, <<F3, F4>>>>, <<<<F4, F3, F2, F1, Start>>, <<>>, <<D(104, 1, <<>>)>>>>},
             c \in {<<x>>: x \in Chunk} \cup {<<x, y>>: x, y \in Chunk}}

\* The automaton of the rules a, aab, b+ and the end of the input, on letters a = 1, b = 2, c = 3.
Next1(a, b, c, e) == [x \in {1, 2, 3, Eof} |-> CASE x = 1 -> a [] x = 2 -> b [] x = 3 -> c [] x = Eof -> e]
To(dst, src) == [dst |-> dst, src |-> src]
NoMoves == [x \in {1, 2, 3, Eof} |-> <<>>]
MCLexTable ==
    [final |-> [s \in 0..5 |-> CASE s = 3 -> 1 [] s = 5 -> 3 [] OTHER -> None],
     backtrk |-> [s \in 0..5 |-> CASE s = 1 -> 0 [] s = 4 -> 2 [] OTHER -> None],
     tags |-> [s \in 0..5 |-> IF s = 4 THEN <<To(2, 1)>> ELSE <<>>],
     next |-> [s \in 0..5 |-> CASE s = 0 -> Next1(1, 4, None, 5) [] s = 1 -> Next1(2, None, None, None)
                                [] s = 2 -> Next1(None, 3, None, None) [] s = 4 -> Next1(None, 4, None, None)
                                [] OTHER -> Next1(None, None, None, None)],
     moves |-> [s \in 0..5 |-> CASE s = 0 -> [NoMoves EXCEPT ![2] = <<To(0, Here)>>]
                                 [] s = 4 -> [NoMoves EXCEPT ![2] = <<To(1, Here)>>] [] OTHER -> NoMoves]]
MCLexInputs == {[cap |-> 4, chunks |-> c]: c \in UNION {[1..n -> {<<1>>, <<2>>, <<1, 1>>, <<2, 2>>, <<1, 2>>}]: n \in 0..4}}
               \cup {[cap |-> 4, chunks |-> <<x>> \o c \o <<<<3>>>>]: x \in {<<2, 2>>, <<1, 1>>}, c \in UNION {[1..n -> {<<1>>, <<2, 2>>}]: n \in 0..2}}
               \cup {[cap |-> 4, chunks |-> [i \in 1..n |-> <<2, 2>>] \o <<<<1, 1>>, <<2>>>>]: n \in 4..6}

\* The automaton of the grammar: main -> list EOF | (1), list -> (3) | list item (2),
\* item -> A (4) | ( list ) (5) | error ; (6); the entry rule is 7. START is 5.
\* The actions of 4 and 5 raise Parse_error when the value of A or ( is bad.
Row(p) == [x \in {q[1]: q \in p} |-> (CHOOSE q \in p: q[1] = x)[2]]
None1 == [x \in {} |-> 0]
Items == {<<1, 4>>, <<2, 5>>, <<ErrCode, 6>>}
MCParseTable ==
    [shift |-> [s \in 0..11 |-> CASE s = 0 -> Row({<<5, 1>>}) [] s = 2 -> Row(Items \cup {<<0, 3>>})
                                  [] s = 8 -> Row(Items \cup {<<3, 11>>}) [] s = 6 -> Row({<<4, 9>>}) [] OTHER -> None1],
     reduce |-> [s \in 0..11 |-> None1],
     defred |-> [s \in 0..11 |-> CASE s \in {1, 5} -> 3 [] s = 3 -> 1 [] s = 4 -> 4 [] s = 7 -> 2
                                   [] s = 9 -> 6 [] s = 10 -> 7 [] s = 11 -> 5 [] OTHER -> 0],
     lhs |-> [r \in 1..7 |-> CASE r = 1 -> "main" [] r \in {2, 3} -> "list" [] r \in {4, 5, 6} -> "item" [] r = 7 -> "entry"],
     len |-> [r \in 1..7 |-> CASE r \in {1, 2, 6, 7} -> 2 [] r = 3 -> 0 [] r = 4 -> 1 [] r = 5 -> 3],
     goto |-> [main |-> [s \in 0..11 |-> 10], list |-> [s \in 0..11 |-> IF s = 5 THEN 8 ELSE 2],
               item |-> [s \in 0..11 |-> 7], entry |-> [s \in 0..11 |-> 0]],
     strict |-> {4, 5}, entry |-> 7]
TokenAt(c, bad, i) ==
    [code |-> c, from |-> 3 * i, to |-> 3 * i + 2,
     lval |-> [rule |-> 0, tok |-> c, bad |-> bad, kids |-> <<>>, from |-> 3 * i, to |-> 3 * i + 2]]
BadTokens == {11, 12}
MCParseInputs == {[i \in 1..(Len(w) + 1) |-> IF i > Len(w) THEN TokenAt(0, FALSE, i) ELSE TokenAt(w[i] % 10, w[i] \in BadTokens, i)]:
                    w \in [1..5 -> 1..4] \cup UNION {[1..n -> 1..4 \cup BadTokens]: n \in 0..4}
                          \cup {<<2, x, y, 4, 1, z>>: x, y, z \in {1, 3, 4, 11, 12}}}

MCLengths == UNION {[1..n -> {0, 1, 3, 7, 8, 9, 17}]: n \in 0..3}
Byte == {0, 1, 255}
MCViews == UNION {[1..n -> UNION {[1..m -> Byte]: m \in 0..2}]: n \in 0..2}
           \cup {<<a, b, c>>: a, b \in {<<>>, <<255>>, <<255, 255>>, <<1, 128>>}, c \in {<<255>>, <<254, 255, 3>>, <<>>}}
MCClocks == {[day |-> d, sec |-> 86399]: d \in 0..1500 \cup 10900..11400 \cup 47400..47900}
            \cup {[day |-> 11016, sec |-> x]: x \in {0, 59, 60, 3599, 3600, 43200}}
=============================================================================
