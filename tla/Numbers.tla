------------------------------ MODULE Numbers ------------------------------
(***************************************************************************)
(* The boxed and tagged integers of the runtime (ints.c): parsing with its *)
(* detection of overflow, arithmetic that wraps, division, shifts. A       *)
(* machine word has WordBits bits, an int one less, an int32 half as many; *)
(* integers are kept as signed numbers. A shift has a count below the      *)
(* width (C leaves the others undefined).                                  *)
(***************************************************************************)
EXTENDS Integers, Sequences

CONSTANT WordBits

Wrapped(n, bits) ==
    LET u == n % 2^bits IN IF u >= 2^(bits - 1) THEN u - 2^bits ELSE u
UnsignedOf(n, bits) == n % 2^bits
MinInt(bits) == -(2^(bits - 1))

\* A C division rounds towards zero.
Magnitude(n) == IF n < 0 THEN -n ELSE n
Quotient(p, q) == LET m == Magnitude(p) \div Magnitude(q) IN IF (p < 0) = (q < 0) THEN m ELSE -m
Remainder(p, q) == LET m == Magnitude(p) % Magnitude(q) IN IF p < 0 THEN -m ELSE m

Raise(what) == [ok |-> FALSE, n |-> 0, why |-> what]
Is(n) == [ok |-> TRUE, n |-> n, why |-> ""]

\* The quotient that overflows is not left to the processor.
Div(p, q, bits) == IF q = 0 THEN Raise("Division_by_zero")
                   ELSE IF p = MinInt(bits) /\ q = -1 THEN Is(p)
                   ELSE Is(Quotient(p, q))
Mod(p, q, bits) == IF q = 0 THEN Raise("Division_by_zero")
                   ELSE IF p = MinInt(bits) /\ q = -1 THEN Is(0)
                   ELSE Is(Remainder(p, q))

Bit(n, i) == (n \div 2^i) % 2
FromBits(b, bits) ==
    LET sum[i \in 0..bits] == IF i = 0 THEN 0 ELSE sum[i - 1] + b[i - 1] * 2^(i - 1)
    IN  Wrapped(sum[bits], bits)
Bitwise(p, q, bits, f(_, _)) == FromBits([i \in 0..(bits - 1) |-> f(Bit(p, i), Bit(q, i))], bits)

ShiftLeft(n, k, bits) == Wrapped(n * 2^k, bits)
ShiftRight(n, k) == n \div 2^k
ShiftRightUnsigned(n, k, bits) == Wrapped(UnsignedOf(n, bits) \div 2^k, bits)

Arithmetic(f, p, q, bits) ==
    CASE f = "neg" -> Is(Wrapped(-p, bits))
      [] f = "add" -> Is(Wrapped(p + q, bits))
      [] f = "sub" -> Is(Wrapped(p - q, bits))
      [] f = "mul" -> Is(Wrapped(p * q, bits))
      [] f = "div" -> Div(p, q, bits)
      [] f = "mod" -> Mod(p, q, bits)
      [] f = "and" -> Is(Bitwise(p, q, bits, LAMBDA x, y: x * y))
      [] f = "or" -> Is(Bitwise(p, q, bits, LAMBDA x, y: IF x + y > 0 THEN 1 ELSE 0))
      [] f = "xor" -> Is(Bitwise(p, q, bits, LAMBDA x, y: (x + y) % 2))
      [] f = "lsl" -> Is(ShiftLeft(p, q, bits))
      [] f = "asr" -> Is(ShiftRight(p, q))
      [] f = "lsr" -> Is(ShiftRightUnsigned(p, q, bits))

\* A conversion to a narrower type drops the high bits.
Convert(n, bits) == Wrapped(n, bits)

CompareInts(p, q) == (IF p > q THEN 1 ELSE 0) - (IF p < q THEN 1 ELSE 0)

-----------------------------------------------------------------------------
\* Parsing. A character is a pair of what it is and of the digit it stands for,
\* NoDigit if it is none.

NoDigit == 99
Bases == [x |-> 16, o |-> 8, b |-> 2]

\* The sign, the base and the place of the first digit.
ParseSignAndBase(s) ==
    LET signed == Len(s) > 0 /\ s[1].c = "-"
        p == IF signed THEN 2 ELSE 1
        based == p + 1 <= Len(s) /\ s[p].d = 0 /\ s[p + 1].c \in DOMAIN Bases
    IN  [sign |-> IF signed THEN -1 ELSE 1,
         base |-> IF based THEN Bases[s[p + 1].c] ELSE 10,
         p |-> IF based THEN p + 2 ELSE p]

DigitAt(s, p, base) == p <= Len(s) /\ s[p].d < base

\* Goes on while there are digits: an overflow is found before or after the
\* addition, on words that wrap.
RECURSIVE ParseDigits(_, _, _, _)
ParseDigits(s, p, base, res) ==
    IF p <= Len(s) /\ s[p].c = "_" THEN ParseDigits(s, p + 1, base, res)
    ELSE IF ~ DigitAt(s, p, base) THEN [ok |-> p = Len(s) + 1, n |-> res]
    ELSE IF res > (2^WordBits - 1) \div base THEN [ok |-> FALSE, n |-> 0]
    ELSE LET next == (base * res + s[p].d) % 2^WordBits IN
         IF next < s[p].d THEN [ok |-> FALSE, n |-> 0] ELSE ParseDigits(s, p + 1, base, next)

\* Mutant: the least number is refused.
InRangeStrictly(res, base, sign, bits) ==
    IF base = 10 THEN res < 2^(bits - 1) ELSE bits < WordBits => res < 2^bits

\* A decimal number is signed, another one may use all the bits.
InRange(res, base, sign, bits) ==
    IF base = 10 THEN IF sign >= 0 THEN res < 2^(bits - 1) ELSE res <= 2^(bits - 1)
    ELSE bits < WordBits => res < 2^bits

ParseIntnat(s, bits) ==
    LET h == ParseSignAndBase(s) IN
    IF ~ DigitAt(s, h.p, h.base) THEN Raise("int_of_string")
    ELSE LET r == ParseDigits(s, h.p + 1, h.base, s[h.p].d) IN
         IF ~ r.ok \/ ~ InRange(r.n, h.base, h.sign, bits) THEN Raise("int_of_string")
         ELSE Is(Wrapped(Wrapped(h.sign * r.n, WordBits), bits))

\* The parser of int64, on its own with the largest word of the type.
ParseInt64(s) ==
    LET h == ParseSignAndBase(s) IN
    IF ~ DigitAt(s, h.p, h.base) THEN Raise("int_of_string")
    ELSE LET r == ParseDigits(s, h.p + 1, h.base, s[h.p].d)
             most == IF h.sign >= 0 THEN 2^(WordBits - 1) - 1 ELSE 2^(WordBits - 1)
         IN  IF ~ r.ok \/ (h.base = 10 /\ most < r.n) THEN Raise("int_of_string")
             ELSE Is(Wrapped(h.sign * r.n, WordBits))
=============================================================================
