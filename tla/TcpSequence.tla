----------------------------- MODULE TcpSequence -----------------------------
(***************************************************************************)
(* mirage-net/lib/tcp/sequence.ml: sequence numbers are signed machine     *)
(* integers that overflow.  The other TCP modules count the bytes of a     *)
(* stream with unbounded integers, of which Wrap gives what the program    *)
(* holds.                                                                  *)
(***************************************************************************)
EXTENDS Integers

CONSTANT Half  \* 2^31 for the int32 of the code

ASSUME HalfAssumption == Half \in Nat \ {0, 1}

\* Int32 arithmetic: the representative in -Half .. Half - 1.
Wrap(z) == ((z + Half) % (2 * Half)) - Half

SeqAdd(a, b) == Wrap(a + b)
SeqSub(a, b) == Wrap(a - b)
SeqIncr(a) == Wrap(a + 1)

Lt(a, b) == SeqSub(a, b) < 0
Leq(a, b) == SeqSub(a, b) <= 0
Gt(a, b) == SeqSub(a, b) > 0
Geq(a, b) == SeqSub(a, b) >= 0

\* b <= a <= c
Between(a, b, c) == Geq(a, b) /\ Leq(a, c)

\* compare: -1, 0 or 1, as Int32.compare does it (without the subtraction).
Compare(a, b) == IF a < b THEN -1 ELSE IF a = b THEN 0 ELSE 1

=============================================================================
