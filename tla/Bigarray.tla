------------------------------ MODULE Bigarray ------------------------------
(***************************************************************************)
(* Bigarrays as arrays (bigarray_stubs.c): their creation with its test of *)
(* overflow, the two layouts, views of a part of an array, comparison,     *)
(* hashing and marshalling. Elements lie in a store that views share; who  *)
(* owns the store is in module Netif. The kinds with floats are not in the *)
(* kernel. An operator that may raise returns the exception in why.        *)
(***************************************************************************)
EXTENDS Marshal, Numbers

CONSTANTS
    MaxDims,   \* CAML_BA_MAX_NUM_DIMS
    HashElts   \* the number of elements that are hashed

Kinds == {"sint8", "uint8", "sint16", "uint16", "int32", "int64", "caml_int", "native_int"}
ElementSize(kind) == CASE kind \in {"sint8", "uint8"} -> 1 [] kind \in {"sint16", "uint16"} -> 2
                       [] kind = "int32" -> 4 [] OTHER -> 8
UnsignedKind(kind) == kind \in {"uint8", "uint16"}

\* What an element keeps of a number.
Stored(kind, n) == LET d == Digits(n, ElementSize(kind)) IN IF UnsignedKind(kind) THEN Unsigned(d) ELSE Signed(d)

\* Multiplication of words in halves.
Multov(a, b) ==
    LET half == 2^(WordBits \div 2)
        word == 2^WordBits
        cross1 == (a % half) * (b \div half)
        cross2 == (a \div half) * (b % half)
        p == (a * b) % word
        p2 == (cross2 * half) % word
        p1 == (((cross1 * half) % word) + p2) % word
    IN  [p |-> p,
         overflow |-> \/ a \div half # 0 /\ b \div half # 0
                      \/ cross1 \div half # 0 \/ cross2 \div half # 0
                      \/ p < p1 \/ p1 < p2]

NumElts(dims) == FoldLeft(LAMBDA p, d: p * d, 1, dims)

\* An array: at is the place of its first element in the store.
Array(kind, layout, dims, at) == [kind |-> kind, layout |-> layout, dims |-> dims, at |-> at]
Refused(why) == [why |-> why]
Made(b) == [why |-> "", b |-> b]

\* room is what malloc answers.
Create(kind, layout, dims, room) ==
    LET size == FoldLeft(LAMBDA r, d: LET m == Multov(r.p, d) IN [p |-> m.p, overflow |-> r.overflow \/ m.overflow],
                         [p |-> 1, overflow |-> FALSE], Append(dims, ElementSize(kind)))
    IN  IF Len(dims) < 1 \/ Len(dims) > MaxDims THEN Refused("bad number of dimensions")
        ELSE IF \E i \in DOMAIN dims: dims[i] < 0 THEN Refused("negative dimension")
        ELSE IF size.overflow \/ (~ room /\ size.p # 0) THEN Refused("Out_of_memory")
        ELSE [why |-> "", b |-> Array(kind, layout, dims, 0), bytes |-> size.p]

\* Row major from 0, or column major from 1.
Outside(b, index) == \E i \in DOMAIN b.dims:
    LET k == IF b.layout = "c" THEN index[i] ELSE index[i] - 1 IN k < 0 \/ k >= b.dims[i]
Offset(b, index) ==
    IF b.layout = "c"
    THEN FoldLeft(LAMBDA o, i: o * b.dims[i] + index[i], 0, [i \in DOMAIN b.dims |-> i])
    ELSE FoldRight(LAMBDA i, o: o * b.dims[i] + (index[i] - 1), [i \in DOMAIN b.dims |-> i], 0)

Get(store, b, index) ==
    IF Len(index) # Len(b.dims) THEN Refused("wrong number of indices")
    ELSE IF Outside(b, index) THEN Refused("index out of bounds")
    ELSE [why |-> "", n |-> store[b.at + Offset(b, index)]]
Set(store, b, index, n) ==
    IF Len(index) # Len(b.dims) \/ Outside(b, index) THEN store
    ELSE [store EXCEPT ![b.at + Offset(b, index)] = Stored(b.kind, n)]

-----------------------------------------------------------------------------
\* Views.

\* Fixes the first indices (row major) or the last ones.
Slice(b, inds) ==
    LET n == Len(b.dims) - Len(inds)
        fill(k) == [i \in 1..n |-> k]
        index == IF b.layout = "c" THEN inds \o fill(0) ELSE fill(1) \o inds
    IN  IF n <= 0 THEN Refused("too many indices")
        ELSE IF Outside(b, index) THEN Refused("index out of bounds")
        ELSE Made([b EXCEPT !.at = @ + Offset(b, index),
                            !.dims = IF b.layout = "c" THEN SubSeq(@, Len(inds) + 1, Len(@)) ELSE SubSeq(@, 1, n)])

\* Mutant: an offset from 0 in every layout.
SubArrayFromZero(b, vofs, len) ==
    LET changed == IF b.layout = "c" THEN 1 ELSE Len(b.dims)
        mul == NumElts(IF b.layout = "c" THEN Tail(b.dims) ELSE Front(b.dims))
    IN  IF vofs < 0 \/ len < 0 \/ vofs + len > b.dims[changed] THEN Refused("bad sub-array")
        ELSE Made([b EXCEPT !.at = @ + vofs * mul, !.dims[changed] = len])

\* Narrows the first dimension (row major) or the last one.
SubArray(b, vofs, len) ==
    LET rows == b.layout = "c"
        changed == IF rows THEN 1 ELSE Len(b.dims)
        mul == NumElts(IF rows THEN Tail(b.dims) ELSE Front(b.dims))
        ofs == IF rows THEN vofs ELSE vofs - 1
    IN  IF ofs < 0 \/ len < 0 \/ ofs + len > b.dims[changed] THEN Refused("bad sub-array")
        ELSE Made([b EXCEPT !.at = @ + ofs * mul, !.dims[changed] = len])

Reshape(b, dims) ==
    IF Len(dims) < 1 \/ Len(dims) > MaxDims THEN Refused("bad number of dimensions")
    ELSE IF \E i \in DOMAIN dims: dims[i] < 0 THEN Refused("negative dimension")
    ELSE IF NumElts(dims) # NumElts(b.dims) THEN Refused("size mismatch")
    ELSE Made([b EXCEPT !.dims = dims])

Places(b) == b.at .. (b.at + NumElts(b.dims) - 1)

\* A copy that the two arrays may share parts of (memmove).
Blit(store, src, dst) ==
    IF src.dims # dst.dims THEN Refused("dimension mismatch")
    ELSE [why |-> "", store |-> [p \in DOMAIN store |->
                                   IF p \in Places(dst) THEN store[p - dst.at + src.at] ELSE store[p]]]
Fill(store, b, n) == [p \in DOMAIN store |-> IF p \in Places(b) THEN Stored(b.kind, n) ELSE store[p]]

-----------------------------------------------------------------------------
\* Comparison, hashing, marshalling.
Elements(store, b) == [i \in 1..NumElts(b.dims) |-> store[b.at + i - 1]]

\* The first difference of two sequences that are as long.
FirstDifference(s, t) ==
    LET differ == {i \in DOMAIN s: s[i] # t[i]} IN
    IF differ = {} THEN 0
    ELSE LET i == CHOOSE j \in differ: \A k \in differ: j <= k IN IF s[i] < t[i] THEN -1 ELSE 1

BigarrayCompare(store, b, c) ==
    IF Len(b.dims) # Len(c.dims) THEN Len(c.dims) - Len(b.dims)
    ELSE IF b.dims # c.dims THEN FirstDifference(b.dims, c.dims)
    ELSE FirstDifference(Elements(store, b), Elements(store, c))

\* On the unsigned words of the elements.
BigarrayHash(store, b) ==
    LET all == Elements(store, b)
        some == SubSeq(all, 1, IF Len(all) < HashElts THEN Len(all) ELSE HashElts)
    IN  FoldLeft(LAMBDA h, n: (h * 17 + Unsigned(Digits(n, ElementSize(b.kind)))) % 2^16, 0, some)

Cells(s, k) == FlattenSeq([i \in DOMAIN s |-> Digits(s[i], k)])
\* Words that fit in four bytes are written so: a caml_int has a bit less.
Narrow(kind, n) == IF kind = "caml_int" THEN Fits(2 * n, 4) ELSE Fits(n, 4)
LongArray(kind, s) == IF \E i \in DOMAIN s: ~ Narrow(kind, s[i]) THEN <<1>> \o Cells(s, 8) ELSE <<0>> \o Cells(s, 4)

\* In the kernel the elements of an int64 array are not written.
BigarraySerialize(store, b) ==
    [dims |-> b.dims, kind |-> b.kind, layout |-> b.layout,
     cells |-> LET s == Elements(store, b) IN
               CASE b.kind \in {"caml_int", "native_int"} -> LongArray(b.kind, s)
                 [] b.kind = "int64" -> <<>>
                 [] OTHER -> Cells(s, ElementSize(b.kind))]

Uncells(cells, k, n, unsigned) ==
    [i \in 1..n |-> LET d == SubSeq(cells, (i - 1) * k + 1, i * k) IN IF unsigned THEN Unsigned(d) ELSE Signed(d)]

\* Reads the elements; what is left of the input comes with them.
BigarrayDeserialize(m) ==
    LET n == NumElts(m.dims)
        long == m.kind \in {"caml_int", "native_int"}
        k == IF long /\ m.cells[1] = 0 THEN 4 ELSE ElementSize(m.kind)
        cells == IF long THEN Tail(m.cells) ELSE m.cells
    IN  IF Len(cells) < n * k THEN Refused("input too short")
        ELSE [why |-> "", dims |-> m.dims, kind |-> m.kind, layout |-> m.layout,
              elements |-> Uncells(cells, k, n, UnsignedKind(m.kind)),
              left |-> Len(cells) - n * k]
=============================================================================
