---------------------------- MODULE KernelStubs ----------------------------
(***************************************************************************)
(* The kernel's own primitives that compute: the Internet checksum         *)
(* (checksum_stubs.c) and the calendar (clock_stubs.c).                    *)
(***************************************************************************)
EXTENDS Integers, Sequences, SequencesExt

\* while (sum >> 16) sum = (sum & 0xffff) + (sum >> 16)
RECURSIVE Carried(_)
Carried(sum) == IF sum < 65536 THEN sum ELSE Carried((sum % 65536) + sum \div 65536)

\* The 16-bit words of the bytes, an odd byte at the end as the upper half of
\* one; a page has too few of them for the 32 bits of sum.
ChecksumBigarray(bytes, sum) ==
    LET word(i) == 256 * bytes[2 * i - 1] + IF 2 * i <= Len(bytes) THEN bytes[2 * i] ELSE 0
    IN  Carried(FoldLeftDomain(LAMBDA n, i: n + word(i), sum, [i \in 1..((Len(bytes) + 1) \div 2) |-> i]))

OnesComplement(bytes, len) == 65535 - ChecksumBigarray(SubSeq(bytes, 1, len), 0)

\* The checksum of a frame that lies in several views.
OnesComplementList(views) == 65535 - FoldLeft(LAMBDA sum, v: ChecksumBigarray(v, sum), 0, views)

-----------------------------------------------------------------------------
IsLeap(year) == year % 4 = 0 /\ (year % 100 # 0 \/ year % 400 = 0)

\* dpm: the days before each month of a common year.
Dpm == <<0, 31, 59, 90, 120, 151, 181, 212, 243, 273, 304, 334, 365>>

\* Takes the years off the days since 1970.
RECURSIVE YearOf(_, _)
YearOf(i, x) == LET k == IF IsLeap(i) THEN 366 ELSE 365
                IN  IF x >= k THEN YearOf(i + 1, x - k) ELSE [year |-> i, yday |-> x]

\* The clock, in microseconds in the code, is a number of days and the seconds of
\* the day. A leap day is found among the days of February.
Gmtime(day, x) ==
    LET y == YearOf(1970, day)
        after == IsLeap(y.year) /\ y.yday > 58
        d == IF after THEN y.yday - 1 ELSE y.yday
        i == CHOOSE i \in 0..11: (i = 0 \/ Dpm[i + 1] <= d) /\ \A j \in (i + 1)..11: Dpm[j + 1] > d
    IN  [sec |-> x % 60, min |-> (x \div 60) % 60, hour |-> x \div 3600,
         mday |-> (IF after /\ y.yday = 59 THEN 2 ELSE 1) + d - Dpm[i + 1],
         mon |-> i, year |-> y.year - 1900, wday |-> (4 + day) % 7, yday |-> y.yday]
=============================================================================
