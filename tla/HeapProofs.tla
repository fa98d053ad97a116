----------------------------- MODULE HeapProofs -----------------------------
(***************************************************************************)
(* What the major heap keeps, for any number of words, any chunks, any     *)
(* requests and any order of allocation, sweeping and compaction, and that *)
(* it implements the allocator of module Allocator.                        *)
(*                                                                         *)
(* The invariant IInv adds to the list (HeapListProofs) that the blocks    *)
(* fill the chunks (Tiled), that the sweeper stands at a header with the   *)
(* merge point right before it (SweepAt), what black means in each phase   *)
(* (BlackIn), and that the live blocks are those which the collector will  *)
(* not take (LiveIn).  One lemma for every action shows that it keeps this *)
(* invariant; a compaction first needs that the blocks it lays out fit the *)
(* chunks one after the other (LaidOut, Packing), and then that the list   *)
(* is built again from what is left (Rebuilt).                             *)
(***************************************************************************)
EXTENDS HeapListProofs

-----------------------------------------------------------------------------

\* The chunks, each with the head of a chunk before it and room for more than
\* the compactor may pass over.
ChunksInv(ch) ==
  /\ ch \in [DOMAIN ch -> 2..Words] /\ DOMAIN ch \in SUBSET Addr /\ DOMAIN ch # {}
  /\ \A c \in DOMAIN ch : c + ch[c] <= Words + 1 /\ ch[c] > Slack
  /\ \A c, d \in DOMAIN ch : c < d => c + ch[c] < d

Limits(ch) == {c + ch[c] : c \in DOMAIN ch}

\* The blocks fill the chunks.
Tiled(hd, ch) ==
  /\ DOMAIN ch \subseteq DOMAIN hd
  /\ \A b \in DOMAIN hd : /\ Stop(hd, b) \in DOMAIN hd \cup Limits(ch)
                          /\ \E c \in DOMAIN ch : c <= b /\ Stop(hd, b) <= c + ch[c]
  /\ \A a, b \in DOMAIN hd : a < b => Stop(hd, a) <= b

\* The sweeper is at sw, in the chunk c.
SweepAt(f, ch, c, sw) ==
  /\ sw \in DOMAIN f.hd \cup {c + ch[c]} /\ c <= sw /\ sw <= c + ch[c]
  /\ LastBefore(Blue(f), f.merge, sw) /\ FragmentAt(f, sw)

\* Black is what was allocated while marking, and what is ahead of the sweeper.
BlackIn(hd, ph, sw) ==
  \A b \in DOMAIN hd : hd[b].color = "black" => ph = "mark" \/ (ph = "sweep" /\ b >= sw)

\* The blocks that are not free, and those of them that are in use.
Held(hd) == {b \in DOMAIN hd : hd[b].wosize > 0 /\ hd[b].color # "blue"}

UsedIn(hd, ph, sw) == {b \in Held(hd) : hd[b].color = "white" => ph # "sweep" \/ b < sw}

\* The program may use these, each with the words it asked for.
LiveIn(hd, ph, sw, lv) ==
  /\ lv = [b \in UsedIn(hd, ph, sw) |-> hd[b].wosize]
  /\ \A b \in UsedIn(hd, ph, sw) : hd[b].wosize \in Requests

\* The heap, first but for the table, which is behind while a chunk is added.
Solid(f, ch) == IsFl(f) /\ Sound(f.hd) /\ Threaded(f) /\ ChunksInv(ch) /\ Tiled(f.hd, ch)

GoodHeap(f, ch) == Solid(f, ch) /\ Tabled(f)

\* The heap, the phase of the collector, the sweeper and what the program may use.
HeapOK(f, ch, ph, sw, c, lv) ==
  /\ GoodHeap(f, ch)
  /\ ph \in {"idle", "mark", "sweep", "panic"} /\ sw \in 0..Words + 1 /\ c \in DOMAIN ch
  /\ ph = "sweep" => SweepAt(f, ch, c, sw)
  /\ BlackIn(f.hd, ph, sw) /\ LiveIn(f.hd, ph, sw, lv)

IInv == HeapOK(fl, chunks, phase, sweep_hp, chunk, live)

-----------------------------------------------------------------------------
(* The blocks of a chunk *)

\* Headers with their types.
IsHeap(hd) == DOMAIN hd \in SUBSET Addr /\ \A x \in DOMAIN hd : hd[x] \in Block

\* Parts of chunks, with the head of a chunk between any two.
Chunky(p) ==
  /\ DOMAIN p \in SUBSET Addr
  /\ \A c \in DOMAIN p : p[c] \in Nat /\ p[c] >= 1 /\ c + p[c] <= Words + 1
  /\ \A c, d \in DOMAIN p : c < d => c + p[c] < d

\* Chunk c has the words from lo up to adj.
InChunk(p, c, lo, adj) == c \in DOMAIN p /\ c <= lo /\ adj <= c + p[c]

\* A block ends after it starts.
LEMMA Stops ==
  ASSUME NEW hd, IsHeap(hd)
  PROVE  \A x \in DOMAIN hd : /\ x \in Nat /\ x >= 1 /\ hd[x].wosize \in Nat /\ Stop(hd, x) = x + hd[x].wosize + 1
                              /\ Stop(hd, x) \in Nat /\ x < Stop(hd, x)
<1>1. Words \in Nat
  BY Spots
<1>2. \A x \in DOMAIN hd : x \in Nat /\ x >= 1 /\ hd[x].wosize \in Nat
  BY <1>1, Keys DEF IsHeap, Block
<1> QED
  BY <1>2 DEF Stop

\* A block and the one right after it are in the same chunk.
LEMMA SameChunk ==
  ASSUME NEW hd, IsHeap(hd), NEW p, Chunky(p), Tiled(hd, p), NEW a \in DOMAIN hd, NEW b \in DOMAIN hd, Stop(hd, a) = b,
         NEW c, InChunk(p, c, a, Stop(hd, a))
  PROVE  InChunk(p, c, b, Stop(hd, b))
<1>1. PICK d \in DOMAIN p : d <= b /\ Stop(hd, b) <= d + p[d]
  BY DEF Tiled
<1>2. /\ a \in Nat /\ b \in Nat /\ Stop(hd, b) \in Nat /\ b < Stop(hd, b) /\ a < b
  BY Stops
<1>3. c \in DOMAIN p /\ c <= a /\ b <= c + p[c]
  BY DEF InChunk
<1>4. c \in Nat /\ d \in Nat /\ p[c] \in Nat /\ p[d] \in Nat
  BY <1>1, <1>3, Keys DEF Chunky
<1>5. ~ (c < d)
  <2> SUFFICES ASSUME c < d PROVE FALSE
    OBVIOUS
  <2>1. c + p[c] < d
    BY <1>1, <1>3 DEF Chunky
  <2> QED
    BY <1>1, <1>2, <1>3, <1>4, <2>1
<1>6. ~ (d < c)
  <2> SUFFICES ASSUME d < c PROVE FALSE
    OBVIOUS
  <2>1. d + p[d] < c
    BY <1>1, <1>3 DEF Chunky
  <2> QED
    BY <1>1, <1>2, <1>3, <1>4, <2>1
<1>7. c = d
  BY <1>4, <1>5, <1>6
<1> QED
  BY <1>1, <1>7 DEF InChunk

\* The blocks from lo up to adj, in one chunk, give way to others.
Retiled(hd, hd2, p, lo, adj, c) ==
  /\ IsHeap(hd) /\ IsHeap(hd2) /\ Chunky(p) /\ Tiled(hd, p) /\ InChunk(p, c, lo, adj)
  /\ lo \in DOMAIN hd /\ lo \in DOMAIN hd2 /\ adj \in Nat /\ lo < adj /\ adj \in DOMAIN hd \cup Limits(p)
  /\ \A x : ~ (lo <= x /\ x < adj) => /\ x \in DOMAIN hd2 <=> x \in DOMAIN hd
                                      /\ x \in DOMAIN hd => hd2[x].wosize = hd[x].wosize
  /\ \A x \in DOMAIN hd2 : lo <= x /\ x < adj => Stop(hd2, x) <= adj /\ (Stop(hd2, x) \in DOMAIN hd2 \/ Stop(hd2, x) = adj)
  /\ \A x, y \in DOMAIN hd2 : lo <= x /\ x < y /\ y < adj => Stop(hd2, x) <= y

\* Chunks stay filled when the blocks of a region give way to others that fill it.
LEMMA Retile ==
  ASSUME NEW hd, NEW hd2, NEW p, NEW lo, NEW adj, NEW c, Retiled(hd, hd2, p, lo, adj, c)
  PROVE  Tiled(hd2, p)
<1> DEFINE D == DOMAIN hd
           E == DOMAIN hd2
<1>1. /\ IsHeap(hd) /\ IsHeap(hd2) /\ Chunky(p) /\ Tiled(hd, p) /\ InChunk(p, c, lo, adj)
      /\ lo \in D /\ lo \in E /\ adj \in Nat /\ lo < adj /\ adj \in D \cup Limits(p)
      /\ \A x : ~ (lo <= x /\ x < adj) => (x \in E <=> x \in D) /\ (x \in D => hd2[x].wosize = hd[x].wosize)
  BY DEF Retiled
<1>2. /\ \A x \in E : lo <= x /\ x < adj => Stop(hd2, x) <= adj /\ (Stop(hd2, x) \in E \/ Stop(hd2, x) = adj)
      /\ \A x, y \in E : lo <= x /\ x < y /\ y < adj => Stop(hd2, x) <= y
  BY DEF Retiled
<1>3. \A x \in D : x \in Nat /\ Stop(hd, x) \in Nat /\ x < Stop(hd, x)
  BY <1>1, Stops
<1>4. \A x \in E : x \in Nat /\ Stop(hd2, x) \in Nat /\ x < Stop(hd2, x)
  BY <1>1, Stops
<1>5. \A x : ~ (lo <= x /\ x < adj) => (x \in D => Stop(hd2, x) = Stop(hd, x))
  BY <1>1 DEF Stop
<1>6. /\ \A x, y \in D : x < y => Stop(hd, x) <= y
      /\ \A x \in D : Stop(hd, x) \in D \cup Limits(p) /\ \E d \in DOMAIN p : d <= x /\ Stop(hd, x) <= d + p[d]
      /\ DOMAIN p \subseteq D
  BY <1>1 DEF Tiled
<1>7. c \in DOMAIN p /\ c <= lo /\ adj <= c + p[c] /\ c \in Nat /\ p[c] \in Nat /\ lo \in Nat
  BY <1>1, <1>3, Keys DEF InChunk, Chunky
<1>8. \A x, d \in DOMAIN p : x < d => x + p[x] < d
  BY <1>1 DEF Chunky
<1> HIDE DEF D, E
<1>9. \A x \in D : lo <= x /\ x < adj => x \in Nat
  BY <1>3
<1>10. ASSUME NEW d \in DOMAIN p PROVE d \in E
  <2>1. d \in D /\ d \in Nat
    BY <1>3, <1>6
  <2>2. CASE d = lo
    BY <1>1, <2>2
  <2>3. CASE lo <= d /\ d < adj /\ d # lo
    <3>1. c < d
      BY <1>7, <2>1, <2>3
    <3>2. c + p[c] < d
      BY <1>7, <1>8, <3>1
    <3> QED
      BY <1>1, <1>7, <2>1, <2>3, <3>2
  <2>4. CASE ~ (lo <= d /\ d < adj)
    BY <1>1, <2>1, <2>4
  <2> QED
    BY <2>2, <2>3, <2>4
<1>11. adj \in E \cup Limits(p)
  <2>1. ~ (lo <= adj /\ adj < adj)
    BY <1>1
  <2> QED
    BY <1>1, <2>1
<1>12. ASSUME NEW b \in E PROVE Stop(hd2, b) \in E \cup Limits(p)
  <2>1. CASE lo <= b /\ b < adj
    BY <1>2, <1>11, <2>1
  <2>2. CASE ~ (lo <= b /\ b < adj)
    <3>1. b \in D /\ Stop(hd2, b) = Stop(hd, b) /\ Stop(hd, b) \in D \cup Limits(p)
      BY <1>1, <1>5, <1>6, <2>2
    <3>2. CASE Stop(hd, b) \in Limits(p)
      BY <3>1, <3>2
    <3>3. CASE Stop(hd, b) \in D
      <4>1. CASE Stop(hd, b) = lo
        BY <1>1, <3>1, <4>1
      <4>2. CASE Stop(hd, b) # lo
        <5>1. ~ (lo <= Stop(hd, b) /\ Stop(hd, b) < adj)
          <6>1. b < lo => Stop(hd, b) <= lo
            BY <1>1, <1>6, <3>1
          <6> QED
            BY <1>1, <1>3, <1>7, <2>2, <3>1, <4>2, <6>1
        <5> QED
          BY <1>1, <3>1, <3>3, <5>1
      <4> QED
        BY <4>1, <4>2
    <3> QED
      BY <3>1, <3>2, <3>3
  <2> QED
    BY <2>1, <2>2
<1>13. ASSUME NEW b \in E PROVE \E d \in DOMAIN p : d <= b /\ Stop(hd2, b) <= d + p[d]
  <2>1. CASE lo <= b /\ b < adj
    <3>1. Stop(hd2, b) <= adj
      BY <1>2, <2>1
    <3>2. c <= b /\ Stop(hd2, b) <= c + p[c]
      BY <1>1, <1>4, <1>7, <2>1, <3>1
    <3> QED
      BY <1>7, <3>2
  <2>2. CASE ~ (lo <= b /\ b < adj)
    BY <1>1, <1>5, <1>6, <2>2
  <2> QED
    BY <2>1, <2>2
<1>14. ASSUME NEW a \in E, NEW b \in E, a < b PROVE Stop(hd2, a) <= b
  <2>0. a \in Nat /\ b \in Nat /\ Stop(hd2, a) \in Nat
    BY <1>4
  <2>1. CASE lo <= a /\ a < adj
    <3>1. CASE b < adj
      BY <1>2, <1>14, <2>1, <3>1
    <3>2. CASE ~ (b < adj)
      BY <1>1, <1>2, <2>0, <2>1, <3>2
    <3> QED
      BY <3>1, <3>2
  <2>2. CASE ~ (lo <= a /\ a < adj)
    <3>1. a \in D /\ Stop(hd2, a) = Stop(hd, a)
      BY <1>1, <1>5, <2>2
    <3>2. CASE ~ (lo <= b /\ b < adj)
      <4>1. b \in D
        BY <1>1, <3>2
      <4> QED
        BY <1>6, <1>14, <3>1, <4>1
    <3>3. CASE lo <= b /\ b < adj
      <4>1. a < lo
        BY <1>1, <1>7, <1>14, <2>0, <2>2, <3>3
      <4>2. Stop(hd, a) <= lo
        BY <1>1, <1>6, <3>1, <4>1
      <4> QED
        BY <1>7, <2>0, <3>1, <3>3, <4>2
    <3> QED
      BY <3>2, <3>3
  <2> QED
    BY <2>1, <2>2
<1> QED
  BY <1>10, <1>12, <1>13, <1>14 DEF Tiled, D, E

\* A word is in one chunk only.
LEMMA OneChunk ==
  ASSUME NEW p, Chunky(p), NEW c \in DOMAIN p, NEW d \in DOMAIN p, NEW x \in Nat,
         c <= x, x < c + p[c], d <= x, x < d + p[d]
  PROVE  c = d
<1>1. c \in Nat /\ d \in Nat /\ p[c] \in Nat /\ p[d] \in Nat
  BY Keys DEF Chunky
<1>2. (c < d => c + p[c] < d) /\ (d < c => d + p[d] < c)
  BY DEF Chunky
<1> QED
  BY <1>1, <1>2

\* The region that is merged is in one chunk.
LEMMA RegionChunk ==
  ASSUME NEW f, NEW bp, Mergeable(f, bp), NEW p, Chunky(p), Tiled(f.hd, p)
  PROVE  /\ \E c : InChunk(p, c, MLo(f, bp), MAdj(f, bp))
         /\ MAdj(f, bp) \in DOMAIN f.hd \cup Limits(p)
<1> DEFINE lo == MLo(f, bp)
           adj == MAdj(f, bp)
           b == MStart(f, bp)
           hd == f.hd
           cur == MCur(f)
           n == MSize(f, bp)
<1>1. IsHeap(hd) /\ bp \in DOMAIN hd
  BY DEF Mergeable, IsFl, IsHeap
<1>2. Region(f, bp, lo, b, n, adj)
  BY RegionIs
<1>3. StartFacts(f, bp, b, MSize0(f, bp))
  BY StartFactsAre
<1>4. /\ lo \in DOMAIN hd /\ b \in DOMAIN hd
      /\ (MGlued(f, bp) => Stop(hd, lo) = b) /\ (~ MGlued(f, bp) => lo = b)
      /\ (b # bp => hd[b].wosize = 0 /\ b + 1 = bp /\ b \in Nat)
      /\ adj = (IF MEats(f, bp) THEN Stop(hd, cur) ELSE Stop(hd, bp))
  BY <1>2, <1>3 DEF Region, StartFacts
<1>5. MEats(f, bp) => cur \in DOMAIN hd /\ cur = Stop(hd, bp)
  BY EatFactsAre DEF EatFacts
<1>6. b # bp => Stop(hd, b) = bp
  <2> HIDE DEF b
  <2> QED
    BY <1>4 DEF Stop
<1> HIDE DEF lo, adj, b, hd, cur, n
<1>7. PICK c \in DOMAIN p : c <= lo /\ Stop(hd, lo) <= c + p[c]
  BY <1>4 DEF Tiled, hd
<1>8. InChunk(p, c, lo, Stop(hd, lo))
  BY <1>7 DEF InChunk
<1>9. Tiled(hd, p)
  BY DEF hd
<1>10. InChunk(p, c, b, Stop(hd, b))
  <2>1. CASE MGlued(f, bp)
    BY <1>1, <1>4, <1>8, <1>9, <2>1, SameChunk
  <2>2. CASE ~ MGlued(f, bp)
    BY <1>4, <1>8, <2>2
  <2> QED
    BY <2>1, <2>2
<1>11. InChunk(p, c, bp, Stop(hd, bp))
  <2>1. CASE b # bp
    BY <1>1, <1>4, <1>6, <1>9, <1>10, <2>1, SameChunk
  <2>2. CASE b = bp
    BY <1>10, <2>2
  <2> QED
    BY <2>1, <2>2
<1>12. InChunk(p, c, bp, adj)
  <2>1. CASE MEats(f, bp)
    <3>1. InChunk(p, c, cur, Stop(hd, cur))
      BY <1>1, <1>5, <1>9, <1>11, <2>1, SameChunk
    <3>2. adj = Stop(hd, cur)
      BY <1>4, <2>1
    <3> QED
      BY <1>11, <3>1, <3>2 DEF InChunk
  <2>2. CASE ~ MEats(f, bp)
    BY <1>4, <1>11, <2>2
  <2> QED
    BY <2>1, <2>2
<1>13. InChunk(p, c, lo, adj)
  BY <1>8, <1>12 DEF InChunk
<1>14. adj \in DOMAIN hd \cup Limits(p)
  <2>1. \A x \in DOMAIN hd : Stop(hd, x) \in DOMAIN hd \cup Limits(p)
    BY <1>9 DEF Tiled
  <2> QED
    BY <1>1, <1>4, <1>5, <2>1
<1> QED
  BY <1>13, <1>14 DEF lo, adj, hd

\* The chunks stay filled.
LEMMA TileMerge ==
  ASSUME NEW f, NEW bp, Mergeable(f, bp), NEW p, Chunky(p), Tiled(f.hd, p), NEW hd, 
         MergedHd(f, hd, MLo(f, bp), MAdj(f, bp))
  PROVE  /\ Tiled(hd, p) /\ MAdj(f, bp) \in DOMAIN hd \cup Limits(p)
         /\ \A c \in DOMAIN p : c <= bp /\ bp < c + p[c] => MAdj(f, bp) <= c + p[c]
<1> DEFINE lo == MLo(f, bp)
           adj == MAdj(f, bp)
           old == f.hd
<1>1. PICK c : InChunk(p, c, lo, adj)
  BY RegionChunk
<1>2. adj \in DOMAIN old \cup Limits(p)
  BY RegionChunk
<1>3. MergedHd(f, hd, lo, adj)
  OBVIOUS
<1>4. IsHeap(old) /\ bp \in DOMAIN old /\ Tiled(old, p)
  BY DEF Mergeable, IsFl, IsHeap
<1>5. lo <= bp /\ bp < adj
  BY FreedIs DEF Freed
<1> HIDE DEF lo, adj, old
<1>6. /\ lo \in DOMAIN old /\ lo \in Nat /\ adj \in Nat /\ lo < adj
      /\ DOMAIN hd = {x \in DOMAIN old : ~ (lo < x /\ x < adj)}
      /\ \A x \in DOMAIN hd \ {lo} : hd[x] = old[x]
      /\ hd[lo].wosize = adj - lo - 1 /\ \A x \in DOMAIN hd : hd[x] \in Block
  BY <1>3 DEF MergedHd, old
<1>7. IsHeap(hd)
  BY <1>4, <1>6 DEF IsHeap
<1>8. \A x \in DOMAIN old : x \in Nat
  BY <1>4, Stops
<1>9. lo \in DOMAIN hd /\ \A x \in DOMAIN hd : lo <= x /\ x < adj => x = lo
  BY <1>6, <1>8
<1>10. ASSUME NEW x, ~ (lo <= x /\ x < adj)
       PROVE  (x \in DOMAIN hd <=> x \in DOMAIN old) /\ (x \in DOMAIN old => hd[x].wosize = old[x].wosize)
  <2>1. x \in DOMAIN old => x \in DOMAIN hd /\ x # lo
    BY <1>6, <1>8, <1>10
  <2> QED
    BY <1>6, <2>1
<1>11. Stop(hd, lo) = adj
  BY <1>6 DEF Stop
<1>12. Retiled(old, hd, p, lo, adj, c)
  <2>1. \A x \in DOMAIN hd : lo <= x /\ x < adj => Stop(hd, x) <= adj /\ (Stop(hd, x) \in DOMAIN hd \/ Stop(hd, x) = adj)
    BY <1>6, <1>9, <1>11
  <2>2. \A x, y \in DOMAIN hd : lo <= x /\ x < y /\ y < adj => Stop(hd, x) <= y
    BY <1>6, <1>8, <1>9
  <2> QED
    BY <1>1, <1>2, <1>4, <1>6, <1>7, <1>9, <1>10, <2>1, <2>2 DEF Retiled
<1>13. Tiled(hd, p)
  BY <1>12, Retile
<1>14. adj \in DOMAIN hd \cup Limits(p)
  BY <1>2, <1>6
<1>15. ASSUME NEW d \in DOMAIN p, d <= bp, bp < d + p[d] PROVE adj <= d + p[d]
  <2>1. c \in DOMAIN p /\ c <= lo /\ adj <= c + p[c]
    BY <1>1 DEF InChunk
  <2>2. c \in Nat /\ p[c] \in Nat /\ bp \in Nat
    BY <1>4, <1>8, <2>1, Keys DEF Chunky
  <2>3. c <= bp /\ bp < c + p[c]
    BY <1>5, <1>6, <2>1, <2>2
  <2>4. c = d
    BY <1>15, <2>1, <2>2, <2>3, OneChunk
  <2> QED
    BY <2>1, <2>4
<1> QED
  BY <1>13, <1>14, <1>15 DEF adj

\* Chunk a is filled by w words more, from `at` on.
Filled(p, p2, a, w, at) ==
  /\ Chunky(p) /\ Chunky(p2) /\ a \in Addr /\ w \in Nat \ {0} /\ DOMAIN p2 = DOMAIN p \cup {a}
  /\ \A c \in DOMAIN p \ {a} : p2[c] = p[c]
  /\ at = a + (IF a \in DOMAIN p THEN p[a] ELSE 0) /\ a + p2[a] = at + w

\* The words from `at` on are no block's.
LEMMA WordsAreFree ==
  ASSUME NEW hd, IsHeap(hd), NEW p, NEW p2, NEW a, NEW w, NEW at, Filled(p, p2, a, w, at), Tiled(hd, p)
  PROVE  /\ at \in Addr /\ a <= at /\ at + w <= Words + 1
         /\ \A x \in DOMAIN hd : (x < at /\ Stop(hd, x) <= at) \/ at + w <= x
<1>1. /\ Chunky(p) /\ Chunky(p2) /\ a \in Addr /\ w \in Nat \ {0} /\ DOMAIN p2 = DOMAIN p \cup {a}
      /\ \A c \in DOMAIN p \ {a} : p2[c] = p[c]
      /\ at = a + (IF a \in DOMAIN p THEN p[a] ELSE 0) /\ a + p2[a] = at + w
  BY DEF Filled
<1>2. a \in Nat /\ a >= 1 /\ p2[a] \in Nat /\ (a \in DOMAIN p => p[a] \in Nat) /\ a + p2[a] <= Words + 1 /\ Words \in Nat
  BY <1>1, Keys, Spots DEF Chunky
<1>3. at \in Nat /\ a <= at /\ at >= 1 /\ at + w <= Words + 1 /\ at <= Words
  <2>1. CASE a \in DOMAIN p
    BY <1>1, <1>2, <2>1
  <2>2. CASE a \notin DOMAIN p
    BY <1>1, <1>2, <2>2
  <2> QED
    BY <2>1, <2>2
<1>4. at \in Addr
  BY <1>3, Spots
<1>5. ASSUME NEW x \in DOMAIN hd PROVE (x < at /\ Stop(hd, x) <= at) \/ at + w <= x
  <2>1. PICK d \in DOMAIN p : d <= x /\ Stop(hd, x) <= d + p[d]
    BY DEF Tiled
  <2>2. x \in Nat /\ Stop(hd, x) \in Nat /\ x < Stop(hd, x)
    BY Stops
  <2>3. d \in Nat /\ p[d] \in Nat
    BY <1>1, Keys DEF Chunky
  <2>4. CASE d = a
    BY <1>1, <1>2, <1>3, <2>1, <2>2, <2>4
  <2>5. CASE d # a
    <3>1. p2[d] = p[d] /\ d \in DOMAIN p2 /\ a \in DOMAIN p2
      BY <1>1, <2>5
    <3>2. (d < a => d + p2[d] < a) /\ (a < d => a + p2[a] < d)
      BY <1>1, <3>1 DEF Chunky
    <3>3. d < a \/ a < d
      BY <1>2, <2>3, <2>5
    <3>4. CASE d < a
      BY <1>2, <1>3, <2>1, <2>2, <2>3, <3>1, <3>2, <3>4
    <3>5. CASE a < d
      BY <1>1, <1>2, <1>3, <2>1, <2>2, <2>3, <3>2, <3>5
    <3> QED
      BY <3>3, <3>4, <3>5
  <2> QED
    BY <2>4, <2>5
<1> QED
  BY <1>3, <1>4, <1>5

\* The heap hd2 is hd with a block of w words, header included, at `at`.
Laid(hd, hd2, at, w) ==
  /\ IsHeap(hd2) /\ DOMAIN hd2 = DOMAIN hd \cup {at} /\ hd2[at].wosize = w - 1
  /\ \A x \in DOMAIN hd : hd2[x].wosize = hd[x].wosize

\* Chunks stay filled when a block is laid into words that were added.
LEMMA TileExtend ==
  ASSUME NEW hd, IsHeap(hd), NEW p, NEW p2, NEW a, NEW w, NEW at, Filled(p, p2, a, w, at), Tiled(hd, p),
         NEW hd2, Laid(hd, hd2, at, w)
  PROVE  Tiled(hd2, p2)
<1>0. IsHeap(hd2) /\ DOMAIN hd2 = DOMAIN hd \cup {at} /\ hd2[at].wosize = w - 1
      /\ \A x \in DOMAIN hd : hd2[x].wosize = hd[x].wosize
  BY DEF Laid
<1>1. /\ Chunky(p) /\ Chunky(p2) /\ a \in Addr /\ w \in Nat \ {0} /\ DOMAIN p2 = DOMAIN p \cup {a}
      /\ \A c \in DOMAIN p \ {a} : p2[c] = p[c]
      /\ at = a + (IF a \in DOMAIN p THEN p[a] ELSE 0) /\ a + p2[a] = at + w
  BY DEF Filled
<1>2. /\ at \in Addr /\ a <= at /\ at + w <= Words + 1
      /\ \A x \in DOMAIN hd : (x < at /\ Stop(hd, x) <= at) \/ at + w <= x
  BY <1>0, WordsAreFree
<1>3. at \in Nat /\ a \in Nat /\ p2[a] \in Nat /\ (a \in DOMAIN p => p[a] \in Nat)
  BY <1>0, <1>1, <1>2, Keys DEF Chunky
<1>4. Stop(hd2, at) = at + w
  BY <1>0, <1>1, <1>3 DEF Stop
<1>5. \A x \in DOMAIN hd : Stop(hd2, x) = Stop(hd, x)
  BY <1>0 DEF Stop
<1>6. \A x \in DOMAIN hd : x \in Nat /\ Stop(hd, x) \in Nat /\ x < Stop(hd, x) /\ x # at
  <2>1. \A x \in DOMAIN hd : x \in Nat /\ Stop(hd, x) \in Nat /\ x < Stop(hd, x)
    BY <1>0, Stops
  <2> QED
    BY <1>0, <1>1, <1>2, <1>3, <2>1
<1>7. DOMAIN p2 \subseteq DOMAIN hd2
  <2>1. DOMAIN p \subseteq DOMAIN hd
    BY DEF Tiled
  <2>2. a \notin DOMAIN p => a = at
    BY <1>0, <1>1, <1>3
  <2> QED
    BY <1>0, <1>1, <2>1, <2>2
<1>8. ASSUME NEW b \in DOMAIN hd2
      PROVE  Stop(hd2, b) \in DOMAIN hd2 \cup Limits(p2) /\ \E c \in DOMAIN p2 : c <= b /\ Stop(hd2, b) <= c + p2[c]
  <2>1. CASE b = at
    <3>1. Stop(hd2, b) = a + p2[a] /\ a \in DOMAIN p2
      BY <1>0, <1>1, <1>4, <2>1
    <3>2. a + p2[a] \in Limits(p2)
      BY <1>0, <3>1 DEF Limits
    <3>3. a <= b /\ a + p2[a] <= a + p2[a]
      BY <1>0, <1>2, <1>3, <2>1
    <3> QED
      BY <1>0, <3>1, <3>2, <3>3
  <2>2. CASE b # at
    <3>1. b \in DOMAIN hd /\ Stop(hd2, b) = Stop(hd, b)
      BY <1>0, <1>5, <2>2
    <3>2. Stop(hd, b) \in DOMAIN hd \cup Limits(p)
      BY <1>0, <3>1 DEF Tiled
    <3>3. Limits(p) \subseteq Limits(p2) \cup {at}
      <4>1. ASSUME NEW c \in DOMAIN p PROVE c + p[c] \in Limits(p2) \cup {at}
        <5>1. CASE c = a
          BY <1>0, <1>1, <5>1
        <5>2. CASE c # a
          BY <1>0, <1>1, <5>2 DEF Limits
        <5> QED
          BY <1>0, <5>1, <5>2
      <4> QED
        BY <1>0, <4>1 DEF Limits
    <3>4. PICK c \in DOMAIN p : c <= b /\ Stop(hd, b) <= c + p[c]
      BY <1>0, <3>1 DEF Tiled
    <3>5. c \in DOMAIN p2 /\ Stop(hd, b) <= c + p2[c]
      <4>1. CASE c = a
        <5>1. p2[a] = p[a] + w
          BY <1>0, <1>1, <1>3, <4>1
        <5> QED
          BY <1>0, <1>1, <1>3, <1>6, <3>1, <3>4, <4>1, <5>1
      <4>2. CASE c # a
        BY <1>0, <1>1, <3>4, <4>2
      <4> QED
        BY <1>0, <4>1, <4>2
    <3> QED
      BY <1>0, <3>1, <3>2, <3>3, <3>4, <3>5
  <2> QED
    BY <1>0, <2>1, <2>2
<1>9. ASSUME NEW x \in DOMAIN hd2, NEW y \in DOMAIN hd2, x < y PROVE Stop(hd2, x) <= y
  <2>1. CASE x = at
    <3>1. y \in DOMAIN hd
      BY <1>0, <1>3, <1>9, <2>1
    <3> QED
      BY <1>0, <1>1, <1>2, <1>3, <1>4, <1>6, <1>9, <2>1, <3>1
  <2>2. CASE x # at /\ y = at
    <3>1. x \in DOMAIN hd
      BY <1>0, <2>2
    <3> QED
      BY <1>0, <1>1, <1>2, <1>3, <1>5, <1>6, <1>9, <2>2, <3>1
  <2>3. CASE x # at /\ y # at
    BY <1>0, <1>5, <1>9, <2>3 DEF Tiled
  <2> QED
    BY <1>0, <2>1, <2>2, <2>3
<1> QED
  BY <1>0, <1>7, <1>8, <1>9 DEF Tiled

\* The blocks of a heap are apart from each other and inside of it.
LEMMA SolidIs ==
  ASSUME NEW f, NEW ch, Solid(f, ch)
  PROVE  /\ IsHeap(f.hd) /\ Chunky(ch) /\ Apart(f.hd) /\ Inside1(f.hd)
         /\ \A x \in DOMAIN f.hd : Stop(f.hd, x) <= Words + 1
<1>1. IsHeap(f.hd)
  BY DEF Solid, IsFl, IsHeap
<1>2. Chunky(ch)
  <2>1. \A c \in DOMAIN ch : ch[c] \in 2..Words
    BY DEF Solid, ChunksInv
  <2>2. \A c \in DOMAIN ch : ch[c] \in Nat /\ ch[c] >= 1
    BY <2>1
  <2> QED
    BY <2>2 DEF Solid, ChunksInv, Chunky
<1>3. Apart(f.hd)
  BY DEF Solid, Tiled, Apart
<1>4. ASSUME NEW x \in DOMAIN f.hd PROVE Stop(f.hd, x) <= Words + 1
  <2>1. PICK c \in DOMAIN ch : c <= x /\ Stop(f.hd, x) <= c + ch[c]
    BY DEF Solid, Tiled
  <2>2. c \in Nat /\ ch[c] \in Nat /\ c + ch[c] <= Words + 1
    BY <1>2, <2>1, Keys DEF Chunky
  <2>3. Stop(f.hd, x) \in Nat
    BY <1>1, Stops
  <2> QED
    BY <2>1, <2>2, <2>3, Spots
<1> QED
  BY <1>1, <1>2, <1>3, <1>4 DEF Inside1

\* The same, with the table in order.
LEMMA HeapIs ==
  ASSUME NEW f, NEW ch, GoodHeap(f, ch)
  PROVE  /\ IsHeap(f.hd) /\ Chunky(ch) /\ Apart(f.hd) /\ Inside1(f.hd)
         /\ \A x \in DOMAIN f.hd : Stop(f.hd, x) <= Words + 1
BY SolidIs DEF GoodHeap

\* Where a chunk is left off.
LEMMA LimitOf ==
  ASSUME NEW ch, Chunky(ch), NEW c \in DOMAIN ch, NEW D, NEW x \in D \cup Limits(ch), x \in Nat, c < x, x <= c + ch[c]
  PROVE  x \in D \cup {c + ch[c]}
<1> SUFFICES ASSUME x \in Limits(ch) PROVE x = c + ch[c]
  OBVIOUS
<1>1. PICK d \in DOMAIN ch : x = d + ch[d]
  BY DEF Limits
<1>2. c \in Nat /\ d \in Nat /\ ch[c] \in Nat /\ ch[d] \in Nat
  BY Keys DEF Chunky
<1>3. (c < d => c + ch[c] < d) /\ (d < c => d + ch[d] < c)
  BY DEF Chunky
<1>4. c = d
  BY <1>1, <1>2, <1>3
<1> QED
  BY <1>1, <1>4

\* The blocks that are held after a merge.
LEMMA HeldMerged ==
  ASSUME NEW f, NEW h, NEW bp, NEW lo, NEW adj, IsFl(f), Sound(f.hd), bp \in DOMAIN f.hd, f.hd[bp].color = "white",
         MergedHd(f, h.hd, lo, adj), Freed(f, bp, lo, adj)
  PROVE  /\ Sound(h.hd) /\ Held(h.hd) = Held(f.hd) \ {bp}
         /\ \A b \in Held(h.hd) : h.hd[b] = f.hd[b] /\ (b < lo \/ adj <= b)
         /\ \A b \in DOMAIN h.hd : h.hd[b].color = "black" => b \in Held(f.hd) /\ h.hd[b] = f.hd[b] /\ b # bp
<1> DEFINE D == DOMAIN f.hd
           E == DOMAIN h.hd
<1>1. /\ lo \in D /\ lo \in Nat /\ adj \in Nat /\ lo < adj
      /\ E = {x \in D : ~ (lo < x /\ x < adj)}
      /\ \A x \in E \ {lo} : h.hd[x] = f.hd[x]
      /\ h.hd[lo].wosize = adj - lo - 1 /\ h.hd[lo].color = IF adj = lo + 1 THEN "white" ELSE "blue"
  BY DEF MergedHd
<1>2. /\ \A x \in D : lo <= x /\ x < adj => x = bp \/ f.hd[x].color = "blue" \/ f.hd[x].wosize = 0
      /\ lo <= bp /\ bp < adj
  BY DEF Freed
<1>3. \A x \in D : x \in Nat /\ f.hd[x].wosize \in Nat
  <2>1. IsHeap(f.hd)
    BY DEF IsFl, IsHeap
  <2> QED
    BY <2>1, Stops
<1>4. \A b \in D : (f.hd[b].color = "blue" => f.hd[b].wosize > 0) /\ (f.hd[b].wosize = 0 => f.hd[b].color = "white")
  BY DEF Sound
<1> HIDE DEF D, E
<1>5. lo \in E /\ \A x \in E : x # lo => x \in D /\ (x < lo \/ adj <= x)
  BY <1>1, <1>3
<1>6. h.hd[lo].color # "black" /\ (h.hd[lo].wosize = 0 => h.hd[lo].color = "white")
      /\ (h.hd[lo].color = "blue" => h.hd[lo].wosize > 0) /\ (h.hd[lo].color = "blue" \/ h.hd[lo].wosize = 0)
  BY <1>1
<1>7. ASSUME NEW b \in E
      PROVE  /\ h.hd[b].color = "blue" => h.hd[b].wosize > 0
             /\ h.hd[b].wosize = 0 => h.hd[b].color = "white"
  <2>1. CASE b = lo
    BY <1>6, <2>1
  <2>2. CASE b # lo
    BY <1>1, <1>4, <1>5, <2>2
  <2> QED
    BY <2>1, <2>2
<1>8. Sound(h.hd)
  BY <1>7 DEF Sound, E
<1>9. Held(h.hd) = {b \in E : h.hd[b].wosize > 0 /\ h.hd[b].color # "blue"}
      /\ Held(f.hd) = {b \in D : f.hd[b].wosize > 0 /\ f.hd[b].color # "blue"}
  BY DEF Held, D, E
<1>10. ASSUME NEW b \in Held(h.hd)
       PROVE  h.hd[b] = f.hd[b] /\ (b < lo \/ adj <= b) /\ b \in Held(f.hd) /\ b # bp
  <2>1. b # lo
    <3>1. ~ (0 > 0)
      OBVIOUS
    <3> QED
      BY <1>6, <1>9, <3>1
  <2>2. b \in D /\ (b < lo \/ adj <= b) /\ h.hd[b] = f.hd[b]
    BY <1>1, <1>5, <1>9, <2>1
  <2>3. b # bp
    <3>1. bp \in Nat
      BY <1>3 DEF D
    <3> QED
      BY <1>1, <1>2, <1>3, <2>2, <3>1
  <2> QED
    BY <1>9, <2>2, <2>3
<1>11. ASSUME NEW b \in Held(f.hd), b # bp PROVE b \in Held(h.hd)
  <2>1. b \in D /\ f.hd[b].wosize > 0 /\ f.hd[b].color # "blue"
    BY <1>9
  <2>2. ~ (lo <= b /\ b < adj)
    <3>1. f.hd[b].wosize # 0
      BY <1>3, <2>1
    <3> QED
      BY <1>2, <1>11, <2>1, <3>1
  <2>3. b \in E /\ b # lo
    BY <1>1, <1>3, <2>1, <2>2
  <2> QED
    BY <1>1, <1>9, <2>1, <2>3
<1>12. Held(h.hd) = Held(f.hd) \ {bp}
  BY <1>10, <1>11
<1>13. ASSUME NEW b \in E, h.hd[b].color = "black" PROVE b \in Held(h.hd)
  <2>1. b # lo /\ b \in D /\ h.hd[b] = f.hd[b]
    BY <1>1, <1>5, <1>6, <1>13
  <2>2. f.hd[b].wosize # 0
    BY <1>4, <1>13, <2>1
  <2>3. f.hd[b].wosize > 0
    BY <1>3, <2>1, <2>2
  <2> QED
    BY <1>9, <1>13, <2>1, <2>3
<1> QED
  BY <1>8, <1>10, <1>12, <1>13 DEF E

-----------------------------------------------------------------------------
(* Sweeping *)

Sweeping(f, ch, c, sw) ==
  /\ GoodHeap(f, ch) /\ c \in DOMAIN ch /\ SweepAt(f, ch, c, sw) /\ BlackIn(f.hd, "sweep", sw)

\* The sweeper went on from sw to adj; what is in use stays.
SweptTo(f, h, ch, c, sw, adj) ==
  /\ Sweeping(h, ch, c, adj) /\ UsedIn(h.hd, "sweep", adj) = UsedIn(f.hd, "sweep", sw)
  /\ \A b \in UsedIn(f.hd, "sweep", sw) : h.hd[b].wosize = f.hd[b].wosize
  /\ adj \in 0..Words + 1

\* Sweeping a white block merges it (major_gc.c:306-312).
LEMMA SweepWhite ==
  ASSUME NEW f, NEW ch, NEW c, NEW sw, Sweeping(f, ch, c, sw), sw < c + ch[c], f.hd[sw].color = "white"
  PROVE  SweptTo(f, MergeBlock(f, sw).f, ch, c, sw, MergeBlock(f, sw).adj)
<1> DEFINE h == MergeBlock(f, sw).f
           adj == MAdj(f, sw)
           lo == MLo(f, sw)
<1>1. GoodHeap(f, ch) /\ c \in DOMAIN ch /\ SweepAt(f, ch, c, sw) /\ BlackIn(f.hd, "sweep", sw)
  BY DEF Sweeping
<1>2. IsHeap(f.hd) /\ Chunky(ch) /\ Apart(f.hd) /\ Inside1(f.hd)
  BY <1>1, HeapIs
<1>3. c \in Nat /\ ch[c] \in Nat
  BY <1>1, <1>2, Keys DEF Chunky
<1>4. sw \in DOMAIN f.hd /\ c <= sw
  <2>1. sw \in DOMAIN f.hd \cup {c + ch[c]} /\ c <= sw
    BY <1>1 DEF SweepAt
  <2>2. sw # c + ch[c]
    BY <1>3
  <2> QED
    BY <2>1, <2>2
<1>5. Mergeable(f, sw)
  BY <1>1, <1>2, <1>4 DEF Mergeable, GoodHeap, Solid, SweepAt
<1>6. MergeBlock(f, sw).adj = adj /\ Merged(f, h, sw, lo, adj)
  BY <1>5, MergeIs
<1>7. Tiled(f.hd, ch) /\ ChunksInv(ch) /\ IsFl(f) /\ Sound(f.hd)
  BY <1>1 DEF GoodHeap, Solid
<1> HIDE DEF h, adj, lo
<1>8. MergedHd(f, h.hd, lo, adj) /\ Freed(f, sw, lo, adj)
  BY <1>6 DEF Merged
<1>9. Tiled(h.hd, ch) /\ adj \in DOMAIN h.hd \cup Limits(ch) /\ adj <= c + ch[c]
  <2>1. MergedHd(f, h.hd, MLo(f, sw), MAdj(f, sw))
    BY <1>8 DEF lo, adj
  <2>2. /\ Tiled(h.hd, ch) /\ MAdj(f, sw) \in DOMAIN h.hd \cup Limits(ch)
        /\ \A d \in DOMAIN ch : d <= sw /\ sw < d + ch[d] => MAdj(f, sw) <= d + ch[d]
    BY <1>2, <1>5, <1>7, <2>1, TileMerge
  <2> QED
    BY <1>1, <1>4, <2>2 DEF adj
<1>10. /\ Sound(h.hd) /\ Held(h.hd) = Held(f.hd) \ {sw}
       /\ \A b \in Held(h.hd) : h.hd[b] = f.hd[b] /\ (b < lo \/ adj <= b)
       /\ \A b \in DOMAIN h.hd : h.hd[b].color = "black" => b \in Held(f.hd) /\ h.hd[b] = f.hd[b] /\ b # sw
  BY <1>4, <1>7, <1>8, HeldMerged
<1>11. /\ lo \in Nat /\ adj \in Nat /\ lo <= sw /\ sw < adj /\ adj <= Words + 1 /\ sw \in Nat
  <2>1. sw \in Nat
    BY <1>2, <1>4, Stops
  <2> QED
    BY <1>8, <2>1 DEF MergedHd, Freed
<1>12. GoodHeap(h, ch)
  BY <1>6, <1>7, <1>9, <1>10 DEF GoodHeap, Solid, Merged
<1>13. \A b \in Held(f.hd) : b \in Nat /\ b \in DOMAIN f.hd
  BY <1>2, Stops DEF Held
<1>14. SweepAt(h, ch, c, adj)
  <2>1. c < adj
    BY <1>3, <1>4, <1>11
  <2>2. adj \in DOMAIN h.hd \cup {c + ch[c]}
    BY <1>1, <1>2, <1>9, <1>11, <2>1, LimitOf
  <2>3. c <= adj
    BY <1>3, <1>11, <2>1
  <2> QED
    BY <1>6, <1>9, <2>2, <2>3 DEF SweepAt, Merged
<1>15. BlackIn(h.hd, "sweep", adj)
  <2>1. ASSUME NEW b \in DOMAIN h.hd, h.hd[b].color = "black" PROVE b >= adj
    <3>1. b \in Held(f.hd) /\ h.hd[b] = f.hd[b] /\ b # sw
      BY <1>10, <2>1
    <3>2. b >= sw
      <4>1. b \in DOMAIN f.hd /\ f.hd[b].color = "black"
        BY <1>13, <2>1, <3>1
      <4> QED
        BY <1>1, <4>1 DEF BlackIn
    <3>3. b \in Held(h.hd)
      BY <1>10, <3>1
    <3> QED
      BY <1>10, <1>11, <1>13, <3>1, <3>2, <3>3
  <2> QED
    BY <2>1 DEF BlackIn
<1>16. UsedIn(h.hd, "sweep", adj) = UsedIn(f.hd, "sweep", sw)
  <2>1. ASSUME NEW b \in UsedIn(h.hd, "sweep", adj) PROVE b \in UsedIn(f.hd, "sweep", sw)
    <3>1. b \in Held(h.hd) /\ (h.hd[b].color = "white" => b < adj)
      BY <2>1 DEF UsedIn
    <3>2. b \in Held(f.hd) /\ h.hd[b] = f.hd[b] /\ (b < lo \/ adj <= b)
      BY <1>10, <3>1
    <3>3. f.hd[b].color = "white" => b < sw
      BY <1>11, <1>13, <3>1, <3>2
    <3> QED
      BY <3>2, <3>3 DEF UsedIn
  <2>2. ASSUME NEW b \in UsedIn(f.hd, "sweep", sw) PROVE b \in UsedIn(h.hd, "sweep", adj)
    <3>1. b \in Held(f.hd) /\ (f.hd[b].color = "white" => b < sw)
      BY <2>2 DEF UsedIn
    <3>2. b # sw
      BY <1>11, <3>1
    <3>3. b \in Held(h.hd) /\ h.hd[b] = f.hd[b]
      BY <1>10, <3>1, <3>2
    <3>4. h.hd[b].color = "white" => b < adj
      BY <1>11, <1>13, <3>1, <3>3
    <3> QED
      BY <3>3, <3>4 DEF UsedIn
  <2> QED
    BY <2>1, <2>2
<1>17. \A b \in UsedIn(f.hd, "sweep", sw) : h.hd[b].wosize = f.hd[b].wosize
  <2>1. \A b \in UsedIn(h.hd, "sweep", adj) : h.hd[b] = f.hd[b]
    BY <1>10 DEF UsedIn
  <2> QED
    BY <1>16, <2>1
<1>18. adj \in 0..Words + 1
  BY <1>11, Spots
<1>19. SweptTo(f, h, ch, c, sw, adj)
  BY <1>1, <1>12, <1>14, <1>15, <1>16, <1>17, <1>18 DEF SweptTo, Sweeping
<1> QED
  BY <1>6, <1>19 DEF h

\* What is in use is the same, so live is right.
LEMMA LiveStays ==
  ASSUME NEW hd, NEW hd2, NEW ph, NEW ph2, NEW sw, NEW sw2, NEW lv, LiveIn(hd, ph, sw, lv),
         UsedIn(hd2, ph2, sw2) = UsedIn(hd, ph, sw), \A b \in UsedIn(hd, ph, sw) : hd2[b].wosize = hd[b].wosize
  PROVE  LiveIn(hd2, ph2, sw2, lv)
<1> DEFINE U == UsedIn(hd, ph, sw)
           V == UsedIn(hd2, ph2, sw2)
<1>1. V = U /\ lv = [b \in U |-> hd[b].wosize] /\ \A b \in U : hd[b].wosize \in Requests /\ hd2[b].wosize = hd[b].wosize
  BY DEF LiveIn
<1> HIDE DEF U, V
<1>2. lv = [b \in V |-> hd2[b].wosize] /\ \A b \in V : hd2[b].wosize \in Requests
  BY <1>1
<1> QED
  BY <1>2 DEF LiveIn, V

\* The next block, or the end of the chunk.
LEMMA Advance ==
  ASSUME NEW f, NEW ch, NEW c, NEW sw, Sweeping(f, ch, c, sw), sw < c + ch[c]
  PROVE  LET adj == Stop(f.hd, sw)
         IN  /\ sw \in DOMAIN f.hd /\ sw \in Nat /\ adj \in 0..Words + 1 /\ sw < adj /\ adj \in Nat
             /\ adj \in DOMAIN f.hd \cup {c + ch[c]} /\ c <= adj /\ adj <= c + ch[c]
             /\ \A x \in DOMAIN f.hd : x \in Nat /\ (x < adj <=> x <= sw)
             /\ adj = sw + f.hd[sw].wosize + 1
             /\ f.fragment # Null => f.fragment < adj /\ f.fragment + 1 # adj
<1> DEFINE adj == Stop(f.hd, sw)
           D == DOMAIN f.hd
<1>1. GoodHeap(f, ch) /\ c \in DOMAIN ch /\ SweepAt(f, ch, c, sw)
  BY DEF Sweeping
<1>2. IsHeap(f.hd) /\ Chunky(ch) /\ Apart(f.hd) /\ \A x \in D : Stop(f.hd, x) <= Words + 1
  BY <1>1, HeapIs
<1>3. c \in Nat /\ ch[c] \in Nat /\ Words \in Nat
  BY <1>1, <1>2, Keys, Spots DEF Chunky
<1>4. sw \in D /\ c <= sw
  <2>1. sw \in D \cup {c + ch[c]} /\ c <= sw
    BY <1>1 DEF SweepAt
  <2>2. sw # c + ch[c]
    BY <1>3
  <2> QED
    BY <2>1, <2>2
<1>5. sw \in Nat /\ adj \in Nat /\ sw < adj /\ adj <= Words + 1 /\ adj = sw + f.hd[sw].wosize + 1
      /\ \A x \in D : x \in Nat
  BY <1>2, <1>4, Stops
<1>6. adj \in D \cup Limits(ch) /\ \E d \in DOMAIN ch : d <= sw /\ adj <= d + ch[d]
  BY <1>1, <1>4 DEF GoodHeap, Solid, Tiled
<1>7. adj <= c + ch[c]
  <2>1. PICK d \in DOMAIN ch : d <= sw /\ adj <= d + ch[d]
    BY <1>6
  <2>2. d \in Nat /\ ch[d] \in Nat
    BY <1>2, <2>1, Keys DEF Chunky
  <2>3. sw < d + ch[d]
    BY <1>5, <2>1, <2>2
  <2>4. c = d
    BY <1>1, <1>2, <1>4, <1>5, <2>1, <2>3, OneChunk
  <2> QED
    BY <2>1, <2>4
<1>8. c < adj /\ c <= adj
  BY <1>3, <1>4, <1>5
<1>9. adj \in D \cup {c + ch[c]}
  BY <1>1, <1>2, <1>5, <1>6, <1>7, <1>8, LimitOf
<1>10. \A x \in D : x < adj <=> x <= sw
  <2>1. \A x \in D : sw < x => adj <= x
    BY <1>2, <1>4 DEF Apart
  <2> QED
    BY <1>5, <2>1
<1>11. f.fragment # Null => f.fragment < adj /\ f.fragment + 1 # adj
  <2> SUFFICES ASSUME f.fragment # Null PROVE f.fragment < adj /\ f.fragment + 1 # adj
    OBVIOUS
  <2>1. f.fragment < sw
    BY <1>1 DEF SweepAt, FragmentAt
  <2>2. f.fragment \in Nat
    <3>1. f.fragment \in Addr \cup {Null}
      BY <1>1 DEF GoodHeap, Solid, IsFl
    <3> QED
      BY <3>1, Keys
  <2> HIDE DEF adj
  <2> QED
    BY <1>5, <2>1, <2>2
<1>12. adj \in 0..Words + 1
  BY <1>3, <1>5
<1> HIDE DEF adj, D
<1> QED
  BY <1>4, <1>5, <1>7, <1>8, <1>9, <1>10, <1>11, <1>12 DEF adj, D

\* Sweeping a free block moves the merge point to it.
LEMMA SweepBlue ==
  ASSUME NEW f, NEW ch, NEW c, NEW sw, Sweeping(f, ch, c, sw), sw < c + ch[c], f.hd[sw].color = "blue"
  PROVE  SweptTo(f, [f EXCEPT !.merge = sw], ch, c, sw, sw + f.hd[sw].wosize + 1)
<1> DEFINE h == [f EXCEPT !.merge = sw]
           adj == Stop(f.hd, sw)
<1>1. GoodHeap(f, ch) /\ c \in DOMAIN ch /\ SweepAt(f, ch, c, sw) /\ BlackIn(f.hd, "sweep", sw)
  BY DEF Sweeping
<1>2. IsFl(f) /\ Sound(f.hd) /\ Threaded(f) /\ Tabled(f) /\ ChunksInv(ch) /\ Tiled(f.hd, ch)
  BY <1>1 DEF GoodHeap, Solid
<1>3. /\ sw \in DOMAIN f.hd /\ sw \in Nat /\ adj \in 0..Words + 1 /\ sw < adj /\ adj \in Nat
      /\ adj \in DOMAIN f.hd \cup {c + ch[c]} /\ c <= adj /\ adj <= c + ch[c]
      /\ \A x \in DOMAIN f.hd : x \in Nat /\ (x < adj <=> x <= sw)
      /\ adj = sw + f.hd[sw].wosize + 1
      /\ f.fragment # Null => f.fragment < adj /\ f.fragment + 1 # adj
  BY Advance
<1>4. sw \in Spot /\ sw # FlHead /\ sw \in Blue(f)
  BY <1>2, <1>3, Keys DEF IsFl, Blue
<1> HIDE DEF adj
<1>5. /\ h.hd = f.hd /\ h.next = f.next /\ h.policy = f.policy /\ h.prev = f.prev /\ h.merge = sw
      /\ h.fragment = f.fragment /\ h.size = f.size /\ h.flp = f.flp /\ h.beyond = f.beyond
  BY <1>2 DEF IsFl
<1>6. h \in [hd : [DOMAIN f.hd -> Block], next : [Spot -> Addr \cup {Null}],
            policy : {"next fit", "first fit"}, prev : Spot, merge : Spot,
            fragment : Addr \cup {Null}, size : Int, flp : Seq(Spot), beyond : Addr \cup {Null}]
  BY <1>2, <1>4 DEF IsFl
<1> HIDE DEF h
<1>7. IsFl(h)
  BY <1>2, <1>5, <1>6 DEF IsFl
<1>8. Blue(h) = Blue(f) /\ \A x \in Blue(f) : x \in DOMAIN f.hd
  BY <1>5 DEF Blue
<1>9. Threaded(h)
  <2>1. WordsOf(h, Blue(f)) = WordsOf(f, Blue(f))
    <3>1. \A x \in Blue(f) : Whsize(h, x) = Whsize(f, x)
      BY <1>5 DEF Whsize, Wosize
    <3> QED
      BY <3>1, WordsSame
  <2> QED
    BY <1>2, <1>4, <1>5, <1>8, <2>1 DEF Threaded
<1>10. Tabled(h)
  BY <1>2, <1>5, <1>8 DEF Tabled
<1>11. LastBefore(Blue(h), h.merge, adj)
  <2>1. \A x \in Blue(h) : x < adj => sw # FlHead /\ x <= sw
    BY <1>3, <1>4, <1>8
  <2> QED
    BY <1>3, <1>4, <1>5, <1>8, <2>1 DEF LastBefore
<1>12. FragmentAt(h, adj)
  BY <1>3, <1>5 DEF FragmentAt
<1>13. SweepAt(h, ch, c, adj)
  BY <1>3, <1>5, <1>11, <1>12 DEF SweepAt
<1>14. BlackIn(h.hd, "sweep", adj)
  <2>1. ASSUME NEW b \in DOMAIN f.hd, f.hd[b].color = "black" PROVE b >= adj
    <3>1. b >= sw /\ b # sw /\ b \in Nat
      BY <1>1, <1>3, <2>1 DEF BlackIn
    <3> QED
      BY <1>3, <3>1
  <2> QED
    BY <1>5, <2>1 DEF BlackIn
<1>15. UsedIn(h.hd, "sweep", adj) = UsedIn(f.hd, "sweep", sw)
  <2>1. \A b \in Held(f.hd) : b \in DOMAIN f.hd /\ b # sw
    BY DEF Held
  <2>2. \A b \in Held(f.hd) : b < adj <=> b < sw
    BY <1>3, <2>1
  <2> QED
    BY <1>5, <2>2 DEF UsedIn
<1>16. GoodHeap(h, ch)
  BY <1>2, <1>5, <1>7, <1>9, <1>10 DEF GoodHeap, Solid
<1>17. SweptTo(f, h, ch, c, sw, adj)
  BY <1>1, <1>3, <1>5, <1>13, <1>14, <1>15, <1>16 DEF SweptTo, Sweeping
<1> QED
  BY <1>3, <1>17 DEF h

\* Other colours for the blocks that are not free.
LEMMA Recolour ==
  ASSUME NEW f, NEW ch, GoodHeap(f, ch), NEW H, H \in [DOMAIN f.hd -> Block],
         \A b \in DOMAIN f.hd : H[b] = f.hd[b] \/ (/\ f.hd[b].color # "blue" /\ H[b].color # "blue" /\ f.hd[b].wosize > 0
                                                   /\ H[b].wosize = f.hd[b].wosize)
  PROVE  LET h == [f EXCEPT !.hd = H]
         IN  /\ GoodHeap(h, ch) /\ Blue(h) = Blue(f) /\ h.hd = H /\ Held(H) = Held(f.hd)
             /\ \A b \in DOMAIN f.hd : H[b].wosize = f.hd[b].wosize
             /\ h.merge = f.merge /\ h.fragment = f.fragment
<1> DEFINE h == [f EXCEPT !.hd = H]
<1>1. IsFl(f) /\ Sound(f.hd) /\ Threaded(f) /\ Tabled(f) /\ ChunksInv(ch) /\ Tiled(f.hd, ch)
  BY DEF GoodHeap, Solid
<1>2. /\ h.hd = H /\ h.next = f.next /\ h.policy = f.policy /\ h.prev = f.prev /\ h.merge = f.merge
      /\ h.fragment = f.fragment /\ h.size = f.size /\ h.flp = f.flp /\ h.beyond = f.beyond
  BY <1>1 DEF IsFl
<1>3. h \in [hd : [DOMAIN H -> Block], next : [Spot -> Addr \cup {Null}],
            policy : {"next fit", "first fit"}, prev : Spot, merge : Spot,
            fragment : Addr \cup {Null}, size : Int, flp : Seq(Spot), beyond : Addr \cup {Null}]
  BY <1>1 DEF IsFl
<1>4. DOMAIN H = DOMAIN f.hd
  OBVIOUS
<1> HIDE DEF h
<1>5. IsFl(h)
  BY <1>1, <1>2, <1>3, <1>4 DEF IsFl
<1>6. Blue(h) = Blue(f)
  BY <1>2, <1>4 DEF Blue
<1>7. \A b \in DOMAIN f.hd : H[b].wosize = f.hd[b].wosize
  OBVIOUS
<1>8. Threaded(h)
  <2>1. WordsOf(h, Blue(f)) = WordsOf(f, Blue(f))
    <3>1. \A x \in Blue(f) : x \in DOMAIN f.hd
      BY DEF Blue
    <3>2. \A x \in Blue(f) : Whsize(h, x) = Whsize(f, x)
      BY <1>2, <1>7, <3>1 DEF Whsize, Wosize
    <3> QED
      BY <3>2, WordsSame
  <2> QED
    BY <1>1, <1>2, <1>6, <2>1 DEF Threaded
<1>9. Tabled(h)
  BY <1>1, <1>2, <1>6 DEF Tabled
<1>10. Sound(H)
  <2>0. ~ (0 > 0)
    OBVIOUS
  <2> SUFFICES ASSUME NEW b \in DOMAIN H
               PROVE  /\ H[b].color = "blue" => H[b].wosize > 0
                      /\ H[b].wosize = 0 => H[b].color = "white"
    BY DEF Sound
  <2>1. CASE H[b] = f.hd[b]
    BY <1>1, <1>4, <2>1 DEF Sound
  <2>2. CASE H[b].color # "blue" /\ f.hd[b].wosize > 0 /\ H[b].wosize = f.hd[b].wosize
    BY <2>0, <2>2
  <2> QED
    BY <1>4, <2>1, <2>2
<1>11. Tiled(H, ch)
  <2>1. \A b \in DOMAIN f.hd : Stop(H, b) = Stop(f.hd, b)
    BY <1>7 DEF Stop
  <2> QED
    BY <1>1, <1>4, <2>1 DEF Tiled
<1>12. Held(H) = Held(f.hd)
  BY <1>4 DEF Held
<1> QED
  BY <1>1, <1>2, <1>5, <1>6, <1>7, <1>8, <1>9, <1>10, <1>11, <1>12 DEF GoodHeap, Solid, h

\* Sweeping a black block makes it white.
LEMMA SweepBlack ==
  ASSUME NEW f, NEW ch, NEW c, NEW sw, Sweeping(f, ch, c, sw), sw < c + ch[c], f.hd[sw].color = "black"
  PROVE  SweptTo(f, [f EXCEPT !.hd[sw].color = "white"], ch, c, sw, sw + f.hd[sw].wosize + 1)
<1> DEFINE H == [f.hd EXCEPT ![sw].color = "white"]
           h == [f EXCEPT !.hd = H]
           adj == Stop(f.hd, sw)
<1>1. GoodHeap(f, ch) /\ c \in DOMAIN ch /\ SweepAt(f, ch, c, sw) /\ BlackIn(f.hd, "sweep", sw)
  BY DEF Sweeping
<1>2. IsFl(f) /\ Sound(f.hd)
  BY <1>1 DEF GoodHeap, Solid
<1>3. /\ sw \in DOMAIN f.hd /\ sw \in Nat /\ adj \in 0..Words + 1 /\ sw < adj /\ adj \in Nat
      /\ adj \in DOMAIN f.hd \cup {c + ch[c]} /\ c <= adj /\ adj <= c + ch[c]
      /\ \A x \in DOMAIN f.hd : x \in Nat /\ (x < adj <=> x <= sw)
      /\ adj = sw + f.hd[sw].wosize + 1
      /\ f.fragment # Null => f.fragment < adj /\ f.fragment + 1 # adj
  BY Advance
<1>4. [f EXCEPT !.hd[sw].color = "white"] = h
  BY <1>2 DEF IsFl
<1>5. f.hd \in [DOMAIN f.hd -> Block] /\ f.hd[sw] \in Block /\ f.hd[sw].wosize \in Nat
  <2>1. f.hd \in [DOMAIN f.hd -> Block]
    BY <1>2 DEF IsFl
  <2> QED
    BY <1>3, <2>1, Spots DEF Block
<1>6. f.hd[sw].wosize > 0
  <2>1. f.hd[sw].wosize # 0
    BY <1>2, <1>3 DEF Sound
  <2> QED
    BY <1>5, <2>1
<1>7. H[sw].color = "white" /\ H[sw].wosize = f.hd[sw].wosize /\ H[sw] \in Block
  BY <1>3, <1>5 DEF Block
<1>8. H \in [DOMAIN f.hd -> Block] /\ \A b \in DOMAIN f.hd : b # sw => H[b] = f.hd[b]
  BY <1>5, <1>7
<1> HIDE DEF H, adj
<1>9. /\ GoodHeap(h, ch) /\ Blue(h) = Blue(f) /\ h.hd = H /\ Held(H) = Held(f.hd)
      /\ \A b \in DOMAIN f.hd : H[b].wosize = f.hd[b].wosize
      /\ h.merge = f.merge /\ h.fragment = f.fragment
  <2>1. \A b \in DOMAIN f.hd : H[b] = f.hd[b] \/ (/\ f.hd[b].color # "blue" /\ H[b].color # "blue" /\ f.hd[b].wosize > 0
                                                   /\ H[b].wosize = f.hd[b].wosize)
    BY <1>6, <1>7, <1>8
  <2> QED
    BY <1>1, <1>8, <2>1, Recolour
<1> HIDE DEF h
<1>10. DOMAIN H = DOMAIN f.hd
  BY <1>8
<1>11. LastBefore(Blue(h), h.merge, adj)
  <2>1. LastBefore(Blue(f), f.merge, sw)
    BY <1>1 DEF SweepAt
  <2>2. \A x \in Blue(f) : x \in DOMAIN f.hd /\ x # sw
    BY DEF Blue
  <2>3. \A x \in Blue(f) : x < adj <=> x < sw
    BY <1>3, <2>2
  <2>4. f.merge = FlHead \/ f.merge < adj
    BY <2>1, <2>3 DEF LastBefore
  <2> QED
    BY <1>9, <2>1, <2>3, <2>4 DEF LastBefore
<1>12. FragmentAt(h, adj)
  BY <1>3, <1>9 DEF FragmentAt
<1>13. SweepAt(h, ch, c, adj)
  BY <1>3, <1>9, <1>10, <1>11, <1>12 DEF SweepAt
<1>14. BlackIn(H, "sweep", adj)
  <2>1. ASSUME NEW b \in DOMAIN f.hd, H[b].color = "black" PROVE b >= adj
    <3>1. b # sw /\ f.hd[b].color = "black"
      BY <1>7, <1>8, <2>1
    <3>2. b >= sw /\ b \in Nat
      BY <1>1, <1>3, <3>1 DEF BlackIn
    <3> QED
      BY <1>3, <3>1, <3>2
  <2> QED
    BY <1>10, <2>1 DEF BlackIn
<1>15. UsedIn(H, "sweep", adj) = UsedIn(f.hd, "sweep", sw)
  <2>1. \A b \in Held(f.hd) : b \in DOMAIN f.hd
    BY DEF Held
  <2>2. \A b \in Held(f.hd) : (H[b].color = "white" => b < adj) <=> (f.hd[b].color = "white" => b < sw)
    <3>1. ASSUME NEW b \in Held(f.hd), b # sw PROVE (b < adj <=> b < sw) /\ H[b] = f.hd[b]
      BY <1>3, <1>8, <2>1, <3>1
    <3>2. sw < adj
      BY <1>3
    <3> QED
      BY <3>1, <3>2
  <2> QED
    BY <1>9, <2>2 DEF UsedIn
<1>16. SweptTo(f, h, ch, c, sw, adj)
  <2>1. \A b \in UsedIn(f.hd, "sweep", sw) : b \in DOMAIN f.hd
    BY DEF UsedIn, Held
  <2> QED
    BY <1>1, <1>3, <1>9, <1>13, <1>14, <1>15, <2>1 DEF SweptTo, Sweeping
<1> QED
  BY <1>3, <1>4, <1>16

\* The heap with another policy, another merge point.
LEMMA PolicyNextFit ==
  ASSUME NEW f, NEW ch, GoodHeap(f, ch)
  PROVE  LET h == [f EXCEPT !.policy = "next fit", !.prev = FlHead]
         IN  GoodHeap(h, ch) /\ h.hd = f.hd /\ h.merge = f.merge /\ h.fragment = f.fragment
<1> DEFINE h == [f EXCEPT !.policy = "next fit", !.prev = FlHead]
<1>1. IsFl(f) /\ Sound(f.hd) /\ Threaded(f) /\ Tabled(f) /\ ChunksInv(ch) /\ Tiled(f.hd, ch)
  BY DEF GoodHeap, Solid
<1>2. /\ h.hd = f.hd /\ h.next = f.next /\ h.policy = "next fit" /\ h.prev = FlHead /\ h.merge = f.merge
      /\ h.fragment = f.fragment /\ h.size = f.size /\ h.flp = f.flp /\ h.beyond = f.beyond
  BY <1>1 DEF IsFl
<1>3. FlHead \in Spot
  BY Keys
<1>4. h \in [hd : [DOMAIN f.hd -> Block], next : [Spot -> Addr \cup {Null}],
            policy : {"next fit", "first fit"}, prev : Spot, merge : Spot,
            fragment : Addr \cup {Null}, size : Int, flp : Seq(Spot), beyond : Addr \cup {Null}]
  BY <1>1, <1>3 DEF IsFl
<1> HIDE DEF h
<1>5. IsFl(h)
  BY <1>1, <1>2, <1>4 DEF IsFl
<1>6. Blue(h) = Blue(f)
  BY <1>2 DEF Blue
<1>7. WordsOf(h, Blue(f)) = WordsOf(f, Blue(f))
  <2>1. \A x \in Blue(f) : Whsize(h, x) = Whsize(f, x)
    BY <1>2 DEF Whsize, Wosize
  <2> QED
    BY <2>1, WordsSame
<1>8. Threaded(h)
  BY <1>1, <1>2, <1>6, <1>7 DEF Threaded
<1>9. Tabled(h)
  BY <1>2 DEF Tabled
<1>10. GoodHeap(h, ch)
  BY <1>1, <1>2, <1>5, <1>8, <1>9 DEF GoodHeap, Solid
<1> QED
  BY <1>2, <1>10 DEF h

\* Changing to first fit empties the table.
LEMMA PolicyFirstFit ==
  ASSUME NEW f, NEW ch, GoodHeap(f, ch)
  PROVE  LET h == [f EXCEPT !.policy = "first fit", !.flp = << >>, !.beyond = Null]
         IN  GoodHeap(h, ch) /\ h.hd = f.hd /\ h.merge = f.merge /\ h.fragment = f.fragment
<1> DEFINE h == [f EXCEPT !.policy = "first fit", !.flp = << >>, !.beyond = Null]
<1>1. IsFl(f) /\ Sound(f.hd) /\ Threaded(f) /\ Tabled(f) /\ ChunksInv(ch) /\ Tiled(f.hd, ch)
  BY DEF GoodHeap, Solid
<1>2. /\ h.hd = f.hd /\ h.next = f.next /\ h.policy = "first fit" /\ h.prev = f.prev /\ h.merge = f.merge
      /\ h.fragment = f.fragment /\ h.size = f.size /\ h.flp = << >> /\ h.beyond = Null
  BY <1>1 DEF IsFl
<1>3. h \in [hd : [DOMAIN f.hd -> Block], next : [Spot -> Addr \cup {Null}],
            policy : {"next fit", "first fit"}, prev : Spot, merge : Spot,
            fragment : Addr \cup {Null}, size : Int, flp : Seq(Spot), beyond : Addr \cup {Null}]
  <2>1. << >> \in Seq(Spot) /\ Null \in Addr \cup {Null}
    OBVIOUS
  <2> QED
    BY <1>1, <2>1 DEF IsFl
<1>4. Len(<< >>) <= FLP_MAX
  <2>1. Len(<< >>) = 0
    OBVIOUS
  <2>2. FLP_MAX \in Nat
    BY HeapAssumption
  <2>3. \A k \in Nat : 0 <= k
    OBVIOUS
  <2> QED
    BY <2>1, <2>2, <2>3
<1> HIDE DEF h
<1>5. IsFl(h)
  BY <1>1, <1>2, <1>3, <1>4 DEF IsFl
<1>6. Blue(h) = Blue(f)
  BY <1>2 DEF Blue
<1>7. WordsOf(h, Blue(f)) = WordsOf(f, Blue(f))
  <2>1. \A x \in Blue(f) : Whsize(h, x) = Whsize(f, x)
    BY <1>2 DEF Whsize, Wosize
  <2> QED
    BY <2>1, WordsSame
<1>8. Threaded(h)
  BY <1>1, <1>2, <1>6, <1>7 DEF Threaded
<1>9. Tabled(h)
  <2>1. Entries(Blue(h), << >>) /\ Beyond(Blue(h), << >>, Null)
    BY NoEntries
  <2> QED
    BY <1>2, <2>1 DEF Tabled
<1>10. GoodHeap(h, ch)
  BY <1>1, <1>2, <1>5, <1>8, <1>9 DEF GoodHeap, Solid
<1> QED
  BY <1>2, <1>10 DEF h

\* caml_fl_init_merge forgets the merge point and the fragment.
LEMMA NoMergePoint ==
  ASSUME NEW f, NEW ch, GoodHeap(f, ch)
  PROVE  LET h == InitMerge(f)
         IN  GoodHeap(h, ch) /\ h.hd = f.hd /\ h.merge = FlHead /\ h.fragment = Null /\ Blue(h) = Blue(f)
<1> DEFINE h == InitMerge(f)
<1>1. IsFl(f) /\ Sound(f.hd) /\ Threaded(f) /\ Tabled(f) /\ ChunksInv(ch) /\ Tiled(f.hd, ch)
  BY DEF GoodHeap, Solid
<1>2. /\ h.hd = f.hd /\ h.next = f.next /\ h.policy = f.policy /\ h.prev = f.prev /\ h.merge = FlHead
      /\ h.fragment = Null /\ h.size = f.size /\ h.flp = f.flp /\ h.beyond = f.beyond
  BY <1>1 DEF IsFl, InitMerge
<1>3. h \in [hd : [DOMAIN f.hd -> Block], next : [Spot -> Addr \cup {Null}],
            policy : {"next fit", "first fit"}, prev : Spot, merge : Spot,
            fragment : Addr \cup {Null}, size : Int, flp : Seq(Spot), beyond : Addr \cup {Null}]
  <2>1. FlHead \in Spot
    BY Keys
  <2> QED
    BY <1>1, <2>1 DEF IsFl, InitMerge
<1> HIDE DEF h
<1>5. IsFl(h)
  BY <1>1, <1>2, <1>3 DEF IsFl
<1>6. Blue(h) = Blue(f)
  BY <1>2 DEF Blue
<1>7. WordsOf(h, Blue(f)) = WordsOf(f, Blue(f))
  <2>1. \A x \in Blue(f) : Whsize(h, x) = Whsize(f, x)
    BY <1>2 DEF Whsize, Wosize
  <2> QED
    BY <2>1, WordsSame
<1>8. Threaded(h)
  BY <1>1, <1>2, <1>6, <1>7 DEF Threaded
<1>9. Tabled(h)
  BY <1>1, <1>2, <1>6 DEF Tabled
<1>10. GoodHeap(h, ch)
  BY <1>1, <1>2, <1>5, <1>8, <1>9 DEF GoodHeap, Solid
<1> QED
  BY <1>2, <1>6, <1>10 DEF h

\* The first chunk.
LEMMA FirstChunk ==
  ASSUME NEW ch, ChunksInv(ch)
  PROVE  Min(DOMAIN ch) \in DOMAIN ch /\ \A c \in DOMAIN ch : Min(DOMAIN ch) <= c
<1>1. DOMAIN ch \in SUBSET Nat /\ DOMAIN ch # {}
  BY Keys DEF ChunksInv
<1> QED
  BY <1>1, MinIs

Marked(hd, marked) == [b \in DOMAIN hd |-> IF b \in marked THEN [hd[b] EXCEPT !.color = "black"] ELSE hd[b]]

\* The end of marking.
LEMMA MarkEnds ==
  ASSUME NEW f, NEW ch, GoodHeap(f, ch), NEW sw0, NEW lv, LiveIn(f.hd, "mark", sw0, lv),
         NEW marked \in SUBSET DOMAIN lv, \A b \in DOMAIN lv : f.hd[b].color = "black" => b \in marked
  PROVE  LET h == InitMerge([f EXCEPT !.hd = Marked(f.hd, marked)])
             c == Min(DOMAIN ch)
         IN  /\ Sweeping(h, ch, c, c) /\ LiveIn(h.hd, "sweep", c, Without(lv, DOMAIN lv \ marked))
             /\ c \in 0..Words + 1
<1> DEFINE H == Marked(f.hd, marked)
           g == [f EXCEPT !.hd = H]
           h == InitMerge(g)
           c == Min(DOMAIN ch)
           lv2 == Without(lv, DOMAIN lv \ marked)
<1>1. IsFl(f) /\ Sound(f.hd) /\ ChunksInv(ch) /\ Tiled(f.hd, ch)
  BY DEF GoodHeap, Solid
<1>2. IsHeap(f.hd) /\ Chunky(ch)
  BY HeapIs
<1>3. /\ lv = [b \in Held(f.hd) |-> f.hd[b].wosize] /\ \A b \in Held(f.hd) : f.hd[b].wosize \in Requests
  <2>1. UsedIn(f.hd, "mark", sw0) = Held(f.hd)
    BY DEF UsedIn
  <2> QED
    BY <2>1 DEF LiveIn
<1>4. marked \subseteq Held(f.hd)
  BY <1>3
<1>5. \A b \in Held(f.hd) : b \in DOMAIN f.hd /\ f.hd[b].color # "blue" /\ f.hd[b].wosize > 0
  BY DEF Held
<1>6. H \in [DOMAIN f.hd -> Block] /\ \A b \in DOMAIN f.hd : b \notin marked => H[b] = f.hd[b]
  BY <1>2 DEF Marked, IsHeap, Block
<1>7. \A b \in marked : H[b].color = "black" /\ H[b].wosize = f.hd[b].wosize
  BY <1>2, <1>4, <1>5 DEF Marked, IsHeap, Block
<1> HIDE DEF H
<1>8. /\ GoodHeap(g, ch) /\ Blue(g) = Blue(f) /\ g.hd = H /\ Held(H) = Held(f.hd)
      /\ \A b \in DOMAIN f.hd : H[b].wosize = f.hd[b].wosize
  <2>1. \A b \in DOMAIN f.hd : H[b] = f.hd[b] \/ (/\ f.hd[b].color # "blue" /\ H[b].color # "blue" /\ f.hd[b].wosize > 0
                                                   /\ H[b].wosize = f.hd[b].wosize)
    BY <1>4, <1>5, <1>6, <1>7
  <2> QED
    BY <1>6, <2>1, Recolour
<1> HIDE DEF g
<1>9. GoodHeap(h, ch) /\ h.hd = H /\ h.merge = FlHead /\ h.fragment = Null /\ Blue(h) = Blue(f)
  BY <1>8, NoMergePoint
<1> HIDE DEF h
<1>10. c \in DOMAIN ch /\ (\A d \in DOMAIN ch : c <= d) /\ c \in DOMAIN f.hd
  BY <1>1, FirstChunk DEF Tiled
<1> HIDE DEF c
<1>11. c \in Nat /\ ch[c] \in Nat /\ c <= Words /\ Words \in Nat
  BY <1>2, <1>10, Keys, Spots DEF Chunky
<1>12. \A b \in DOMAIN f.hd : b \in Nat /\ c <= b
  <2>1. ASSUME NEW b \in DOMAIN f.hd PROVE b \in Nat /\ c <= b
    <3>1. PICK d \in DOMAIN ch : d <= b
      BY <1>1 DEF Tiled
    <3>2. d \in Nat /\ b \in Nat
      BY <1>2, <3>1, Keys, Stops DEF Chunky
    <3> QED
      BY <1>10, <1>11, <3>1, <3>2
  <2> QED
    BY <2>1
<1>13. SweepAt(h, ch, c, c)
  <2>1. DOMAIN h.hd = DOMAIN f.hd
    BY <1>6, <1>9
  <2>2. LastBefore(Blue(h), h.merge, c)
    <3>1. \A b \in Blue(h) : ~ (b < c)
      <4>1. \A b \in Blue(h) : b \in DOMAIN f.hd
        BY <1>9 DEF Blue
      <4> QED
        BY <1>11, <1>12, <4>1
    <3> QED
      BY <1>9, <3>1 DEF LastBefore
  <2>3. FragmentAt(h, c)
    BY <1>9 DEF FragmentAt
  <2> QED
    BY <1>10, <1>11, <2>1, <2>2, <2>3 DEF SweepAt
<1>14. BlackIn(h.hd, "sweep", c)
  BY <1>6, <1>9, <1>11, <1>12 DEF BlackIn
<1>15. UsedIn(H, "sweep", c) = marked
  <2>1. ASSUME NEW b \in UsedIn(H, "sweep", c) PROVE b \in marked
    <3>1. b \in Held(f.hd) /\ (H[b].color = "white" => b < c)
      BY <1>8, <2>1 DEF UsedIn
    <3>2. b \in DOMAIN f.hd /\ ~ (b < c) /\ f.hd[b].color # "blue"
      BY <1>5, <1>11, <1>12, <3>1
    <3>3. H[b].color # "white"
      BY <3>1, <3>2
    <3>4. b \notin marked => f.hd[b].color = "black"
      <4>1. f.hd[b] \in Block
        BY <1>2, <3>2 DEF IsHeap
      <4> QED
        BY <1>6, <3>2, <3>3, <4>1 DEF Block
    <3> QED
      BY <1>3, <3>1, <3>4
  <2>2. ASSUME NEW b \in marked PROVE b \in UsedIn(H, "sweep", c)
    BY <1>4, <1>7, <1>8 DEF UsedIn
  <2> QED
    BY <2>1, <2>2
<1>16. LiveIn(H, "sweep", c, lv2)
  <2>1. DOMAIN lv \ (DOMAIN lv \ marked) = marked
    OBVIOUS
  <2>2. lv2 = [b \in marked |-> lv[b]]
    BY <2>1 DEF Without
  <2>3. \A b \in marked : lv[b] = H[b].wosize /\ H[b].wosize \in Requests
    BY <1>3, <1>4, <1>7
  <2>4. lv2 = [b \in marked |-> H[b].wosize]
    BY <2>2, <2>3
  <2> QED
    BY <1>15, <2>3, <2>4 DEF LiveIn
<1>17. Sweeping(h, ch, c, c)
  BY <1>9, <1>10, <1>13, <1>14 DEF Sweeping
<1>18. c \in 0..Words + 1
  BY <1>11
<1> QED
  BY <1>9, <1>16, <1>17, <1>18 DEF h, g, H, c

-----------------------------------------------------------------------------
(* Allocation *)

\* g with the header of a block that is not free.
Headed(g, h, hp, x) ==
  /\ IsFl(h) /\ DOMAIN h.hd = DOMAIN g.hd \cup {hp} /\ h.hd[hp] = x /\ \A b \in DOMAIN g.hd \ {hp} : h.hd[b] = g.hd[b]
  /\ Blue(h) = Blue(g) /\ (Threaded(g) => Threaded(h)) /\ (Tabled(g) => Tabled(h))
  /\ h.merge = g.merge /\ h.fragment = g.fragment /\ h.policy = g.policy

\* A header is written at hp.
LEMMA HeadedIs ==
  ASSUME NEW g, IsFl(g), NEW hp \in Addr, hp \notin Blue(g), NEW x \in Block, x.color # "blue"
  PROVE  Headed(g, [g EXCEPT !.hd = Over(MapsTo(hp, x), @)], hp, x)
<1> DEFINE H == Over(MapsTo(hp, x), g.hd)
           h == [g EXCEPT !.hd = H]
<1>1. [g EXCEPT !.hd = Over(MapsTo(hp, x), @)] = h
  OBVIOUS
<1>2. DOMAIN H = DOMAIN g.hd \cup {hp} /\ H[hp] = x /\ \A b \in DOMAIN g.hd \ {hp} : H[b] = g.hd[b]
  BY DEF Over, MapsTo
<1>3. \A b \in DOMAIN g.hd : g.hd[b] \in Block
  BY DEF IsFl
<1>4. H \in [DOMAIN H -> Block]
  <2>1. H = [b \in DOMAIN H |-> H[b]]
    BY DEF Over
  <2>2. \A b \in DOMAIN H : H[b] \in Block
    BY <1>2, <1>3
  <2> QED
    BY <2>1, <2>2
<1>5. DOMAIN H \in SUBSET Addr
  BY <1>2 DEF IsFl
<1> HIDE DEF H
<1>6. /\ h.hd = H /\ h.next = g.next /\ h.policy = g.policy /\ h.prev = g.prev /\ h.merge = g.merge
      /\ h.fragment = g.fragment /\ h.size = g.size /\ h.flp = g.flp /\ h.beyond = g.beyond
  BY DEF IsFl
<1>7. h \in [hd : [DOMAIN H -> Block], next : [Spot -> Addr \cup {Null}],
            policy : {"next fit", "first fit"}, prev : Spot, merge : Spot,
            fragment : Addr \cup {Null}, size : Int, flp : Seq(Spot), beyond : Addr \cup {Null}]
  BY <1>4 DEF IsFl
<1> HIDE DEF h
<1>8. IsFl(h)
  <2>1. Len(g.flp) <= FLP_MAX
    BY DEF IsFl
  <2> QED
    BY <1>5, <1>6, <1>7, <2>1 DEF IsFl
<1>9. Blue(h) = Blue(g)
  <2>1. Blue(h) = {b \in DOMAIN H : H[b].color = "blue"}
    BY <1>6 DEF Blue
  <2>2. Blue(g) = {b \in DOMAIN g.hd : g.hd[b].color = "blue"}
    BY DEF Blue
  <2>3. ASSUME NEW b \in Blue(h) PROVE b \in Blue(g)
    <3>1. b # hp
      BY <1>2, <2>1, <2>3
    <3> QED
      BY <1>2, <2>1, <2>2, <2>3, <3>1
  <2>4. ASSUME NEW b \in Blue(g) PROVE b \in Blue(h)
    BY <1>2, <2>1, <2>2, <2>4
  <2> QED
    BY <2>3, <2>4
<1>10. ASSUME Threaded(g) PROVE Threaded(h)
  <2>1. \A b \in Blue(g) : Whsize(h, b) = Whsize(g, b)
    <3>1. \A b \in Blue(g) : b \in DOMAIN g.hd \ {hp}
      BY DEF Blue
    <3> QED
      BY <1>2, <1>6, <3>1 DEF Whsize, Wosize
  <2>2. WordsOf(h, Blue(g)) = WordsOf(g, Blue(g))
    BY <2>1, WordsSame
  <2> QED
    BY <1>6, <1>9, <1>10, <2>2 DEF Threaded
<1>11. Tabled(g) => Tabled(h)
  BY <1>6, <1>9 DEF Tabled
<1> QED
  BY <1>1, <1>2, <1>6, <1>8, <1>9, <1>10, <1>11 DEF Headed

\* h is the heap f after the block hp of n words was given out.
Given(f, h, ch, hp, n, col) ==
  /\ GoodHeap(h, ch) /\ hp \in Addr /\ hp \in DOMAIN h.hd /\ h.hd[hp] = [wosize |-> n, color |-> col]
  /\ Held(h.hd) = Held(f.hd) \cup {hp} /\ hp \notin Held(f.hd) /\ DOMAIN f.hd \subseteq DOMAIN h.hd
  /\ \A b \in Held(f.hd) : h.hd[b] = f.hd[b]
  /\ \A p \in Nat : LastBefore(Blue(f), f.merge, p) => LastBefore(Blue(h), h.merge, p)
  /\ \A p \in Nat : FragmentAt(f, p) => FragmentAt(h, p)

\* A block that was found gets its header.
LEMMA GivenIs ==
  ASSUME NEW f, NEW ch, Solid(f, ch), NEW n \in 1..Words, NEW r, Gives(f, r, n), NEW col \in {"white", "black"}
  PROVE  Given(f, [r.f EXCEPT !.hd = Over(MapsTo(r.hp, [wosize |-> n, color |-> col]), @)], ch, r.hp, n, col)
<1> DEFINE g == r.f
           hp == r.hp
           x == [wosize |-> n, color |-> col]
           h == [g EXCEPT !.hd = Over(MapsTo(hp, x), @)]
           D == DOMAIN f.hd
<1>1. IsFl(f) /\ Sound(f.hd) /\ Threaded(f) /\ ChunksInv(ch) /\ Tiled(f.hd, ch)
  BY DEF Solid
<1>2. IsHeap(f.hd) /\ Chunky(ch) /\ Apart(f.hd)
  BY SolidIs
<1>3. PICK prev \in Blue(f) \cup {FlHead} : TakenFrom(f, r, n, prev)
  BY DEF Gives
<1> DEFINE cur == f.next[prev]
           m == Wosize(f, cur)
           adj == Stop(f.hd, cur)
<1>4. cur # Null /\ m >= n /\ Cut(f, g, n, prev, cur) /\ hp = cur + m - n /\ IsFl(g) /\ Tabled(g)
  BY <1>3 DEF TakenFrom
<1>5. cur \in Blue(f) /\ ListKept(f, g, n, cur)
  BY <1>1, <1>4, CutKeepsList
<1> HIDE DEF g, hp, x, cur, m
<1>6. cur \in D /\ f.hd[cur].color = "blue"
  BY <1>5 DEF Blue
<1>7. cur \in Nat /\ m \in Nat /\ m = f.hd[cur].wosize /\ adj = cur + m + 1 /\ adj \in Nat /\ cur \in Addr
      /\ n \in Nat /\ n >= 1 /\ n <= Words /\ Words \in Nat
  <2>1. m = f.hd[cur].wosize
    BY <1>5 DEF ListKept, m
  <2>2. n \in Nat /\ n >= 1 /\ n <= Words /\ Words \in Nat
    BY Spots
  <2>3. cur \in Addr
    BY <1>1, <1>6 DEF IsFl
  <2> QED
    BY <1>2, <1>6, <2>1, <2>2, <2>3, Stops
<1>8. /\ cur <= hp /\ hp + n + 1 = adj /\ hp \in Nat /\ hp < adj
      /\ (hp # cur => cur + (m - n - 1) + 1 = hp) /\ (hp = cur <=> m = n)
  BY <1>4, <1>7
<1> HIDE DEF adj
<1>9. \A y \in D : y \in Nat /\ (cur < y => adj <= y)
  BY <1>2, <1>6, Stops DEF Apart, adj
<1>10. hp # cur => hp \notin D
  BY <1>7, <1>8, <1>9
<1>11. hp \in Addr
  <2>1. adj <= Words + 1
    BY <1>6, SolidIs DEF adj
  <2>2. hp <= Words /\ hp >= 1
    <3>1. cur >= 1
      BY <1>7, Keys
    <3> QED
      BY <1>7, <1>8, <2>1, <3>1
  <2> QED
    BY <1>8, <2>2, Spots
<1>12. /\ Blue(g) = (IF m < n + 2 THEN Blue(f) \ {cur} ELSE Blue(f)) /\ DOMAIN g.hd = D
       /\ \A b \in D \ {cur} : g.hd[b] = f.hd[b]
       /\ g.hd[cur] = (IF m < n + 2 THEN Fragment ELSE [wosize |-> m - (n + 1), color |-> "blue"])
       /\ Threaded(g) /\ Sound(g.hd)
       /\ \A p \in Nat : LastBefore(Blue(f), f.merge, p) => LastBefore(Blue(g), g.merge, p)
  BY <1>1, <1>5 DEF ListKept, m
<1>13. hp \notin Blue(g)
  <2>1. CASE hp = cur
    <3>1. m < n + 2
      BY <1>7, <1>8, <2>1
    <3> QED
      BY <1>12, <2>1, <3>1
  <2>2. CASE hp # cur
    <3>1. hp \notin DOMAIN g.hd
      BY <1>10, <1>12, <2>2
    <3> QED
      BY <3>1 DEF Blue
  <2> QED
    BY <2>1, <2>2
<1>14. x \in Block /\ x.color # "blue" /\ x.wosize = n /\ x.color = col
  BY <1>7 DEF x, Block
<1>15. Headed(g, h, hp, x)
  BY <1>4, <1>11, <1>13, <1>14, HeadedIs
<1>16. g.fragment = f.fragment
  BY <1>4 DEF Cut
<1> HIDE DEF h
<1> DEFINE hd2 == h.hd
<1>17. /\ IsFl(h) /\ Threaded(h) /\ Tabled(h) /\ Blue(h) = Blue(g) /\ h.merge = g.merge /\ h.fragment = f.fragment
       /\ DOMAIN hd2 = D \cup {hp} /\ hd2[hp] = x /\ \A b \in D \ {hp} : hd2[b] = g.hd[b]
  BY <1>4, <1>12, <1>15, <1>16 DEF Headed
<1>18. \A b \in D : b # cur => hd2[b] = f.hd[b]
  BY <1>10, <1>12, <1>17
<1>19. hp # cur => /\ hd2[cur] = g.hd[cur] /\ hd2[cur].wosize = m - n - 1
                   /\ hd2[cur].color = "blue" \/ hd2[cur].wosize = 0
  <2> SUFFICES ASSUME hp # cur
               PROVE  /\ hd2[cur] = g.hd[cur] /\ hd2[cur].wosize = m - n - 1
                      /\ hd2[cur].color = "blue" \/ hd2[cur].wosize = 0
    OBVIOUS
  <2>1. hd2[cur] = g.hd[cur]
    BY <1>6, <1>17
  <2>2. CASE m < n + 2
    <3>1. m = n + 1
      BY <1>4, <1>7, <1>8, <2>2
    <3>2. g.hd[cur] = Fragment /\ m - n - 1 = 0
      BY <1>7, <1>12, <2>2, <3>1
    <3>3. Fragment.wosize = 0
      BY DEF Fragment
    <3> QED
      BY <2>1, <3>2, <3>3
  <2>3. CASE ~ (m < n + 2)
    <3>1. g.hd[cur] = [wosize |-> m - (n + 1), color |-> "blue"]
      BY <1>12, <2>3
    <3>2. g.hd[cur].wosize = m - (n + 1) /\ g.hd[cur].color = "blue"
      BY <3>1
    <3>3. m - (n + 1) = m - n - 1
      <4>1. \A i, j \in Nat : i - (j + 1) = i - j - 1
        OBVIOUS
      <4> QED
        BY <1>7, <4>1
    <3> QED
      BY <2>1, <3>2, <3>3
  <2> QED
    BY <2>2, <2>3
<1> HIDE DEF hd2, D
<1>20. Sound(hd2)
  <2> SUFFICES ASSUME NEW b \in DOMAIN hd2
               PROVE  /\ hd2[b].color = "blue" => hd2[b].wosize > 0
                      /\ hd2[b].wosize = 0 => hd2[b].color = "white"
    BY DEF Sound
  <2>1. CASE b = hp
    <3>1. hd2[b].color # "blue" /\ hd2[b].wosize # 0
      BY <1>7, <1>14, <1>17, <2>1
    <3> QED
      BY <3>1
  <2>2. CASE b # hp
    <3>1. b \in D /\ hd2[b] = g.hd[b]
      BY <1>17, <2>2
    <3> QED
      BY <1>12, <3>1 DEF Sound
  <2> QED
    BY <2>1, <2>2
<1>21. IsHeap(hd2)
  BY <1>17 DEF IsFl, IsHeap, hd2
<1>22. Stop(hd2, hp) = adj /\ (hp # cur => Stop(hd2, cur) = hp)
  <2>1. Stop(hd2, hp) = hp + n + 1
    BY <1>14, <1>17 DEF Stop
  <2>2. hp # cur => Stop(hd2, cur) = cur + (m - n - 1) + 1
    BY <1>19 DEF Stop
  <2> QED
    BY <1>8, <2>1, <2>2
<1>23. Tiled(hd2, ch)
  <2>1. PICK c \in DOMAIN ch : c <= cur /\ Stop(f.hd, cur) <= c + ch[c]
    BY <1>1, <1>6 DEF Tiled, D
  <2>2. InChunk(ch, c, cur, adj)
    BY <2>1 DEF InChunk, adj
  <2>3. adj \in DOMAIN f.hd \cup Limits(ch)
    BY <1>1, <1>6 DEF Tiled, D, adj
  <2>4. cur \in DOMAIN hd2 /\ cur < adj
    BY <1>6, <1>7, <1>8, <1>17
  <2>5. \A y \in DOMAIN hd2 : cur <= y /\ y < adj => y = cur \/ y = hp
    BY <1>7, <1>9, <1>17
  <2>6. ASSUME NEW y, ~ (cur <= y /\ y < adj)
        PROVE  (y \in DOMAIN hd2 <=> y \in D) /\ (y \in D => hd2[y].wosize = f.hd[y].wosize)
    <3>1. y # hp /\ y # cur
      BY <1>7, <1>8, <2>6
    <3> QED
      BY <1>17, <1>18, <3>1
  <2>7. \A y \in DOMAIN hd2 : cur <= y /\ y < adj => Stop(hd2, y) <= adj /\ (Stop(hd2, y) \in DOMAIN hd2 \/ Stop(hd2, y) = adj)
    <3>1. hp \in DOMAIN hd2
      BY <1>17
    <3>2. Stop(hd2, hp) <= adj /\ Stop(hd2, hp) = adj
      BY <1>7, <1>22
    <3>3. Stop(hd2, cur) <= adj /\ (Stop(hd2, cur) \in DOMAIN hd2 \/ Stop(hd2, cur) = adj)
      <4>1. CASE hp = cur
        BY <3>2, <4>1
      <4>2. CASE hp # cur
        BY <1>7, <1>8, <1>22, <3>1, <4>2
      <4> QED
        BY <4>1, <4>2
    <3> QED
      BY <2>5, <3>2, <3>3
  <2>8. \A y, z \in DOMAIN hd2 : cur <= y /\ y < z /\ z < adj => Stop(hd2, y) <= z
    <3> SUFFICES ASSUME NEW y \in DOMAIN hd2, NEW z \in DOMAIN hd2, cur <= y, y < z, z < adj PROVE Stop(hd2, y) <= z
      OBVIOUS
    <3>1. y \in Nat /\ z \in Nat
      BY <1>21, Stops
    <3>2. (y = cur \/ y = hp) /\ (z = cur \/ z = hp)
      BY <1>7, <2>5, <3>1
    <3>3. y = cur /\ z = hp /\ hp # cur
      BY <1>7, <1>8, <3>1, <3>2
    <3> QED
      BY <1>8, <1>22, <3>3
  <2>9. cur \in DOMAIN f.hd
    BY <1>6 DEF D
  <2>10. Retiled(f.hd, hd2, ch, cur, adj, c)
    BY <1>1, <1>2, <1>7, <1>21, <2>2, <2>3, <2>4, <2>6, <2>7, <2>8, <2>9 DEF Retiled, D
  <2> QED
    BY <2>10, Retile
<1>24. GoodHeap(h, ch)
  BY <1>1, <1>17, <1>20, <1>23 DEF GoodHeap, Solid, hd2
<1>25. Held(hd2) = {b \in DOMAIN hd2 : hd2[b].wosize > 0 /\ hd2[b].color # "blue"}
       /\ Held(f.hd) = {b \in D : f.hd[b].wosize > 0 /\ f.hd[b].color # "blue"}
  BY DEF Held, D
<1>26. hp \notin Held(f.hd)
  BY <1>6, <1>10, <1>25
<1>27. \A b \in Held(f.hd) : hd2[b] = f.hd[b] /\ b # cur
  BY <1>6, <1>18, <1>25
<1>28. Held(hd2) = Held(f.hd) \cup {hp}
  <2>1. ASSUME NEW b \in Held(hd2), b # hp PROVE b \in Held(f.hd)
    <3>0. ~ (0 > 0)
      OBVIOUS
    <3>1. b # cur
      <4> SUFFICES ASSUME b = cur PROVE FALSE
        OBVIOUS
      <4>1. hd2[cur].color = "blue" \/ hd2[cur].wosize = 0
        BY <1>19, <2>1
      <4>2. hd2[cur].wosize > 0 /\ hd2[cur].color # "blue"
        BY <1>25
      <4> QED
        BY <3>0, <4>1, <4>2
    <3>2. b \in D
      BY <1>17, <1>25, <2>1
    <3> QED
      BY <1>18, <1>25, <3>1, <3>2
  <2>2. hp \in Held(hd2)
    <3>1. n > 0
      BY <1>7
    <3> QED
      BY <1>14, <1>17, <1>25, <3>1
  <2>3. ASSUME NEW b \in Held(f.hd) PROVE b \in Held(hd2)
    <3>1. b \in D
      BY <1>25
    <3> QED
      BY <1>17, <1>25, <1>27, <3>1
  <2> QED
    BY <2>1, <2>2, <2>3
<1>29. ASSUME NEW p \in Nat, FragmentAt(f, p) PROVE FragmentAt(h, p)
  <2> SUFFICES ASSUME h.fragment # Null, h.fragment + 1 = p
               PROVE  h.fragment \in DOMAIN h.hd /\ h.hd[h.fragment] = [wosize |-> 0, color |-> "white"]
    BY <1>17, <1>29 DEF FragmentAt
  <2>1. f.fragment \in D /\ f.hd[f.fragment] = [wosize |-> 0, color |-> "white"]
    BY <1>17, <1>29 DEF FragmentAt, D
  <2>2. f.hd[f.fragment].color = "white"
    BY <2>1
  <2>3. f.fragment # cur
    BY <1>6, <2>2
  <2> QED
    BY <1>17, <1>18, <2>1, <2>3 DEF hd2
<1>30. \A p \in Nat : LastBefore(Blue(f), f.merge, p) => LastBefore(Blue(h), h.merge, p)
  BY <1>12, <1>17
<1>31. D \subseteq DOMAIN hd2 /\ hp \in DOMAIN hd2
  BY <1>17
<1>32. Given(f, h, ch, hp, n, col)
  BY <1>11, <1>17, <1>24, <1>26, <1>27, <1>28, <1>29, <1>30, <1>31 DEF Given, D, hd2, x
<1> QED
  BY <1>32 DEF h, g, hp, x

\* A size rounded up to pages is no smaller.
LEMMA RoundUp ==
  ASSUME NEW m \in Nat, NEW P \in Nat \ {0}
  PROVE  ((m + P - 1) \div P) * P \in Nat /\ ((m + P - 1) \div P) * P >= m
<1> DEFINE q == (m + P - 1) \div P
           r == (m + P - 1) % P
<1>1. q \in Int /\ r \in 0..P-1 /\ m + P - 1 = P * q + r
  OBVIOUS
<1> HIDE DEF q, r
<1>2. P * q \in Int /\ P * q = q * P
  BY <1>1
<1> DEFINE z == P * q
<1> HIDE DEF z
<1>3. z >= m /\ z \in Nat
  BY <1>1, <1>2 DEF z
<1> QED
  BY <1>2, <1>3 DEF q, z

\* A new chunk has room for the request, and more than the compactor may pass over.
LEMMA ChunkSizeIs ==
  ASSUME NEW n \in 1..Words
  PROVE  ChunkSize(n) \in Nat /\ ChunkSize(n) >= n + 1 /\ ChunkSize(n) >= 2 /\ ChunkSize(n) > Slack
<1> DEFINE S == {n + 1, Increment}
           m == Max(S)
           s == ChunkSize(n)
<1>1. Increment \in 2..Words /\ Page \in 1..Words /\ Slack \in Nat /\ Slack < Increment
  BY HeapAssumption
<1>2. Words \in Nat /\ n \in Nat
  BY Spots
<1>3. S \in SUBSET Nat /\ S # {} /\ n + 1 + Increment \in Nat /\ \A k \in S : k <= n + 1 + Increment
  BY <1>1, <1>2
<1>4. m \in Nat /\ m >= n + 1 /\ m >= Increment
  <2> HIDE DEF S
  <2>1. m \in S /\ \A k \in S : k <= m
    BY <1>3, MaxIs
  <2> QED
    BY <1>1, <1>2, <1>3, <2>1 DEF S
<1>5. Page \in Nat \ {0}
  BY <1>1, <1>2
<1> HIDE DEF m
<1>6. s = ((m + Page - 1) \div Page) * Page
  BY DEF ChunkSize, m
<1>7. s \in Nat /\ s >= m
  BY <1>4, <1>5, <1>6, RoundUp
<1> HIDE DEF s
<1>8. s \in Nat /\ s >= n + 1 /\ s >= 2 /\ s > Slack
  BY <1>1, <1>2, <1>4, <1>7
<1> QED
  BY <1>8 DEF s

\* The chunks with one more.
LEMMA ChunkAdded ==
  ASSUME ChunksInv(chunks), NEW s \in Nat, s >= 2, s > Slack, NEW a \in Fits(s)
  PROVE  LET ch2 == Over(MapsTo(a, s), chunks)
         IN  ChunksInv(ch2) /\ Filled(chunks, ch2, a, s, a) /\ a \notin DOMAIN chunks
             /\ DOMAIN ch2 = DOMAIN chunks \cup {a} /\ (\A c \in DOMAIN chunks : ch2[c] = chunks[c]) /\ ch2[a] = s
<1> DEFINE ch2 == Over(MapsTo(a, s), chunks)
<1>1. /\ chunks \in [DOMAIN chunks -> 2..Words] /\ DOMAIN chunks \in SUBSET Addr
      /\ \A c \in DOMAIN chunks : c + chunks[c] <= Words + 1 /\ chunks[c] > Slack
      /\ \A c, d \in DOMAIN chunks : c < d => c + chunks[c] < d
  BY DEF ChunksInv
<1>2. a \in Addr /\ a + s - 1 <= Words /\ \A c \in DOMAIN chunks : a > c + chunks[c] \/ c > a + s
  BY DEF Fits
<1>3. a \in Nat /\ Words \in Nat /\ a >= 1 /\ \A c \in DOMAIN chunks : c \in Nat /\ chunks[c] \in Nat
  BY <1>1, <1>2, Keys, Spots
<1>4. a \notin DOMAIN chunks
  BY <1>2, <1>3
<1>5. DOMAIN ch2 = DOMAIN chunks \cup {a} /\ (\A c \in DOMAIN chunks : ch2[c] = chunks[c]) /\ ch2[a] = s
      /\ ch2 = [c \in DOMAIN ch2 |-> ch2[c]]
  BY <1>4 DEF Over, MapsTo
<1> HIDE DEF ch2
<1>6. s \in 2..Words /\ a + s <= Words + 1
  BY <1>2, <1>3
<1>7. ch2 \in [DOMAIN ch2 -> 2..Words]
  BY <1>1, <1>5, <1>6
<1>8. \A c \in DOMAIN ch2 : c + ch2[c] <= Words + 1 /\ ch2[c] > Slack
  BY <1>1, <1>5, <1>6
<1>9. \A c, d \in DOMAIN ch2 : c < d => c + ch2[c] < d
  <2> SUFFICES ASSUME NEW c \in DOMAIN ch2, NEW d \in DOMAIN ch2, c < d PROVE c + ch2[c] < d
    OBVIOUS
  <2>1. CASE c = a
    <3>1. d \in DOMAIN chunks
      BY <1>3, <1>5, <2>1
    <3> QED
      BY <1>2, <1>3, <1>5, <2>1, <3>1
  <2>2. CASE d = a /\ c # a
    <3>1. c \in DOMAIN chunks
      BY <1>5, <2>2
    <3> QED
      BY <1>2, <1>3, <1>5, <2>2, <3>1
  <2>3. CASE c # a /\ d # a
    BY <1>1, <1>5, <2>3
  <2> QED
    BY <2>1, <2>2, <2>3
<1>10. ChunksInv(ch2)
  BY <1>1, <1>2, <1>5, <1>7, <1>8, <1>9 DEF ChunksInv
<1>11. Chunky(chunks) /\ Chunky(ch2)
  <2>1. \A c \in DOMAIN chunks : chunks[c] \in Nat /\ chunks[c] >= 1
    BY <1>1, <1>3
  <2>2. \A c \in DOMAIN ch2 : ch2[c] \in Nat /\ ch2[c] >= 1
    BY <1>3, <1>7
  <2> QED
    BY <1>1, <1>2, <1>5, <1>8, <1>9, <2>1, <2>2 DEF Chunky
<1>12. Filled(chunks, ch2, a, s, a)
  <2>1. a = a + (IF a \in DOMAIN chunks THEN chunks[a] ELSE 0)
    BY <1>3, <1>4
  <2> QED
    BY <1>2, <1>5, <1>6, <1>11, <2>1 DEF Filled
<1> QED
  BY <1>4, <1>5, <1>10, <1>12 DEF ch2

\* h is the heap f with one more chunk.
Grown(f, h, ch2, n) ==
  /\ Solid(h, ch2) /\ Gives(h, FlAllocate(h, n), n) /\ Held(h.hd) = Held(f.hd)
  /\ DOMAIN f.hd \subseteq DOMAIN h.hd /\ \A b \in DOMAIN f.hd : h.hd[b] = f.hd[b]
  /\ LastBefore(Blue(f), f.merge, sweep_hp) => LastBefore(Blue(h), h.merge, sweep_hp)
  /\ \A p \in Nat : FragmentAt(f, p) => FragmentAt(h, p)

\* The heap with a new chunk is as good as before, and has a block that is large enough.
LEMMA GrowIs ==
  ASSUME NEW f, GoodHeap(f, chunks), NEW n \in 1..Words, NEW r, Miss(f, r, n), sweep_hp \in Nat,
         NEW s \in Nat, s >= n + 1, s >= 2, s > Slack, NEW a \in Fits(s)
  PROVE  Grown(f, AddBlocks([r.f EXCEPT !.hd = Over(MapsTo(a, [wosize |-> s - 1, color |-> "blue"]), @)], a, r.last),
               Over(MapsTo(a, s), chunks), n)
<1> DEFINE g == r.f
           w == s - 1
           f2 == [g EXCEPT !.hd = Over(MapsTo(a, NewBlue(w)), @)]
           last == r.last
           h == AddBlocks(f2, a, last)
           ch2 == Over(MapsTo(a, s), chunks)
<1>1. IsFl(f) /\ Sound(f.hd) /\ Threaded(f) /\ Tabled(f) /\ ChunksInv(chunks) /\ Tiled(f.hd, chunks)
  BY DEF GoodHeap, Solid
<1>2. IsHeap(f.hd) /\ Chunky(chunks)
  BY HeapIs
<1>3. ChunksInv(ch2) /\ Filled(chunks, ch2, a, s, a)
  BY <1>1, ChunkAdded
<1>4. a \in Addr /\ a \notin DOMAIN f.hd
  <2>1. a \in Addr /\ \A x \in DOMAIN f.hd : (x < a /\ Stop(f.hd, x) <= a) \/ a + s <= x
    BY <1>1, <1>2, <1>3, WordsAreFree
  <2>2. a \in Nat
    BY <2>1, Keys
  <2> QED
    BY <2>1, <2>2
<1>5. /\ last = Last(List(f)) /\ SameList(f, g) /\ IsFl(g) /\ Tabled(g)
      /\ \A k \in 1..Len(g.flp) : FirstFitNow(f) => Wosize(f, f.next[g.flp[k]]) < n
  BY DEF Miss
<1> HIDE DEF g, last, ch2
<1>6. Blue(g) = Blue(f) /\ Threaded(g) /\ List(g) = List(f) /\ \A b : Wosize(g, b) = Wosize(f, b)
  BY <1>1, <1>5, SameListIs
<1>7. g.hd = f.hd /\ g.next = f.next /\ g.policy = f.policy /\ g.merge = f.merge /\ g.fragment = f.fragment
  BY <1>5 DEF SameList
<1>8. NoHit(g, n)
  BY <1>5, <1>6, <1>7 DEF NoHit, FirstFitNow
<1>9. w \in 1..Words /\ n <= w /\ w \in Nat
  <2>1. a + s <= Words + 1
    BY <1>1, <1>2, <1>3, WordsAreFree
  <2>2. a \in Nat /\ a >= 1 /\ Words \in Nat /\ n \in Nat
    BY <1>4, Keys, Spots
  <2> QED
    BY <2>1, <2>2
<1> HIDE DEF w
<1>10. NewBlue(w) \in Block /\ NewBlue(w).wosize = w /\ NewBlue(w).color = "blue"
  BY <1>9, Spots DEF NewBlue, Block
<1>11. WithBlock(g, f2, a, NewBlue(w))
  BY <1>4, <1>5, <1>7, <1>10, WithBlockIs
<1>12. last = Last(List(g))
  BY <1>5, <1>6
<1> HIDE DEF f2
<1>13. PICK p, prev : /\ Inserted(g, p, a, w, prev) /\ SameList(p, h) /\ IsFl(h)
                      /\ Gives(h, FlAllocate(h, n), n)
  <2>1. a \in Addr \ DOMAIN g.hd
    BY <1>4, <1>7
  <2> QED
    BY <1>5, <1>6, <1>8, <1>9, <1>11, <1>12, <2>1, AddedFits
<1> HIDE DEF h
<1>14. /\ IsFl(p) /\ Threaded(p) /\ DOMAIN p.hd = DOMAIN g.hd \cup {a} /\ p.hd[a] = NewBlue(w)
       /\ \A b \in DOMAIN g.hd : p.hd[b] = g.hd[b]
       /\ Blue(p) = Blue(g) \cup {a} /\ LastBefore(Blue(g), prev, a)
       /\ p.merge = MergePoint(g, prev, a) /\ p.fragment = g.fragment
  BY <1>13 DEF Inserted
<1>15. h.hd = p.hd /\ h.merge = p.merge /\ h.fragment = p.fragment
  BY <1>13 DEF SameList
<1>16. Blue(h) = Blue(p) /\ Threaded(h)
  BY <1>13, <1>14, SameListIs
<1>17. DOMAIN h.hd = DOMAIN f.hd \cup {a} /\ h.hd[a] = NewBlue(w) /\ \A b \in DOMAIN f.hd : h.hd[b] = f.hd[b]
  BY <1>7, <1>14, <1>15
<1>18. Sound(h.hd)
  <2> SUFFICES ASSUME NEW b \in DOMAIN h.hd
               PROVE  /\ h.hd[b].color = "blue" => h.hd[b].wosize > 0
                      /\ h.hd[b].wosize = 0 => h.hd[b].color = "white"
    BY DEF Sound
  <2>1. CASE b = a
    <3>1. w > 0 /\ w # 0
      BY <1>9
    <3> QED
      BY <1>10, <1>17, <2>1, <3>1
  <2>2. CASE b # a
    BY <1>1, <1>17, <2>2 DEF Sound
  <2> QED
    BY <2>1, <2>2
<1>19. Held(h.hd) = Held(f.hd)
  <2>1. ASSUME NEW b \in Held(h.hd) PROVE b \in Held(f.hd)
    <3>1. b \in DOMAIN h.hd /\ h.hd[b].color # "blue" /\ h.hd[b].wosize > 0
      BY DEF Held
    <3>2. b # a
      BY <1>10, <1>17, <3>1
    <3>3. b \in DOMAIN f.hd /\ h.hd[b] = f.hd[b]
      BY <1>17, <3>1, <3>2
    <3> QED
      BY <3>1, <3>3 DEF Held
  <2>2. ASSUME NEW b \in Held(f.hd) PROVE b \in Held(h.hd)
    BY <1>17 DEF Held
  <2> QED
    BY <2>1, <2>2
<1>20. IsHeap(h.hd)
  BY <1>13 DEF IsFl, IsHeap
<1>21. Tiled(h.hd, ch2)
  <2>1. h.hd[a].wosize = s - 1 /\ \A x \in DOMAIN f.hd : h.hd[x].wosize = f.hd[x].wosize
    BY <1>10, <1>17 DEF w
  <2>2. Laid(f.hd, h.hd, a, s)
    BY <1>17, <1>20, <2>1 DEF Laid
  <2>3. IsHeap(f.hd) /\ Tiled(f.hd, chunks)
    BY <1>1, <1>2
  <2> QED
    BY <1>3, <2>2, <2>3, TileExtend, ZenonT(30)
<1>22. Solid(h, ch2)
  BY <1>3, <1>13, <1>16, <1>18, <1>21 DEF Solid
<1>23. ASSUME LastBefore(Blue(f), f.merge, sweep_hp) PROVE LastBefore(Blue(h), h.merge, sweep_hp)
  <2>1. Blue(g) \in SUBSET Addr /\ a \in Addr \ Blue(g)
    BY <1>4, <1>5, <1>7, BlueIs
  <2>2. LastBefore(Blue(g), g.merge, sweep_hp)
    BY <1>6, <1>7, <1>23
  <2>3. LastBefore(Blue(g) \cup {a}, IF prev = g.merge /\ a < sweep_hp THEN a ELSE g.merge, sweep_hp)
    BY <1>14, <2>1, <2>2, LastBeforeInsert
  <2>4. h.merge = IF prev = g.merge /\ a < sweep_hp THEN a ELSE g.merge
    BY <1>14, <1>15 DEF MergePoint
  <2> QED
    BY <1>14, <1>16, <2>3, <2>4
<1>24. ASSUME NEW q \in Nat, FragmentAt(f, q) PROVE FragmentAt(h, q)
  <2>1. h.fragment = f.fragment
    BY <1>7, <1>14, <1>15
  <2> QED
    BY <1>17, <1>24, <2>1 DEF FragmentAt
<1>25. Grown(f, h, ch2, n)
  BY <1>13, <1>17, <1>19, <1>22, <1>23, <1>24 DEF Grown
<1> QED
  BY <1>25 DEF h, f2, g, last, ch2, w, NewBlue

\* h is the heap f after the block hp of n words was given out, as the sweeper at sw sees it.
GivenAt(f, h, hp, n, col, sw) ==
  /\ hp \in Addr /\ hp \in DOMAIN h.hd /\ h.hd[hp] = [wosize |-> n, color |-> col]
  /\ Held(h.hd) = Held(f.hd) \cup {hp} /\ hp \notin Held(f.hd) /\ DOMAIN f.hd \subseteq DOMAIN h.hd
  /\ \A b \in Held(f.hd) : h.hd[b] = f.hd[b]
  /\ LastBefore(Blue(f), f.merge, sw) => LastBefore(Blue(h), h.merge, sw)
  /\ FragmentAt(f, sw) => FragmentAt(h, sw)

\* A block given out of the heap as it is.
LEMMA GivenDirectly ==
  ASSUME NEW f, NEW h, NEW ch, NEW hp, NEW n, NEW col, NEW sw \in Nat, Given(f, h, ch, hp, n, col)
  PROVE  GivenAt(f, h, hp, n, col, sw) /\ GoodHeap(h, ch)
BY DEF Given, GivenAt

\* A block given out of the heap that has grown.
LEMMA GivenGrown ==
  ASSUME NEW f, NEW f2, NEW h, NEW ch, NEW hp, NEW n, NEW col, sweep_hp \in Nat,
         Grown(f, f2, ch, n), Given(f2, h, ch, hp, n, col)
  PROVE  GivenAt(f, h, hp, n, col, sweep_hp) /\ GoodHeap(h, ch)
<1>1. /\ Held(f2.hd) = Held(f.hd) /\ DOMAIN f.hd \subseteq DOMAIN f2.hd /\ \A b \in DOMAIN f.hd : f2.hd[b] = f.hd[b]
      /\ LastBefore(Blue(f), f.merge, sweep_hp) => LastBefore(Blue(f2), f2.merge, sweep_hp)
      /\ FragmentAt(f, sweep_hp) => FragmentAt(f2, sweep_hp)
  BY DEF Grown
<1>2. GivenAt(f2, h, hp, n, col, sweep_hp) /\ GoodHeap(h, ch)
  BY GivenDirectly
<1>3. \A b \in Held(f.hd) : h.hd[b] = f.hd[b]
  <2> SUFFICES ASSUME NEW b \in Held(f.hd) PROVE h.hd[b] = f.hd[b]
    OBVIOUS
  <2>1. b \in DOMAIN f.hd /\ b \in Held(f2.hd)
    BY <1>1 DEF Held
  <2>2. h.hd[b] = f2.hd[b] /\ f2.hd[b] = f.hd[b]
    BY <1>1, <1>2, <2>1 DEF GivenAt
  <2> QED
    BY <2>2
<1>4. DOMAIN f.hd \subseteq DOMAIN h.hd
  BY <1>1, <1>2 DEF GivenAt
<1> QED
  BY <1>1, <1>2, <1>3, <1>4 DEF GivenAt

\* The colour of a block that is given out.
ColorAt(ph, sw, hp) == IF ph = "mark" \/ (ph = "sweep" /\ hp >= sw) THEN "black" ELSE "white"

\* The block given out is in use, whatever the collector is doing.
LEMMA GivenUsed ==
  ASSUME NEW f, NEW h, NEW hp, NEW n \in Requests, NEW sw \in Nat, NEW ph, GivenAt(f, h, hp, n, ColorAt(ph, sw, hp), sw)
  PROVE  UsedIn(h.hd, ph, sw) = UsedIn(f.hd, ph, sw) \cup {hp}
<1> DEFINE col == ColorAt(ph, sw, hp)
<1>1. /\ hp \in Addr /\ hp \in DOMAIN h.hd /\ h.hd[hp] = [wosize |-> n, color |-> col]
      /\ Held(h.hd) = Held(f.hd) \cup {hp} /\ hp \notin Held(f.hd)
      /\ \A b \in Held(f.hd) : h.hd[b] = f.hd[b]
  BY DEF GivenAt
<1>2. hp \in Nat
  BY <1>1, Keys
<1>3. h.hd[hp].color = "white" => ph # "sweep" \/ hp < sw
  BY <1>1, <1>2 DEF ColorAt
<1>4. ASSUME NEW b \in Held(h.hd) PROVE b \in UsedIn(h.hd, ph, sw) <=> b \in UsedIn(f.hd, ph, sw) \cup {hp}
  <2>1. CASE b = hp
    BY <1>3, <2>1 DEF UsedIn
  <2>2. CASE b # hp
    <3>1. b \in Held(f.hd) /\ h.hd[b] = f.hd[b]
      BY <1>1, <2>2
    <3> QED
      BY <2>2, <3>1 DEF UsedIn
  <2> QED
    BY <2>1, <2>2
<1>5. UsedIn(h.hd, ph, sw) \subseteq Held(h.hd) /\ UsedIn(f.hd, ph, sw) \subseteq Held(f.hd)
  BY DEF UsedIn
<1> QED
  BY <1>1, <1>4, <1>5

\* So it is live, and it was not before.
LEMMA GivenLive ==
  ASSUME NEW f, NEW h, NEW hp, NEW n \in Requests, NEW sw \in Nat, NEW ph, GivenAt(f, h, hp, n, ColorAt(ph, sw, hp), sw),
         NEW lv, LiveIn(f.hd, ph, sw, lv)
  PROVE  LiveIn(h.hd, ph, sw, Over(MapsTo(hp, n), lv)) /\ hp \notin DOMAIN lv
<1> DEFINE U == UsedIn(f.hd, ph, sw)
           V == UsedIn(h.hd, ph, sw)
           lv2 == Over(MapsTo(hp, n), lv)
<1>1. V = U \cup {hp}
  BY GivenUsed
<1>2. U \subseteq Held(f.hd)
  BY DEF UsedIn
<1>3. hp \notin U /\ \A b \in U : h.hd[b].wosize = f.hd[b].wosize
  BY <1>2 DEF GivenAt
<1>4. h.hd[hp].wosize = n
  BY DEF GivenAt
<1>5. DOMAIN lv = U /\ (\A b \in U : lv[b] = f.hd[b].wosize /\ f.hd[b].wosize \in Requests)
  BY DEF LiveIn
<1>6. lv2 = [b \in U \cup {hp} |-> IF b = hp THEN n ELSE lv[b]]
  BY <1>3, <1>5, Zenon DEF Over, MapsTo
<1> HIDE DEF lv2, U, V
<1>7. lv2 = [b \in V |-> h.hd[b].wosize]
  BY <1>1, <1>3, <1>4, <1>5, <1>6
<1>8. \A b \in V : h.hd[b].wosize \in Requests
  BY <1>1, <1>3, <1>4, <1>5
<1> QED
  BY <1>3, <1>5, <1>7, <1>8 DEF LiveIn, lv2, V

\* It is black only where the collector needs that.
LEMMA GivenBlack ==
  ASSUME NEW f, NEW h, NEW hp, NEW n, NEW sw \in Nat, NEW ph, GivenAt(f, h, hp, n, ColorAt(ph, sw, hp), sw),
         BlackIn(f.hd, ph, sw), IsFl(h), Sound(h.hd)
  PROVE  BlackIn(h.hd, ph, sw)
<1> SUFFICES ASSUME NEW b \in DOMAIN h.hd, h.hd[b].color = "black"
             PROVE  ph = "mark" \/ (ph = "sweep" /\ b >= sw)
  BY DEF BlackIn
<1>1. b \in Held(h.hd)
  <2>1. h.hd[b].wosize # 0
    BY DEF Sound
  <2>2. h.hd[b].wosize \in 0..Words /\ Words \in Nat
    BY Spots DEF IsFl, Block
  <2> QED
    BY <2>1, <2>2 DEF Held
<1>2. CASE b = hp
  BY <1>2 DEF GivenAt, ColorAt
<1>3. CASE b # hp
  <2>1. b \in Held(f.hd) /\ h.hd[b] = f.hd[b]
    BY <1>1, <1>3 DEF GivenAt
  <2>2. b \in DOMAIN f.hd
    BY <2>1 DEF Held
  <2> QED
    BY <2>1, <2>2 DEF BlackIn
<1> QED
  BY <1>2, <1>3

\* The chunks ch2 are the chunks ch, and one more perhaps.
Kept(ch, ch2) == DOMAIN ch \subseteq DOMAIN ch2 /\ \A c \in DOMAIN ch : ch2[c] = ch[c]

\* The heap after an allocation is as the invariant says.
LEMMA GivenOK ==
  ASSUME NEW f, NEW h, NEW ch, NEW ch2, NEW ph, NEW sw, NEW c, NEW lv, HeapOK(f, ch, ph, sw, c, lv),
         NEW hp, NEW n \in Requests, GivenAt(f, h, hp, n, ColorAt(ph, sw, hp), sw), GoodHeap(h, ch2), Kept(ch, ch2)
  PROVE  HeapOK(h, ch2, ph, sw, c, Over(MapsTo(hp, n), lv))
<1>1. /\ ph \in {"idle", "mark", "sweep", "panic"} /\ sw \in 0..Words + 1 /\ c \in DOMAIN ch
      /\ ph = "sweep" => SweepAt(f, ch, c, sw)
      /\ BlackIn(f.hd, ph, sw) /\ LiveIn(f.hd, ph, sw, lv)
  BY DEF HeapOK
<1>2. sw \in Nat
  BY <1>1, Spots
<1>3. LiveIn(h.hd, ph, sw, Over(MapsTo(hp, n), lv))
  BY <1>1, <1>2, GivenLive
<1>4. BlackIn(h.hd, ph, sw)
  <2>1. IsFl(h) /\ Sound(h.hd)
    BY DEF GoodHeap, Solid
  <2> QED
    BY <1>1, <1>2, <2>1, GivenBlack
<1>5. ASSUME ph = "sweep" PROVE SweepAt(h, ch2, c, sw)
  <2>1. SweepAt(f, ch, c, sw)
    BY <1>1, <1>5
  <2>2. ch2[c] = ch[c]
    BY <1>1 DEF Kept
  <2> QED
    BY <2>1, <2>2 DEF SweepAt, GivenAt
<1>6. c \in DOMAIN ch2
  BY <1>1 DEF Kept
<1> QED
  BY <1>1, <1>3, <1>4, <1>5, <1>6 DEF HeapOK

\* What allocation makes of the heap.
GivenFrom(r, n) ==
  [r.f EXCEPT !.hd = Over(MapsTo(r.hp, [wosize |-> n, color |-> AllocationColor(r.hp)]), @)]

\* A request is for some words.
LEMMA RequestWords == \A n \in Requests : n \in 1..Words
BY HeapAssumption

\* caml_allocation_color, at the sweeper's place.
LEMMA ColorIs ==
  ASSUME NEW hp
  PROVE  AllocationColor(hp) = ColorAt(phase, sweep_hp, hp) /\ AllocationColor(hp) \in {"white", "black"}
BY DEF AllocationColor, ColorAt

\* Allocation from the free list keeps the invariant and gives out what was not live.
LEMMA FromListStep ==
  ASSUME IInv, NEW n \in Requests, FlAllocate(fl, n).hp # Null
  PROVE  LET r == FlAllocate(fl, n)
         IN  /\ HeapOK(GivenFrom(r, n), chunks, phase, sweep_hp, chunk, Over(MapsTo(r.hp, n), live))
             /\ r.hp \notin DOMAIN live
<1> DEFINE r == FlAllocate(fl, n)
           h == GivenFrom(r, n)
<1>1. n \in 1..Words /\ HeapOK(fl, chunks, phase, sweep_hp, chunk, live)
  BY RequestWords DEF IInv
<1>2. GoodHeap(fl, chunks) /\ Solid(fl, chunks) /\ sweep_hp \in 0..Words + 1
  BY <1>1 DEF HeapOK, GoodHeap
<1>3. sweep_hp \in Nat
  BY <1>2, Spots
<1>4. Gives(fl, r, n)
  <2>1. IsFl(fl) /\ Threaded(fl) /\ Tabled(fl)
    BY <1>2 DEF GoodHeap, Solid
  <2>2. Gives(fl, r, n) \/ Miss(fl, r, n)
    BY <1>1, <2>1, FlAllocateIs
  <2> QED
    BY <2>2 DEF Miss
<1> HIDE DEF r
<1>5. AllocationColor(r.hp) \in {"white", "black"}
  BY ColorIs
<1>6. Given(fl, h, chunks, r.hp, n, AllocationColor(r.hp))
  BY <1>1, <1>2, <1>4, <1>5, GivenIs DEF GivenFrom
<1>7. GivenAt(fl, h, r.hp, n, ColorAt(phase, sweep_hp, r.hp), sweep_hp) /\ GoodHeap(h, chunks)
  BY <1>3, <1>6, GivenDirectly, ColorIs
<1>8. Kept(chunks, chunks)
  BY DEF Kept
<1> HIDE DEF h
<1>9. HeapOK(h, chunks, phase, sweep_hp, chunk, Over(MapsTo(r.hp, n), live))
  BY <1>1, <1>7, <1>8, GivenOK
<1>10. r.hp \notin DOMAIN live
  <2>1. LiveIn(fl.hd, phase, sweep_hp, live)
    BY <1>1 DEF HeapOK
  <2> QED
    BY <1>3, <1>7, <2>1, GivenLive
<1> QED
  BY <1>9, <1>10 DEF r, h

\* The heap with the chunk a of s words, in the free list.
GrownFrom(r, a, s) ==
  AddBlocks([r.f EXCEPT !.hd = Over(MapsTo(a, [wosize |-> s - 1, color |-> "blue"]), @)], a, r.last)

\* Allocation with a new chunk keeps the invariant and gives out what was not live.
LEMMA ExpandingStep ==
  ASSUME IInv, NEW n \in Requests, FlAllocate(fl, n).hp = Null, NEW a \in Fits(ChunkSize(n))
  PROVE  LET r == FlAllocate(GrownFrom(FlAllocate(fl, n), a, ChunkSize(n)), n)
         IN  /\ HeapOK(GivenFrom(r, n), Over(MapsTo(a, ChunkSize(n)), chunks), phase, sweep_hp, chunk,
                       Over(MapsTo(r.hp, n), live))
             /\ r.hp \notin DOMAIN live
<1> DEFINE r0 == FlAllocate(fl, n)
           s == ChunkSize(n)
           f2 == GrownFrom(r0, a, s)
           ch2 == Over(MapsTo(a, s), chunks)
           r == FlAllocate(f2, n)
           h == GivenFrom(r, n)
<1>1. n \in 1..Words /\ HeapOK(fl, chunks, phase, sweep_hp, chunk, live)
  BY RequestWords DEF IInv
<1>2. GoodHeap(fl, chunks) /\ Solid(fl, chunks) /\ sweep_hp \in 0..Words + 1
  BY <1>1 DEF HeapOK, GoodHeap
<1>3. sweep_hp \in Nat
  BY <1>2, Spots
<1>4. Miss(fl, r0, n)
  <2>1. IsFl(fl) /\ Threaded(fl) /\ Tabled(fl)
    BY <1>2 DEF GoodHeap, Solid
  <2>2. Gives(fl, r0, n) \/ Miss(fl, r0, n)
    BY <1>1, <2>1, FlAllocateIs
  <2>3. ASSUME Gives(fl, r0, n) PROVE r0.hp \in Addr
    <3>1. Given(fl, [r0.f EXCEPT !.hd = Over(MapsTo(r0.hp, [wosize |-> n, color |-> "white"]), @)], chunks,
                r0.hp, n, "white")
      BY <1>1, <1>2, <2>3, GivenIs
    <3> QED
      BY <3>1 DEF Given
  <2> QED
    BY <2>2, <2>3, Spots
<1> HIDE DEF r0
<1>5. s \in Nat /\ s >= n + 1 /\ s >= 2 /\ s > Slack
  BY <1>1, ChunkSizeIs
<1>6. Kept(chunks, ch2)
  <2>1. ChunksInv(chunks)
    BY <1>2 DEF Solid
  <2> HIDE DEF s
  <2>2. DOMAIN ch2 = DOMAIN chunks \cup {a} /\ (\A c \in DOMAIN chunks : ch2[c] = chunks[c])
    BY <1>5, <2>1, ChunkAdded DEF s
  <2> QED
    BY <2>2 DEF Kept
<1>7. Grown(fl, f2, ch2, n)
  BY <1>1, <1>2, <1>3, <1>4, <1>5, GrowIs DEF GrownFrom
<1>8. Solid(f2, ch2) /\ Gives(f2, r, n)
  BY <1>7 DEF Grown
<1> HIDE DEF r, f2, ch2, s
<1>9. AllocationColor(r.hp) \in {"white", "black"}
  BY ColorIs
<1>10. Given(f2, h, ch2, r.hp, n, AllocationColor(r.hp))
  BY <1>1, <1>8, <1>9, GivenIs DEF GivenFrom
<1>11. GivenAt(fl, h, r.hp, n, ColorAt(phase, sweep_hp, r.hp), sweep_hp) /\ GoodHeap(h, ch2)
  BY <1>3, <1>7, <1>10, GivenGrown, ColorIs
<1> HIDE DEF h
<1>12. HeapOK(h, ch2, phase, sweep_hp, chunk, Over(MapsTo(r.hp, n), live))
  BY <1>1, <1>6, <1>11, GivenOK
<1>13. r.hp \notin DOMAIN live
  <2>1. LiveIn(fl.hd, phase, sweep_hp, live)
    BY <1>1 DEF HeapOK
  <2> QED
    BY <1>3, <1>11, <2>1, GivenLive
<1> QED
  BY <1>12, <1>13 DEF h, r, f2, ch2, s, r0

\* An allocation that fails keeps the invariant.
LEMMA FailsStep ==
  ASSUME IInv, NEW n \in Requests, FlAllocate(fl, n).hp = Null
  PROVE  HeapOK(FlAllocate(fl, n).f, chunks, phase, sweep_hp, chunk, live)
<1> DEFINE r == FlAllocate(fl, n)
           h == r.f
<1>1. n \in 1..Words /\ HeapOK(fl, chunks, phase, sweep_hp, chunk, live)
  BY RequestWords DEF IInv
<1>2. GoodHeap(fl, chunks) /\ Solid(fl, chunks) /\ IsFl(fl) /\ Threaded(fl) /\ Tabled(fl)
  BY <1>1 DEF HeapOK, GoodHeap, Solid
<1>3. Miss(fl, r, n)
  <2>1. Gives(fl, r, n) \/ Miss(fl, r, n)
    BY <1>1, <1>2, FlAllocateIs
  <2>2. ASSUME Gives(fl, r, n) PROVE r.hp \in Addr
    <3>1. Given(fl, [r.f EXCEPT !.hd = Over(MapsTo(r.hp, [wosize |-> n, color |-> "white"]), @)], chunks,
                r.hp, n, "white")
      BY <1>1, <1>2, <2>2, GivenIs
    <3> QED
      BY <3>1 DEF Given
  <2> QED
    BY <2>1, <2>2, Spots
<1>4. SameList(fl, h) /\ IsFl(h) /\ Tabled(h)
  BY <1>3 DEF Miss
<1>5. Blue(h) = Blue(fl) /\ Threaded(h)
  BY <1>2, <1>4, SameListIs
<1>6. h.hd = fl.hd /\ h.merge = fl.merge /\ h.fragment = fl.fragment
  BY <1>4 DEF SameList
<1> HIDE DEF r, h
<1>7. GoodHeap(h, chunks)
  BY <1>2, <1>4, <1>5, <1>6 DEF GoodHeap, Solid
<1>8. phase = "sweep" => SweepAt(h, chunks, chunk, sweep_hp)
  BY <1>1, <1>5, <1>6 DEF HeapOK, SweepAt, FragmentAt
<1>9. HeapOK(h, chunks, phase, sweep_hp, chunk, live)
  BY <1>1, <1>6, <1>7, <1>8 DEF HeapOK
<1> QED
  BY <1>9 DEF h, r

\* Other fields of the free list changed.
LEMMA OtherFields ==
  ASSUME NEW f, NEW h, NEW ch, NEW ph, NEW sw, NEW c, NEW lv, HeapOK(f, ch, ph, sw, c, lv),
         GoodHeap(h, ch), h.hd = f.hd, h.merge = f.merge, h.fragment = f.fragment
  PROVE  HeapOK(h, ch, ph, sw, c, lv)
<1>1. Blue(h) = Blue(f)
  BY DEF Blue
<1> QED
  BY <1>1 DEF HeapOK, SweepAt, FragmentAt

\* A change of the policy keeps the invariant (freelist.c:525-539).
LEMMA PolicyStep ==
  ASSUME IInv
  PROVE  /\ HeapOK([fl EXCEPT !.policy = "next fit", !.prev = FlHead], chunks, phase, sweep_hp, chunk, live)
         /\ HeapOK([fl EXCEPT !.policy = "first fit", !.flp = << >>, !.beyond = Null],
                   chunks, phase, sweep_hp, chunk, live)
<1>1. HeapOK(fl, chunks, phase, sweep_hp, chunk, live)
  BY DEF IInv
<1>2. GoodHeap(fl, chunks)
  BY <1>1 DEF HeapOK
<1> DEFINE h1 == [fl EXCEPT !.policy = "next fit", !.prev = FlHead]
           h2 == [fl EXCEPT !.policy = "first fit", !.flp = << >>, !.beyond = Null]
<1>3. GoodHeap(h1, chunks) /\ h1.hd = fl.hd /\ h1.merge = fl.merge /\ h1.fragment = fl.fragment
  BY <1>2, PolicyNextFit
<1>4. GoodHeap(h2, chunks) /\ h2.hd = fl.hd /\ h2.merge = fl.merge /\ h2.fragment = fl.fragment
  BY <1>2, PolicyFirstFit
<1> HIDE DEF h1, h2
<1>5. HeapOK(h1, chunks, phase, sweep_hp, chunk, live)
  BY <1>1, <1>3, OtherFields
<1>6. HeapOK(h2, chunks, phase, sweep_hp, chunk, live)
  BY <1>1, <1>4, OtherFields
<1> QED
  BY <1>5, <1>6 DEF h1, h2

\* The start of a cycle keeps the invariant.
LEMMA StartStep ==
  ASSUME IInv, phase = "idle"
  PROVE  HeapOK(fl, chunks, "mark", sweep_hp, chunk, live)
<1>1. HeapOK(fl, chunks, phase, sweep_hp, chunk, live)
  BY DEF IInv
<1>2. UsedIn(fl.hd, "mark", sweep_hp) = UsedIn(fl.hd, "idle", sweep_hp)
  BY DEF UsedIn
<1>3. LiveIn(fl.hd, "mark", sweep_hp, live)
  BY <1>1, <1>2 DEF HeapOK, LiveIn
<1>4. BlackIn(fl.hd, "mark", sweep_hp)
  BY DEF BlackIn
<1> QED
  BY <1>1, <1>3, <1>4 DEF HeapOK

\* The end of marking keeps the invariant: what is not marked is no longer live.
LEMMA MarkStep ==
  ASSUME IInv, phase = "mark", NEW marked \in SUBSET DOMAIN live,
         \A b \in DOMAIN live : fl.hd[b].color = "black" => b \in marked
  PROVE  HeapOK(InitMerge([fl EXCEPT !.hd = [b \in DOMAIN @ |->
                             IF b \in marked THEN [@[b] EXCEPT !.color = "black"] ELSE @[b]]]),
                chunks, "sweep", Min(DOMAIN chunks), Min(DOMAIN chunks), Without(live, DOMAIN live \ marked))
<1> DEFINE h == InitMerge([fl EXCEPT !.hd = Marked(fl.hd, marked)])
           c == Min(DOMAIN chunks)
           lv == Without(live, DOMAIN live \ marked)
<1>1. GoodHeap(fl, chunks) /\ LiveIn(fl.hd, "mark", sweep_hp, live)
  BY DEF IInv, HeapOK
<1>2. Sweeping(h, chunks, c, c) /\ LiveIn(h.hd, "sweep", c, lv) /\ c \in 0..Words + 1
  BY <1>1, MarkEnds
<1> HIDE DEF h, c, lv
<1>3. HeapOK(h, chunks, "sweep", c, c, lv)
  BY <1>2 DEF HeapOK, Sweeping
<1> QED
  BY <1>3 DEF h, c, lv, Marked

\* The sweeper, with what it knows.
LEMMA NowSweeping ==
  ASSUME IInv, phase = "sweep"
  PROVE  /\ Sweeping(fl, chunks, chunk, sweep_hp) /\ LiveIn(fl.hd, "sweep", sweep_hp, live)
         /\ chunk \in DOMAIN chunks
BY DEF IInv, HeapOK, Sweeping

\* What the sweeper does to one block keeps the invariant.
LEMMA SweptOK ==
  ASSUME IInv, phase = "sweep", NEW h, NEW adj, SweptTo(fl, h, chunks, chunk, sweep_hp, adj)
  PROVE  HeapOK(h, chunks, "sweep", adj, chunk, live)
<1>1. LiveIn(fl.hd, "sweep", sweep_hp, live) /\ chunk \in DOMAIN chunks
  BY NowSweeping
<1>2. /\ Sweeping(h, chunks, chunk, adj) /\ UsedIn(h.hd, "sweep", adj) = UsedIn(fl.hd, "sweep", sweep_hp)
      /\ \A b \in UsedIn(fl.hd, "sweep", sweep_hp) : h.hd[b].wosize = fl.hd[b].wosize
      /\ adj \in 0..Words + 1
  BY DEF SweptTo
<1>3. LiveIn(h.hd, "sweep", adj, live)
  BY <1>1, <1>2, LiveStays
<1> QED
  BY <1>1, <1>2, <1>3 DEF HeapOK, Sweeping

\* The invariant, when a white block is swept.
LEMMA SweepWhiteStep ==
  ASSUME IInv, phase = "sweep", sweep_hp < Limit, fl.hd[sweep_hp].color = "white"
  PROVE  HeapOK(MergeBlock(fl, sweep_hp).f, chunks, "sweep", MergeBlock(fl, sweep_hp).adj, chunk, live)
BY NowSweeping, SweepWhite, SweptOK DEF Limit

\* The invariant, when a free block is swept.
LEMMA SweepBlueStep ==
  ASSUME IInv, phase = "sweep", sweep_hp < Limit, fl.hd[sweep_hp].color = "blue"
  PROVE  HeapOK([fl EXCEPT !.merge = sweep_hp], chunks, "sweep", sweep_hp + fl.hd[sweep_hp].wosize + 1, chunk, live)
BY NowSweeping, SweepBlue, SweptOK DEF Limit

\* The invariant, when a black block is swept.
LEMMA SweepBlackStep ==
  ASSUME IInv, phase = "sweep", sweep_hp < Limit, fl.hd[sweep_hp].color = "black"
  PROVE  HeapOK([fl EXCEPT !.hd[sweep_hp].color = "white"], chunks, "sweep",
                sweep_hp + fl.hd[sweep_hp].wosize + 1, chunk, live)
BY NowSweeping, SweepBlack, SweptOK DEF Limit

-----------------------------------------------------------------------------
\* There are no blocks between a chunk and the next.
LEMMA NextChunk ==
  ASSUME ChunksInv(chunks), NEW c \in DOMAIN chunks
  PROVE  /\ ChunkNext(c) # Null => ChunkNext(c) \in DOMAIN chunks /\ c < ChunkNext(c)
         /\ \A d \in DOMAIN chunks : c < d => ChunkNext(c) # Null /\ ChunkNext(c) <= d
<1> DEFINE later == {d \in DOMAIN chunks : d > c}
<1>1. DOMAIN chunks \subseteq Addr /\ Addr \subseteq Nat /\ c \in Nat
  BY Keys DEF ChunksInv
<1>2. later \in SUBSET Nat
  BY <1>1
<1>3. CASE later = {}
  BY <1>1, <1>3 DEF ChunkNext
<1>4. CASE later # {}
  <2>1. Min(later) \in later /\ \A d \in later : Min(later) <= d
    BY <1>2, <1>4, MinIs
  <2>2. ChunkNext(c) = Min(later)
    BY <1>4 DEF ChunkNext
  <2>3. Min(later) # Null
    BY <1>1, <2>1, Spots
  <2> QED
    BY <1>1, <2>1, <2>2, <2>3
<1> QED
  BY <1>3, <1>4

\* The blocks after a chunk are in the chunks after it.
LEMMA BlocksOfNext ==
  ASSUME NEW f, Solid(f, chunks), NEW c \in DOMAIN chunks, NEW b \in DOMAIN f.hd, c + chunks[c] <= b
  PROVE  ChunkNext(c) # Null /\ ChunkNext(c) <= b
<1>1. ChunksInv(chunks) /\ Chunky(chunks) /\ IsHeap(f.hd)
  BY SolidIs DEF Solid
<1>2. PICK d \in DOMAIN chunks : d <= b /\ Stop(f.hd, b) <= d + chunks[d]
  BY DEF Solid, Tiled
<1>3. c \in Nat /\ d \in Nat /\ chunks[c] \in Nat /\ chunks[d] \in Nat /\ chunks[c] >= 1
  BY <1>1, <1>2, Keys DEF Chunky
<1>4. b \in Nat /\ Stop(f.hd, b) \in Nat /\ b < Stop(f.hd, b)
  BY <1>1, Stops
<1>5. d # c
  BY <1>2, <1>3, <1>4
<1>6. ~ (d < c)
  <2> SUFFICES ASSUME d < c PROVE FALSE
    OBVIOUS
  <2>1. d + chunks[d] < c
    BY <1>1, <1>2 DEF Chunky
  <2> QED
    BY <1>2, <1>3, <1>4, <2>1
<1>7. c < d
  BY <1>3, <1>5, <1>6
<1>8. ChunkNext(c) # Null /\ ChunkNext(c) <= d /\ ChunkNext(c) \in DOMAIN chunks
  BY <1>1, <1>2, <1>7, NextChunk
<1>9. ChunkNext(c) \in Nat
  BY <1>1, <1>8, Keys DEF Chunky
<1> QED
  BY <1>2, <1>3, <1>4, <1>8, <1>9

\* At the end of a chunk.
LEMMA AtLimit ==
  ASSUME IInv, phase = "sweep", sweep_hp = Limit
  PROVE  /\ GoodHeap(fl, chunks) /\ ChunksInv(chunks) /\ chunk \in DOMAIN chunks /\ chunk \in Nat /\ chunks[chunk] \in Nat
         /\ sweep_hp \in Nat /\ sweep_hp = chunk + chunks[chunk]
         /\ \A b \in DOMAIN fl.hd : b \in Nat /\ (b < sweep_hp \/ (ChunkNext(chunk) # Null /\ ChunkNext(chunk) <= b))
<1>1. Sweeping(fl, chunks, chunk, sweep_hp) /\ chunk \in DOMAIN chunks
  BY NowSweeping
<1>2. GoodHeap(fl, chunks) /\ Solid(fl, chunks) /\ ChunksInv(chunks)
  BY <1>1 DEF Sweeping, GoodHeap, Solid
<1>3. IsHeap(fl.hd) /\ Chunky(chunks)
  BY <1>2, SolidIs
<1>4. chunk \in Nat /\ chunks[chunk] \in Nat
  BY <1>1, <1>3, Keys DEF Chunky
<1>5. sweep_hp = chunk + chunks[chunk] /\ sweep_hp \in Nat
  BY <1>4 DEF Limit
<1>6. ASSUME NEW b \in DOMAIN fl.hd
      PROVE  b \in Nat /\ (b < sweep_hp \/ (ChunkNext(chunk) # Null /\ ChunkNext(chunk) <= b))
  <2>1. b \in Nat
    BY <1>3, Stops
  <2>2. CASE b < sweep_hp
    BY <2>1, <2>2
  <2>3. CASE sweep_hp <= b
    BY <1>1, <1>2, <1>5, <2>1, <2>3, BlocksOfNext
  <2> QED
    BY <1>5, <2>1, <2>2, <2>3
<1> QED
  BY <1>1, <1>2, <1>4, <1>5, <1>6

\* Going on with the next chunk keeps the invariant.
LEMMA NextChunkStep ==
  ASSUME IInv, phase = "sweep", sweep_hp = Limit, ChunkNext(chunk) # Null
  PROVE  HeapOK(fl, chunks, "sweep", ChunkNext(chunk), ChunkNext(chunk), live)
<1> DEFINE d == ChunkNext(chunk)
<1>1. /\ GoodHeap(fl, chunks) /\ ChunksInv(chunks) /\ chunk \in DOMAIN chunks /\ chunk \in Nat /\ chunks[chunk] \in Nat
      /\ sweep_hp \in Nat /\ sweep_hp = chunk + chunks[chunk]
      /\ \A b \in DOMAIN fl.hd : b \in Nat /\ (b < sweep_hp \/ d <= b)
  BY AtLimit
<1>2. d \in DOMAIN chunks /\ chunk < d
  BY <1>1, NextChunk
<1> HIDE DEF d
<1>3. d \in Addr /\ d \in Nat /\ chunk + chunks[chunk] < d /\ d \in DOMAIN fl.hd /\ chunks[d] \in Nat
  <2>1. d \in Addr /\ chunk + chunks[chunk] < d /\ chunks[d] \in 2..Words
    BY <1>1, <1>2 DEF ChunksInv
  <2>2. d \in DOMAIN fl.hd
    BY <1>1, <1>2 DEF GoodHeap, Solid, Tiled
  <2> QED
    BY <2>1, <2>2, Keys, Spots
<1>4. sweep_hp < d
  BY <1>1, <1>3
<1>5. \A b \in DOMAIN fl.hd : b \in Nat /\ (b < d <=> b < sweep_hp)
  BY <1>1, <1>3, <1>4
<1>6. /\ SweepAt(fl, chunks, chunk, sweep_hp) /\ BlackIn(fl.hd, "sweep", sweep_hp)
      /\ LiveIn(fl.hd, "sweep", sweep_hp, live)
  BY DEF IInv, HeapOK
<1>7. LastBefore(Blue(fl), fl.merge, d)
  <2>1. LastBefore(Blue(fl), fl.merge, sweep_hp)
    BY <1>6 DEF SweepAt
  <2>2. Blue(fl) \subseteq DOMAIN fl.hd
    BY DEF Blue
  <2>3. fl.merge \in Blue(fl) => (fl.merge < sweep_hp => fl.merge < d)
    BY <1>5, <2>2
  <2> QED
    BY <1>5, <2>1, <2>2, <2>3 DEF LastBefore
<1>8. FragmentAt(fl, d)
  <2> SUFFICES ASSUME fl.fragment # Null PROVE fl.fragment < d /\ fl.fragment + 1 # d
    BY DEF FragmentAt
  <2>1. fl.fragment < sweep_hp
    BY <1>6 DEF SweepAt, FragmentAt
  <2>2. fl.fragment \in Nat
    <3>1. fl.fragment \in Addr \cup {Null}
      BY <1>1 DEF GoodHeap, Solid, IsFl
    <3> QED
      BY <3>1, Keys, Spots
  <2> QED
    BY <1>1, <1>3, <1>4, <2>1, <2>2
<1>9. SweepAt(fl, chunks, d, d)
  BY <1>3, <1>7, <1>8 DEF SweepAt
<1>10. BlackIn(fl.hd, "sweep", d)
  <2> SUFFICES ASSUME NEW b \in DOMAIN fl.hd, fl.hd[b].color = "black" PROVE b >= d
    BY DEF BlackIn
  <2>1. b >= sweep_hp
    BY <1>6 DEF BlackIn
  <2> QED
    BY <1>1, <1>3, <1>5, <2>1
<1>11. UsedIn(fl.hd, "sweep", d) = UsedIn(fl.hd, "sweep", sweep_hp)
  <2>1. \A b \in Held(fl.hd) : b < d <=> b < sweep_hp
    BY <1>5 DEF Held
  <2> QED
    BY <2>1 DEF UsedIn
<1>12. LiveIn(fl.hd, "sweep", d, live)
  BY <1>6, <1>11 DEF LiveIn
<1>13. d \in 0..Words + 1
  BY <1>3, Spots
<1> QED
  BY <1>1, <1>2, <1>9, <1>10, <1>12, <1>13 DEF HeapOK, d

\* At the end of the last chunk, all of the heap is behind the sweeper.
LEMMA AllSwept ==
  ASSUME IInv, phase = "sweep", sweep_hp = Limit, ChunkNext(chunk) = Null
  PROVE  /\ GoodHeap(fl, chunks) /\ \A b \in DOMAIN fl.hd : fl.hd[b].color # "black"
         /\ UsedIn(fl.hd, "sweep", sweep_hp) = Held(fl.hd)
<1>1. GoodHeap(fl, chunks) /\ sweep_hp \in Nat /\ \A b \in DOMAIN fl.hd : b \in Nat /\ b < sweep_hp
  BY AtLimit
<1>2. ASSUME NEW b \in DOMAIN fl.hd, fl.hd[b].color = "black" PROVE FALSE
  <2>1. b >= sweep_hp
    BY <1>2 DEF IInv, HeapOK, BlackIn
  <2> QED
    BY <1>1, <2>1
<1>3. UsedIn(fl.hd, "sweep", sweep_hp) = Held(fl.hd)
  BY <1>1 DEF UsedIn, Held
<1> QED
  BY <1>1, <1>2, <1>3

\* The end of the sweep keeps the invariant.
LEMMA EndStep ==
  ASSUME IInv, phase = "sweep", sweep_hp = Limit, ChunkNext(chunk) = Null
  PROVE  HeapOK(fl, chunks, "idle", sweep_hp, chunk, live)
<1>1. /\ GoodHeap(fl, chunks) /\ \A b \in DOMAIN fl.hd : fl.hd[b].color # "black"
      /\ UsedIn(fl.hd, "sweep", sweep_hp) = Held(fl.hd)
  BY AllSwept
<1>2. UsedIn(fl.hd, "idle", sweep_hp) = Held(fl.hd)
  BY DEF UsedIn
<1>3. LiveIn(fl.hd, "idle", sweep_hp, live)
  BY <1>1, <1>2 DEF IInv, HeapOK, LiveIn
<1>4. BlackIn(fl.hd, "idle", sweep_hp)
  BY <1>1 DEF BlackIn
<1> QED
  BY <1>1, <1>3, <1>4 DEF IInv, HeapOK

-----------------------------------------------------------------------------
(* The heap, made chunk by chunk *)

\* What there is of the heap fills the parts p of the chunks; what is free is before t.
Part(f, p, t) ==
  /\ IsFl(f) /\ Sound(f.hd) /\ Threaded(f) /\ Tabled(f) /\ Chunky(p) /\ Tiled(f.hd, p) /\ t \in Nat
  /\ LastBefore(Blue(f), f.merge, t) /\ (\A b \in Blue(f) : b < t)
  /\ (f.fragment # Null => f.fragment < t)
  /\ \A b \in DOMAIN f.hd : f.hd[b].color # "black"

WhiteBlock(w) == [wosize |-> w - 1, color |-> "white"]

\* u is f with a white block at `at`, in the chunks p2.
WhiteAt(f, u, p2, at) ==
  /\ Mergeable(u, at) /\ Tiled(u.hd, p2) /\ (\A b \in Blue(u) : b < at)
  /\ (\A b \in DOMAIN u.hd : u.hd[b].color # "black")
  /\ Held(f.hd) = Held(u.hd) \ {at} /\ \A b \in DOMAIN f.hd : u.hd[b] = f.hd[b]

\* A white block laid into words that were added is where the merge expects it.
LEMMA PartWhite ==
  ASSUME NEW f, NEW p, NEW t, Part(f, p, t), NEW p2, NEW a, NEW w, NEW at, Filled(p, p2, a, w, at), t < at
  PROVE  WhiteAt(f, [f EXCEPT !.hd = Over(MapsTo(at, WhiteBlock(w)), @)], p2, at)
<1> DEFINE u == [f EXCEPT !.hd = Over(MapsTo(at, WhiteBlock(w)), @)]
<1>1. /\ IsFl(f) /\ Sound(f.hd) /\ Threaded(f) /\ Tabled(f) /\ Chunky(p) /\ Tiled(f.hd, p) /\ t \in Nat
      /\ LastBefore(Blue(f), f.merge, t) /\ (\A b \in Blue(f) : b < t)
      /\ (f.fragment # Null => f.fragment < t)
      /\ \A b \in DOMAIN f.hd : f.hd[b].color # "black"
  BY DEF Part
<1>2. IsHeap(f.hd)
  BY <1>1 DEF IsFl, IsHeap
<1>3. /\ at \in Addr /\ a <= at /\ at + w <= Words + 1
      /\ \A x \in DOMAIN f.hd : (x < at /\ Stop(f.hd, x) <= at) \/ at + w <= x
  BY <1>1, <1>2, WordsAreFree
<1>4. at \in Nat /\ at >= 1 /\ Words \in Nat /\ \A x \in DOMAIN f.hd : x \in Nat
  BY <1>2, <1>3, Keys, Spots, Stops
<1>5. w \in Nat \ {0} /\ Chunky(p2)
  BY DEF Filled
<1>6. at \notin DOMAIN f.hd
  BY <1>3, <1>4, <1>5
<1>7. WhiteBlock(w) \in Block /\ WhiteBlock(w).color = "white" /\ WhiteBlock(w).wosize = w - 1
  <2>1. w - 1 \in 0..Words
    BY <1>3, <1>4, <1>5
  <2> QED
    BY <2>1 DEF WhiteBlock, Block
<1>8. Headed(f, u, at, WhiteBlock(w))
  <2>1. at \notin Blue(f)
    BY <1>6 DEF Blue
  <2>2. WhiteBlock(w).color # "blue"
    BY <1>7
  <2> QED
    BY <1>1, <1>3, <1>7, <2>1, <2>2, HeadedIs
<1> HIDE DEF u
<1>10. /\ IsFl(u) /\ DOMAIN u.hd = DOMAIN f.hd \cup {at} /\ u.hd[at] = WhiteBlock(w)
       /\ \A b \in DOMAIN f.hd : u.hd[b] = f.hd[b]
       /\ Blue(u) = Blue(f) /\ Threaded(u) /\ Tabled(u) /\ u.merge = f.merge /\ u.fragment = f.fragment
  BY <1>1, <1>6, <1>8 DEF Headed
<1>11. IsHeap(u.hd)
  BY <1>10 DEF IsFl, IsHeap
<1>12. Tiled(u.hd, p2)
  <2>1. Laid(f.hd, u.hd, at, w)
    BY <1>7, <1>10, <1>11 DEF Laid
  <2>2. IsHeap(f.hd) /\ Tiled(f.hd, p)
    BY <1>1, <1>2
  <2> QED
    BY <2>1, <2>2, TileExtend, ZenonT(30)
<1>13. Apart(u.hd)
  BY <1>12 DEF Apart, Tiled
<1>14. Inside1(u.hd)
  <2> SUFFICES ASSUME NEW b \in DOMAIN u.hd PROVE Stop(u.hd, b) <= Words + 1
    BY DEF Inside1
  <2>1. PICK c \in DOMAIN p2 : c <= b /\ Stop(u.hd, b) <= c + p2[c]
    BY <1>12 DEF Tiled
  <2>2. c \in Nat /\ p2[c] \in Nat /\ c + p2[c] <= Words + 1
    BY <1>5, <2>1, Keys DEF Chunky
  <2>3. Stop(u.hd, b) \in Nat
    BY <1>11, Stops
  <2> QED
    BY <1>4, <2>1, <2>2, <2>3
<1>15. Sound(u.hd)
  <2> SUFFICES ASSUME NEW b \in DOMAIN u.hd
               PROVE  /\ u.hd[b].color = "blue" => u.hd[b].wosize > 0
                      /\ u.hd[b].wosize = 0 => u.hd[b].color = "white"
    BY DEF Sound
  <2>1. CASE b = at
    BY <1>7, <1>10, <2>1
  <2>2. CASE b # at
    BY <1>1, <1>10, <2>2 DEF Sound
  <2> QED
    BY <2>1, <2>2
<1>16. \A b \in Blue(f) : b \in Nat /\ b < at
  BY <1>1, <1>4 DEF Blue
<1>17. LastBefore(Blue(u), u.merge, at)
  <2>1. LastBefore(Blue(f), f.merge, at)
    <3>1. f.merge \in Blue(f) \cup {FlHead}
      BY <1>1 DEF LastBefore
    <3>2. f.merge = FlHead \/ f.merge < at
      BY <1>16, <3>1
    <3>3. \A b \in Blue(f) : f.merge # FlHead /\ b <= f.merge
      BY <1>1 DEF LastBefore
    <3> QED
      BY <3>1, <3>2, <3>3 DEF LastBefore
  <2> QED
    BY <1>10, <2>1
<1>18. FragmentAt(u, at)
  <2> SUFFICES ASSUME u.fragment # Null PROVE u.fragment < at /\ u.fragment + 1 # at
    BY DEF FragmentAt
  <2>1. u.fragment < t
    BY <1>1, <1>10
  <2>2. u.fragment \in Nat
    <3>1. u.fragment \in Addr \cup {Null}
      BY <1>10 DEF IsFl
    <3> QED
      BY <3>1, Keys, Spots
  <2> QED
    BY <1>1, <1>4, <2>1, <2>2
<1>19. Mergeable(u, at)
  BY <1>7, <1>10, <1>13, <1>14, <1>15, <1>17, <1>18 DEF Mergeable
<1>20. \A b \in DOMAIN u.hd : u.hd[b].color # "black"
  BY <1>1, <1>7, <1>10
<1>21. Held(f.hd) = Held(u.hd) \ {at}
  <2>1. \A b \in DOMAIN f.hd : b \in Held(u.hd) <=> b \in Held(f.hd)
    BY <1>10 DEF Held
  <2>2. Held(f.hd) \subseteq DOMAIN f.hd /\ Held(u.hd) \subseteq DOMAIN f.hd \cup {at}
    BY <1>10 DEF Held
  <2> QED
    BY <1>6, <2>1, <2>2
<1>22. \A b \in Blue(u) : b < at
  BY <1>10, <1>16
<1>23. WhiteAt(f, u, p2, at)
  BY <1>10, <1>12, <1>19, <1>20, <1>21, <1>22 DEF WhiteAt
<1> QED
  BY <1>23 DEF u

\* h is f with the words up to t free.
MadeFree(f, h, p, t) ==
  /\ Part(h, p, t) /\ Held(h.hd) = Held(f.hd) /\ \A b \in Held(f.hd) : h.hd[b] = f.hd[b]

\* caml_make_free_blocks frees the words that were added to the parts.
LEMMA MakeFreeIs ==
  ASSUME NEW f, NEW p, NEW t, Part(f, p, t), NEW p2, NEW a, NEW w, NEW at, Filled(p, p2, a, w, at), t < at
  PROVE  MadeFree(f, MakeFreeBlocks(f, at, w), p2, at + w)
<1> DEFINE u == [f EXCEPT !.hd = Over(MapsTo(at, WhiteBlock(w)), @)]
           h == MergeBlock(u, at).f
           lo == MLo(u, at)
           adj == MAdj(u, at)
<1>1. /\ Mergeable(u, at) /\ Tiled(u.hd, p2) /\ (\A b \in Blue(u) : b < at)
      /\ (\A b \in DOMAIN u.hd : u.hd[b].color # "black")
      /\ Held(f.hd) = Held(u.hd) \ {at} /\ \A b \in DOMAIN f.hd : u.hd[b] = f.hd[b]
  <2>1. WhiteAt(f, u, p2, at)
    BY PartWhite
  <2> HIDE DEF u
  <2> QED
    BY <2>1 DEF WhiteAt
<1>2. h = MakeFreeBlocks(f, at, w)
  BY DEF MakeFreeBlocks, WhiteBlock
<1> HIDE DEF u
<1>3. Merged(u, h, at, lo, adj)
  BY <1>1, MergeIs
<1>4. Chunky(p2) /\ a \in Addr /\ w \in Nat \ {0} /\ a \in DOMAIN p2 /\ a + p2[a] = at + w
  BY DEF Filled
<1>5. at \in Addr /\ a <= at /\ at + w <= Words + 1
  <2>1. IsHeap(f.hd) /\ Tiled(f.hd, p)
    BY DEF Part, IsFl, IsHeap
  <2> QED
    BY <2>1, WordsAreFree
<1>6. at \in Nat /\ a \in Nat /\ p2[a] \in Nat
  BY <1>4, <1>5, Keys DEF Chunky
<1>7. /\ IsFl(u) /\ Sound(u.hd) /\ at \in DOMAIN u.hd /\ u.hd[at].color = "white"
  BY <1>1 DEF Mergeable
<1> HIDE DEF h
<1>8. MergedHd(u, h.hd, lo, adj) /\ Freed(u, at, lo, adj)
  BY <1>3 DEF Merged
<1>9. Tiled(h.hd, p2) /\ adj <= at + w
  <2>1. MergedHd(u, h.hd, MLo(u, at), MAdj(u, at))
    BY <1>8
  <2>2. /\ Tiled(h.hd, p2)
        /\ \A d \in DOMAIN p2 : d <= at /\ at < d + p2[d] => MAdj(u, at) <= d + p2[d]
    BY <1>1, <1>4, <2>1, TileMerge
  <2>3. at < a + p2[a]
    BY <1>4, <1>6
  <2> QED
    BY <1>4, <1>5, <2>2, <2>3
<1> HIDE DEF lo, adj
<1>10. /\ Sound(h.hd) /\ Held(h.hd) = Held(u.hd) \ {at}
       /\ \A b \in Held(h.hd) : h.hd[b] = u.hd[b]
       /\ \A b \in DOMAIN h.hd : h.hd[b].color = "black" => b \in Held(u.hd) /\ h.hd[b] = u.hd[b]
  BY <1>7, <1>8, HeldMerged
<1>11. lo \in Nat /\ adj \in Nat /\ lo <= at /\ at < adj /\ lo < adj
  BY <1>8 DEF MergedHd, Freed
<1>12. \A b \in Blue(h) : b \in Nat /\ b < adj
  <2> SUFFICES ASSUME NEW b \in Blue(h) PROVE b \in Nat /\ b < adj
    OBVIOUS
  <2>1. b \in DOMAIN h.hd /\ h.hd[b].color = "blue"
    BY DEF Blue
  <2>2. b \in DOMAIN u.hd /\ (b # lo => h.hd[b] = u.hd[b])
    BY <1>8, <2>1 DEF MergedHd
  <2>3. b \in Nat
    <3>1. b \in Addr
      BY <1>7, <2>2 DEF IsFl
    <3> QED
      BY <3>1, Keys
  <2>4. CASE b = lo
    BY <1>11, <2>3, <2>4
  <2>5. CASE b # lo
    <3>1. b \in Blue(u)
      BY <2>1, <2>2, <2>5 DEF Blue
    <3> QED
      BY <1>1, <1>6, <1>11, <2>3, <3>1
  <2> QED
    BY <2>4, <2>5
<1>13. at + w \in Nat
  BY <1>4, <1>6
<1>14. \A b \in Blue(h) : b < at + w
  BY <1>9, <1>11, <1>12, <1>13
<1>15. LastBefore(Blue(h), h.merge, at + w)
  <2>1. LastBefore(Blue(h), h.merge, adj)
    BY <1>3 DEF Merged
  <2>2. h.merge \in Blue(h) \cup {FlHead} /\ \A b \in Blue(h) : h.merge # FlHead /\ b <= h.merge
    BY <1>12, <2>1 DEF LastBefore
  <2>3. h.merge = FlHead \/ h.merge < at + w
    BY <1>14, <2>2
  <2> QED
    BY <2>2, <2>3 DEF LastBefore
<1>16. h.fragment # Null => h.fragment < at + w
  <2> SUFFICES ASSUME h.fragment # Null PROVE h.fragment < at + w
    OBVIOUS
  <2>1. h.fragment < adj
    BY <1>3 DEF Merged, FragmentAt
  <2>2. h.fragment \in Nat
    <3>1. h.fragment \in Addr \cup {Null}
      BY <1>3 DEF Merged, IsFl
    <3> QED
      BY <3>1, Keys, Spots
  <2> QED
    BY <1>9, <1>11, <1>13, <2>1, <2>2
<1>17. \A b \in DOMAIN h.hd : h.hd[b].color # "black"
  <2> SUFFICES ASSUME NEW b \in DOMAIN h.hd, h.hd[b].color = "black" PROVE FALSE
    OBVIOUS
  <2>1. b \in DOMAIN u.hd /\ u.hd[b].color = "black"
    BY <1>10 DEF Held
  <2> QED
    BY <1>1, <2>1
<1>18. Part(h, p2, at + w)
  BY <1>3, <1>4, <1>9, <1>10, <1>13, <1>14, <1>15, <1>16, <1>17 DEF Part, Merged
<1>19. Held(h.hd) = Held(f.hd)
  BY <1>1, <1>10
<1>20. \A b \in Held(f.hd) : h.hd[b] = f.hd[b]
  <2>1. Held(f.hd) \subseteq DOMAIN f.hd
    BY DEF Held
  <2> QED
    BY <1>1, <1>10, <1>19, <2>1
<1> QED
  BY <1>2, <1>18, <1>19, <1>20 DEF MadeFree

\* All of the chunks are filled.
LEMMA PartIsAll ==
  ASSUME NEW f, NEW ch, NEW t, Part(f, ch, t), ChunksInv(ch)
  PROVE  GoodHeap(f, ch)
BY DEF Part, GoodHeap, Solid

\* Nothing is free.
NoneFree(f) ==
  /\ IsFl(f) /\ Blue(f) = {} /\ (\A a \in Spot : f.next[a] = Null) /\ f.size = 0 /\ f.merge = FlHead
  /\ f.fragment = Null
  /\ f.policy = "next fit" => f.prev = FlHead
  /\ f.policy = "first fit" => f.flp = << >> /\ f.beyond = Null

\* An empty free list is in order.
LEMMA NoneFreeIs ==
  ASSUME NEW f, NoneFree(f)
  PROVE  Threaded(f) /\ Tabled(f)
<1>1. Linked(f.next, {})
  <2>1. f.next[FlHead] = Null /\ \A a \in Addr : f.next[a] = Null
    BY Keys DEF NoneFree
  <2>2. After({}, FlHead) = {}
    BY DEF After
  <2> QED
    BY <2>1, <2>2 DEF Linked
<1>2. WordsOf(f, {}) = 0
  BY SumEmpty DEF WordsOf, SumFunction
<1>3. Threaded(f)
  BY <1>1, <1>2 DEF Threaded, NoneFree
<1>4. ASSUME f.policy = "first fit" PROVE Entries(Blue(f), f.flp) /\ Beyond(Blue(f), f.flp, f.beyond)
  <2>1. f.flp = << >> /\ f.beyond = Null
    BY <1>4 DEF NoneFree
  <2>2. Len(f.flp) = 0
    BY <2>1
  <2> QED
    BY <2>1, <2>2 DEF Entries, Beyond
<1> QED
  BY <1>3, <1>4 DEF Tabled

\* Blocks in use that fill the parts, with an empty free list.
LEMMA NoneFreePart ==
  ASSUME NEW f, NoneFree(f), NEW p, Chunky(p), Tiled(f.hd, p), Sound(f.hd), \A b \in DOMAIN f.hd : f.hd[b].color # "black"
  PROVE  Part(f, p, 0)
<1>1. Threaded(f) /\ Tabled(f)
  BY NoneFreeIs
<1>2. LastBefore(Blue(f), f.merge, 0)
  BY DEF NoneFree, LastBefore
<1> QED
  BY <1>1, <1>2 DEF Part, NoneFree

-----------------------------------------------------------------------------
(* The first heap *)

EmptyFl == [hd |-> << >>, next |-> [b \in Addr \cup {FlHead} |-> Null],
            policy |-> "next fit", prev |-> FlHead, merge |-> FlHead,
            fragment |-> Null, size |-> 0, flp |-> << >>, beyond |-> Null]

\* The free list that the program starts with.
LEMMA EmptyFlIs ==
  /\ NoneFree(EmptyFl) /\ Part(EmptyFl, [c \in {} |-> 0], 0) /\ DOMAIN EmptyFl.hd = {}
<1> DEFINE f == EmptyFl
<1>1. /\ f.hd = << >> /\ f.next = [b \in Spot |-> Null] /\ f.policy = "next fit" /\ f.prev = FlHead /\ f.merge = FlHead
      /\ f.fragment = Null /\ f.size = 0 /\ f.flp = << >> /\ f.beyond = Null
  BY DEF EmptyFl, Spot
<1>2. DOMAIN f.hd = {} /\ f.hd \in [DOMAIN f.hd -> Block]
  <2>1. DOMAIN << >> = {}
    OBVIOUS
  <2>2. << >> \in [{} -> Block]
    OBVIOUS
  <2>3. f.hd = << >>
    BY <1>1
  <2> HIDE DEF f
  <2> QED
    BY <2>1, <2>2, <2>3, Zenon
<1>4. IsFl(f)
  <2>1. f.next \in [Spot -> Addr \cup {Null}]
    BY <1>1
  <2>2. f.prev \in Spot /\ f.merge \in Spot
    BY <1>1, Keys
  <2>3. f.flp \in Seq(Spot)
    <3>1. << >> \in Seq(Spot)
      OBVIOUS
    <3>2. f.flp = << >>
      BY <1>1
    <3> HIDE DEF f
    <3> QED
      BY <3>1, <3>2, Zenon
  <2>4. Len(f.flp) <= FLP_MAX
    <3>1. Len(<< >>) = 0
      OBVIOUS
    <3>2. FLP_MAX \in Nat
      BY HeapAssumption
    <3>3. f.flp = << >>
      BY <1>1
    <3>4. Len(f.flp) = 0
      BY <3>1, <3>3, Zenon
    <3> HIDE DEF f
    <3> QED
      BY <3>2, <3>4
  <2>5. f.policy \in {"next fit", "first fit"} /\ f.fragment \in Addr \cup {Null} /\ f.size \in Int
        /\ f.beyond \in Addr \cup {Null}
    <3>1. f.policy \in {"next fit", "first fit"}
      BY <1>1
    <3>2. f.fragment = Null /\ f.beyond = Null
      BY <1>1
    <3>3. f.size \in Int
      <4>1. f.size = 0
        BY <1>1
      <4> HIDE DEF f
      <4> QED
        BY <4>1
    <3> HIDE DEF f
    <3> QED
      BY <3>1, <3>2, <3>3, Zenon
  <2>6. f = [hd |-> f.hd, next |-> f.next, policy |-> f.policy, prev |-> f.prev, merge |-> f.merge,
             fragment |-> f.fragment, size |-> f.size, flp |-> f.flp, beyond |-> f.beyond]
    BY <1>1, Zenon DEF EmptyFl, Spot
  <2> HIDE DEF f
  <2>7. f \in [hd : [DOMAIN f.hd -> Block], next : [Spot -> Addr \cup {Null}],
               policy : {"next fit", "first fit"}, prev : Spot, merge : Spot,
               fragment : Addr \cup {Null}, size : Int, flp : Seq(Spot), beyond : Addr \cup {Null}]
    BY <1>2, <2>1, <2>2, <2>3, <2>5, <2>6
  <2>8. DOMAIN f.hd \in SUBSET Addr
    BY <1>2
  <2> QED
    BY <2>4, <2>7, <2>8 DEF IsFl
<1>5. Blue(f) = {}
  BY <1>2 DEF Blue
<1>6. NoneFree(f)
  BY <1>1, <1>4, <1>5, Zenon DEF NoneFree
<1> DEFINE p == [c \in {} |-> 0]
<1>7. DOMAIN p = {}
  OBVIOUS
<1> HIDE DEF f, p
<1>8. Chunky(p)
  BY <1>7 DEF Chunky
<1>9. Tiled(f.hd, p) /\ Sound(f.hd) /\ \A b \in DOMAIN f.hd : f.hd[b].color # "black"
  BY <1>2, <1>7 DEF Tiled, Sound
<1>10. Part(f, p, 0)
  BY <1>6, <1>8, <1>9, NoneFreePart
<1> QED
  BY <1>2, <1>6, <1>10 DEF f, p

\* The first chunk.
LEMMA FirstHeap ==
  ASSUME NEW a \in 2..Words + 1 - InitialChunk
  PROVE  LET ch == MapsTo(a, InitialChunk)
         IN  /\ ChunksInv(ch) /\ Filled([c \in {} |-> 0], ch, a, InitialChunk, a) /\ 0 < a
             /\ a + InitialChunk \in Nat /\ a \in DOMAIN ch
<1> DEFINE ch == MapsTo(a, InitialChunk)
           p == [c \in {} |-> 0]
<1>1. InitialChunk \in 2..Words /\ Slack \in Nat /\ Slack < InitialChunk
  BY HeapAssumption
<1>2. Words \in Nat /\ a \in Nat /\ a >= 2 /\ a + InitialChunk <= Words + 1 /\ InitialChunk \in Nat /\ a <= Words
      /\ InitialChunk >= 2
  BY <1>1, Spots
<1>3. a \in Addr
  BY <1>2, Spots
<1>4. DOMAIN ch = {a} /\ ch[a] = InitialChunk /\ ch \in [{a} -> 2..Words] /\ DOMAIN p = {}
  BY <1>1 DEF MapsTo
<1> HIDE DEF ch, p
<1>5. ChunksInv(ch)
  <2>1. \A c \in DOMAIN ch : c + ch[c] <= Words + 1 /\ ch[c] > Slack
    BY <1>1, <1>2, <1>4
  <2>2. \A c, d \in DOMAIN ch : c < d => c + ch[c] < d
    BY <1>2, <1>4
  <2> QED
    BY <1>3, <1>4, <2>1, <2>2 DEF ChunksInv
<1>6. Chunky(p)
  BY <1>4 DEF Chunky
<1>7. Chunky(ch)
  <2>1. \A c \in DOMAIN ch : ch[c] \in Nat /\ ch[c] >= 1 /\ c + ch[c] <= Words + 1
    BY <1>2, <1>4
  <2>2. \A c, d \in DOMAIN ch : c < d => c + ch[c] < d
    BY <1>2, <1>4
  <2> QED
    BY <1>3, <1>4, <2>1, <2>2 DEF Chunky
<1>8. Filled(p, ch, a, InitialChunk, a)
  <2>1. InitialChunk \in Nat \ {0} /\ DOMAIN ch = DOMAIN p \cup {a} /\ DOMAIN p \ {a} = {}
    BY <1>2, <1>4
  <2>2. a = a + (IF a \in DOMAIN p THEN p[a] ELSE 0)
    BY <1>2, <1>4
  <2> QED
    BY <1>3, <1>4, <1>6, <1>7, <2>1, <2>2 DEF Filled
<1> QED
  BY <1>2, <1>4, <1>5, <1>8 DEF ch, p

\* Nothing is black between two cycles, and what is held is in use.
LEMMA IdleOK ==
  ASSUME NEW f, NEW ch, NEW t, Part(f, ch, t), ChunksInv(ch), NEW sw \in 0..Words + 1, NEW c \in DOMAIN ch, NEW lv,
         lv = [b \in Held(f.hd) |-> f.hd[b].wosize], \A b \in Held(f.hd) : f.hd[b].wosize \in Requests
  PROVE  HeapOK(f, ch, "idle", sw, c, lv)
<1>1. GoodHeap(f, ch) /\ \A b \in DOMAIN f.hd : f.hd[b].color # "black"
  BY PartIsAll DEF Part
<1>2. BlackIn(f.hd, "idle", sw)
  BY <1>1 DEF BlackIn
<1>3. UsedIn(f.hd, "idle", sw) = Held(f.hd)
  BY DEF UsedIn
<1>4. LiveIn(f.hd, "idle", sw, lv)
  BY <1>3 DEF LiveIn
<1> QED
  BY <1>1, <1>2, <1>4 DEF HeapOK

\* caml_init_major_heap establishes the invariant.
LEMMA InitStep ==
  ASSUME Init
  PROVE  IInv
<1>1. PICK a \in 2..Words + 1 - InitialChunk :
        chunks = MapsTo(a, InitialChunk) /\ chunk = a /\ fl = MakeFreeBlocks(EmptyFl, a, InitialChunk)
  BY Zenon DEF Init, EmptyFl
<1>2. phase = "idle" /\ sweep_hp = 0 /\ live = << >>
  BY DEF Init, Null
<1> DEFINE p == [c \in {} |-> 0]
<1>3. /\ ChunksInv(chunks) /\ Filled(p, chunks, a, InitialChunk, a) /\ 0 < a
      /\ a \in DOMAIN chunks
  BY <1>1, FirstHeap
<1>4. Part(EmptyFl, p, 0) /\ DOMAIN EmptyFl.hd = {}
  BY EmptyFlIs
<1> HIDE DEF p
<1>5. MadeFree(EmptyFl, fl, chunks, a + InitialChunk)
  BY <1>1, <1>3, <1>4, MakeFreeIs
<1>6. Held(fl.hd) = {}
  <2>1. Held(EmptyFl.hd) = {}
    BY <1>4 DEF Held
  <2> QED
    BY <1>5, <2>1 DEF MadeFree
<1>7. Part(fl, chunks, a + InitialChunk)
  BY <1>5 DEF MadeFree
<1>8. live = [b \in Held(fl.hd) |-> fl.hd[b].wosize]
  <2>1. << >> = [b \in {} |-> fl.hd[b].wosize]
    OBVIOUS
  <2> QED
    BY <1>2, <1>6, <2>1, Zenon
<1>9. \A b \in Held(fl.hd) : fl.hd[b].wosize \in Requests
  BY <1>6
<1>10. sweep_hp \in 0..Words + 1
  BY <1>2, Spots
<1>11. HeapOK(fl, chunks, "idle", sweep_hp, chunk, live)
  <2>1. chunk \in DOMAIN chunks
    BY <1>1, <1>3
  <2> QED
    BY <1>3, <1>7, <1>8, <1>9, <1>10, <2>1, IdleOK
<1> QED
  BY <1>2, <1>11 DEF IInv

-----------------------------------------------------------------------------
(* Compaction *)

\* The blocks of the sequence B are moved to the addresses of the sequence at.
Moved(B, at) == [a \in Range(at) |-> [wosize |-> live[B[Place(at, a)]], color |-> "white"]]
Distinct(at) == \A i, j \in 1..Len(at) : at[i] = at[j] => i = j

\* What the header of the i-th block is after the move.
MovedBlock(B, i) == [wosize |-> live[B[i]], color |-> "white"]

\* The blocks that are moved, by their new addresses.
LEMMA MovedIs ==
  ASSUME NEW B, NEW at \in Seq(Addr), Distinct(at)
  PROVE  /\ DOMAIN Moved(B, at) = {at[i] : i \in 1..Len(at)}
         /\ \A i \in 1..Len(at) : Moved(B, at)[at[i]] = MovedBlock(B, i)
<1> DEFINE n == Len(at)
<1>1. n \in Nat /\ DOMAIN at = 1..n
  OBVIOUS
<1> HIDE DEF n
<1>2. Range(at) = {at[i] : i \in 1..n}
  BY <1>1 DEF Range
<1>3. \A i \in 1..n : Place(at, at[i]) = i
  <2> SUFFICES ASSUME NEW i \in 1..n PROVE Place(at, at[i]) = i
    OBVIOUS
  <2>1. \A j \in 1..n : at[j] = at[i] => j = i
    BY DEF Distinct, n
  <2>2. \E j \in DOMAIN at : at[j] = at[i]
    BY <1>1
  <2>3. Place(at, at[i]) \in DOMAIN at /\ at[Place(at, at[i])] = at[i]
    BY <2>2 DEF Place
  <2> QED
    BY <1>1, <2>1, <2>3
<1>4. \A i \in 1..n : Moved(B, at)[at[i]] = MovedBlock(B, i)
  <2> SUFFICES ASSUME NEW i \in 1..n PROVE Moved(B, at)[at[i]] = MovedBlock(B, i)
    OBVIOUS
  <2>1. at[i] \in Range(at)
    BY <1>2
  <2>2. Moved(B, at)[at[i]] = [wosize |-> live[B[Place(at, at[i])]], color |-> "white"]
    BY <2>1, Zenon DEF Moved
  <2> QED
    BY <1>3, <2>2 DEF MovedBlock
<1> QED
  BY <1>2, <1>4 DEF Moved, n

\* hd2 is hd with the block of B that is moved to x.
OneMoved(B, hd, hd2, x, i) ==
  /\ DOMAIN hd2 = DOMAIN hd \cup {x} /\ hd2[x] = MovedBlock(B, i) /\ \A a \in DOMAIN hd : hd2[a] = hd[a]

\* One more block is moved.
LEMMA MovedAppend ==
  ASSUME NEW B, NEW at \in Seq(Addr), Distinct(at), NEW x \in Addr, x \notin DOMAIN Moved(B, at)
  PROVE  /\ Append(at, x) \in Seq(Addr) /\ Len(Append(at, x)) = Len(at) + 1 /\ Distinct(Append(at, x))
         /\ Append(at, x)[Len(at) + 1] = x /\ (\A i \in 1..Len(at) : Append(at, x)[i] = at[i])
         /\ OneMoved(B, Moved(B, at), Moved(B, Append(at, x)), x, Len(at) + 1)
<1> DEFINE n == Len(at)
           at2 == Append(at, x)
<1>1. n \in Nat /\ at2 \in Seq(Addr) /\ Len(at2) = n + 1 /\ at2[n + 1] = x /\ \A i \in 1..n : at2[i] = at[i]
  OBVIOUS
<1>2. x \notin {at[i] : i \in 1..n} /\ DOMAIN Moved(B, at) = {at[i] : i \in 1..n}
      /\ \A i \in 1..n : Moved(B, at)[at[i]] = MovedBlock(B, i)
  BY MovedIs
<1> HIDE DEF at2
<1>3. Distinct(at2)
  <2> SUFFICES ASSUME NEW i \in 1..n + 1, NEW j \in 1..n + 1, at2[i] = at2[j] PROVE i = j
    BY <1>1 DEF Distinct
  <2> HIDE DEF n
  <2>1. \A k \in 1..n + 1 : k = n + 1 \/ k \in 1..n
    BY <1>1
  <2>2. CASE i = n + 1 /\ j \in 1..n
    BY <1>1, <1>2, <2>2
  <2>3. CASE j = n + 1 /\ i \in 1..n
    BY <1>1, <1>2, <2>3
  <2>4. CASE i \in 1..n /\ j \in 1..n
    BY <1>1, <2>4 DEF Distinct, n
  <2> QED
    BY <2>1, <2>2, <2>3, <2>4
<1>4. /\ DOMAIN Moved(B, at2) = {at2[i] : i \in 1..n + 1}
      /\ \A i \in 1..n + 1 : Moved(B, at2)[at2[i]] = MovedBlock(B, i)
  BY <1>1, <1>3, MovedIs
<1> DEFINE h == Moved(B, at)
           h2 == Moved(B, at2)
<1> HIDE DEF h, h2, n
<1>5. DOMAIN h2 = DOMAIN h \cup {x}
  <2>1. {at2[i] : i \in 1..n + 1} = {at[i] : i \in 1..n} \cup {x}
    <3>1. 1..n + 1 = 1..n \cup {n + 1}
      BY <1>1
    <3> QED
      BY <1>1, <3>1
  <2> QED
    BY <1>2, <1>4, <2>1 DEF h, h2
<1>6. n + 1 \in 1..n + 1 /\ \A i \in 1..n : i \in 1..n + 1
  BY <1>1
<1>7. h2[x] = MovedBlock(B, n + 1)
  BY <1>1, <1>4, <1>6 DEF h2
<1>8. \A a \in DOMAIN h : h2[a] = h[a]
  <2> SUFFICES ASSUME NEW i \in 1..n PROVE h2[at[i]] = h[at[i]]
    BY <1>2 DEF h
  <2>1. h2[at2[i]] = MovedBlock(B, i)
    BY <1>4, <1>6 DEF h2
  <2> QED
    BY <1>1, <1>2, <2>1 DEF h
<1>9. OneMoved(B, h, h2, x, n + 1)
  BY <1>5, <1>7, <1>8 DEF OneMoved
<1> QED
  BY <1>1, <1>3, <1>9 DEF h, h2, at2, n

\* The blocks B of the heap, in order, are to be moved.
Packing(B) ==
  /\ Solid(fl, chunks) /\ B \in Seq(DOMAIN fl.hd) /\ \A i, j \in 1..Len(B) : i < j => B[i] < B[j]
  /\ \A i \in 1..Len(B) : live[B[i]] = fl.hd[B[i]].wosize /\ live[B[i]] > 0

\* The words of the chunks that were given out.
Parts(alloc) == [c \in {d \in DOMAIN chunks : alloc[d] > 0} |-> alloc[c]]

\* The blocks that are still to be moved are at or above what was given out.
Ahead(B, k, s) ==
  \A i \in k + 1..Len(B), c \in DOMAIN chunks :
    c <= B[i] /\ Stop(fl.hd, B[i]) <= c + chunks[c] =>
      s.fl <= c /\ c + s.alloc[c] <= B[i] /\ \A e \in DOMAIN chunks : c < e => s.alloc[e] = 0

\* The first k blocks have their places.
LaidOut(B, k, s) ==
  /\ s = [fl |-> s.fl, alloc |-> s.alloc, at |-> s.at]
  /\ s.fl \in DOMAIN chunks /\ s.alloc \in [DOMAIN chunks -> Nat] /\ \A c \in DOMAIN chunks : s.alloc[c] <= chunks[c]
  /\ s.at \in Seq(Addr) /\ Len(s.at) = k /\ Distinct(s.at) /\ \A i \in 1..k : s.at[i] <= B[i]
  /\ Tiled(Moved(B, s.at), Parts(s.alloc)) /\ Ahead(B, k, s)

\* The parts of CompactAllocate.
StopSet(s) ==
  {c \in DOMAIN chunks : /\ c >= s.fl
     /\ ~(/\ Room(c, s.alloc) <= Slack
          /\ ChunkNext(c) # Null /\ Room(ChunkNext(c), s.alloc) <= Slack)}
FitSet(s, size) == {c \in DOMAIN chunks : c >= Min(StopSet(s)) /\ Room(c, s.alloc) >= size}

\* The cases of compact_allocate.
LEMMA CompactAllocateParts ==
  ASSUME NEW s, NEW size, s.fl # Null
  PROVE  \/ CompactAllocate(s, size) = [s EXCEPT !.fl = Null]
         \/ FitSet(s, size) # {} /\
            CompactAllocate(s, size) =
              [fl |-> Min(StopSet(s)), alloc |-> [s.alloc EXCEPT ![Min(FitSet(s, size))] = @ + size],
               at |-> Append(s.at, Min(FitSet(s, size)) + s.alloc[Min(FitSet(s, size))])]
BY Zenon DEF CompactAllocate, StopSet, FitSet

\* The block b is in the chunk c.
InHeap(b, c) == c \in DOMAIN chunks /\ c <= b /\ Stop(fl.hd, b) <= c + chunks[c]

\* fl1 is where compact_fl is left, c the chunk that is given out from.
Chosen(s, size, b, fl1, c) ==
  /\ fl1 \in DOMAIN chunks /\ c \in DOMAIN chunks /\ fl1 <= c /\ s.alloc[c] + size <= chunks[c]
  /\ \A d : InHeap(b, d) => fl1 <= d /\ c <= d

\* A block to be moved, and its chunk.
LEMMA ChunkOfBlock ==
  ASSUME NEW B, Packing(B), NEW i \in 1..Len(B)
  PROVE  /\ \E c : InHeap(B[i], c)
         /\ B[i] \in DOMAIN fl.hd /\ B[i] \in Nat /\ B[i] \in Addr
         /\ Stop(fl.hd, B[i]) = B[i] + Whsize(fl, B[i]) /\ Whsize(fl, B[i]) = live[B[i]] + 1
         /\ Whsize(fl, B[i]) \in Nat /\ Whsize(fl, B[i]) >= 2
<1>1. B[i] \in DOMAIN fl.hd
  BY DEF Packing
<1>2. IsHeap(fl.hd) /\ Tiled(fl.hd, chunks)
  BY SolidIs DEF Packing, Solid
<1> DEFINE b == B[i]
<1>3. live[b] = fl.hd[b].wosize /\ live[b] > 0
  BY DEF Packing
<1> HIDE DEF b
<1>4. b \in DOMAIN fl.hd
  BY <1>1 DEF b
<1>5. b \in Nat /\ fl.hd[b].wosize \in Nat /\ Stop(fl.hd, b) = b + fl.hd[b].wosize + 1
  BY <1>2, <1>4, Stops
<1>6. b \in Addr
  BY <1>2, <1>4 DEF IsHeap
<1>7. Whsize(fl, b) = fl.hd[b].wosize + 1
  BY <1>6, Keys DEF Whsize, Wosize
<1>8. \E c : InHeap(b, c)
  BY <1>2, <1>4 DEF Tiled, InHeap
<1>9. /\ Stop(fl.hd, b) = b + Whsize(fl, b) /\ Whsize(fl, b) = live[b] + 1
      /\ Whsize(fl, b) \in Nat /\ Whsize(fl, b) >= 2
  BY <1>3, <1>5, <1>7
<1> QED
  BY <1>4, <1>5, <1>6, <1>8, <1>9 DEF b

\* The chunk that compact_allocate gives out from is not after that of the block.
LEMMA ChosenIs ==
  ASSUME NEW B, Packing(B), NEW k \in Nat, k + 1 <= Len(B), NEW s, LaidOut(B, k, s),
         FitSet(s, Whsize(fl, B[k + 1])) # {}
  PROVE  Chosen(s, Whsize(fl, B[k + 1]), B[k + 1], Min(StopSet(s)), Min(FitSet(s, Whsize(fl, B[k + 1]))))
<1> DEFINE b == B[k + 1]
           size == Whsize(fl, B[k + 1])
           stop == StopSet(s)
           fit == FitSet(s, size)
           fl1 == Min(stop)
           c1 == Min(fit)
<1>1. k + 1 \in 1..Len(B)
  <2>1. Len(B) \in Nat
    BY DEF Packing
  <2> QED
    BY <2>1
<1>2. /\ \E c : InHeap(b, c)
      /\ b \in Nat /\ Stop(fl.hd, b) = b + size /\ size \in Nat
  BY <1>1, ChunkOfBlock
<1>3. /\ s.fl \in DOMAIN chunks /\ s.alloc \in [DOMAIN chunks -> Nat]
  BY DEF LaidOut
<1>4. \A d : InHeap(b, d) => s.fl <= d /\ d + s.alloc[d] <= b /\ \A e \in DOMAIN chunks : d < e => s.alloc[e] = 0
  <2>1. k + 1 \in k + 1..Len(B)
    BY <1>1
  <2> QED
    BY <2>1 DEF LaidOut, Ahead, InHeap
<1> HIDE DEF b, size
<1>5. /\ DOMAIN chunks \in SUBSET Nat /\ (\A c \in DOMAIN chunks : c \in Nat /\ chunks[c] \in Nat /\ chunks[c] > Slack)
      /\ ChunksInv(chunks) /\ Slack \in Nat
  <2>1. ChunksInv(chunks) /\ Chunky(chunks)
    BY SolidIs DEF Packing, Solid
  <2> QED
    BY <2>1, Keys, HeapAssumption DEF ChunksInv, Chunky
<1>6. ASSUME NEW d, InHeap(b, d) PROVE d \in stop /\ (fl1 <= d => d \in fit)
  <2>1. d \in DOMAIN chunks /\ s.fl <= d /\ d + s.alloc[d] <= b /\ b + size <= d + chunks[d]
    BY <1>2, <1>4, <1>6 DEF InHeap
  <2>2. s.alloc[d] \in Nat /\ d \in Nat /\ chunks[d] \in Nat /\ s.fl \in Nat
    BY <1>3, <1>5, <2>1
  <2>3. Room(d, s.alloc) >= size
    BY <1>2, <2>1, <2>2 DEF Room
  <2>4. ASSUME ChunkNext(d) # Null PROVE ~ (Room(ChunkNext(d), s.alloc) <= Slack)
    <3>1. ChunkNext(d) \in DOMAIN chunks /\ d < ChunkNext(d)
      BY <1>5, <2>1, <2>4, NextChunk
    <3>2. s.alloc[ChunkNext(d)] = 0 /\ chunks[ChunkNext(d)] \in Nat /\ chunks[ChunkNext(d)] > Slack
      BY <1>4, <1>5, <1>6, <3>1
    <3> QED
      BY <1>5, <3>2 DEF Room
  <2>5. d >= s.fl
    BY <2>1, <2>2
  <2>6. d \in stop
    BY <2>1, <2>4, <2>5 DEF StopSet
  <2>7. ASSUME fl1 <= d PROVE d \in fit
    <3>1. fl1 \in Nat
      <4>1. stop \in SUBSET Nat
        BY <1>5 DEF StopSet
      <4>2. fl1 \in stop
        BY <2>6, <4>1, MinIs
      <4> QED
        BY <4>1, <4>2
    <3>2. d >= fl1
      BY <2>2, <2>7, <3>1
    <3> QED
      BY <2>1, <2>3, <3>2 DEF FitSet
  <2> QED
    BY <2>6, <2>7
<1>7. stop \in SUBSET Nat /\ fit \in SUBSET Nat /\ stop # {}
  <2>1. stop # {}
    BY <1>2, <1>6
  <2> QED
    BY <1>5, <2>1 DEF StopSet, FitSet
<1>8. fl1 \in stop /\ \A c \in stop : fl1 <= c
  <2> HIDE DEF stop
  <2> QED
    BY <1>7, MinIs
<1>9. c1 \in fit /\ \A c \in fit : c1 <= c
  <2>1. fit # {}
    BY DEF size
  <2> HIDE DEF fit
  <2> QED
    BY <1>7, <2>1, MinIs
<1>10. fl1 \in DOMAIN chunks /\ c1 \in DOMAIN chunks /\ c1 >= fl1 /\ Room(c1, s.alloc) >= size
  BY <1>8, <1>9 DEF StopSet, FitSet
<1>11. \A d : InHeap(b, d) => fl1 <= d /\ c1 <= d
  BY <1>6, <1>8, <1>9
<1> HIDE DEF fl1, c1
<1>12. fl1 <= c1 /\ s.alloc[c1] + size <= chunks[c1]
  <2>1. s.alloc[c1] \in Nat /\ chunks[c1] \in Nat /\ c1 \in Nat /\ fl1 \in Nat
    BY <1>3, <1>5, <1>10
  <2> QED
    BY <1>2, <1>10, <2>1 DEF Room
<1>13. Chosen(s, size, b, fl1, c1)
  BY <1>10, <1>11, <1>12 DEF Chosen
<1> QED
  BY <1>13 DEF fl1, c1, b, size

\* The blocks that are moved are white, and have words.
LEMMA MovedHeap ==
  ASSUME NEW B, Packing(B), NEW at \in Seq(Addr), Distinct(at), Len(at) <= Len(B)
  PROVE  /\ IsHeap(Moved(B, at)) /\ DOMAIN Moved(B, at) \in SUBSET Addr
         /\ \A a \in DOMAIN Moved(B, at) : Moved(B, at)[a].color = "white" /\ Moved(B, at)[a].wosize > 0
<1>1. /\ DOMAIN Moved(B, at) = {at[i] : i \in 1..Len(at)}
      /\ \A i \in 1..Len(at) : Moved(B, at)[at[i]] = MovedBlock(B, i)
  BY MovedIs
<1> DEFINE n == Len(at)
           h == Moved(B, at)
<1>2. n \in Nat /\ Len(B) \in Nat /\ \A i \in 1..n : at[i] \in Addr
  BY DEF Packing
<1> HIDE DEF n, h
<1>3. ASSUME NEW i \in 1..n PROVE MovedBlock(B, i) \in Block /\ MovedBlock(B, i).color = "white" /\ MovedBlock(B, i).wosize > 0
  <2>1. i \in 1..Len(B)
    BY <1>2 DEF n
  <2>2. live[B[i]] = fl.hd[B[i]].wosize /\ live[B[i]] > 0 /\ B[i] \in DOMAIN fl.hd
    BY <2>1 DEF Packing
  <2>3. fl.hd[B[i]] \in Block
    <3>1. IsHeap(fl.hd)
      BY SolidIs DEF Packing
    <3> QED
      BY <2>2, <3>1 DEF IsHeap
  <2>4. live[B[i]] \in 0..Words
    BY <2>2, <2>3 DEF Block
  <2> QED
    BY <2>2, <2>4 DEF MovedBlock, Block
<1>4. DOMAIN h = {at[i] : i \in 1..n} /\ \A i \in 1..n : h[at[i]] = MovedBlock(B, i)
  BY <1>1 DEF n, h
<1>5. DOMAIN h \in SUBSET Addr
  BY <1>2, <1>4
<1>6. \A a \in DOMAIN h : h[a] \in Block /\ h[a].color = "white" /\ h[a].wosize > 0
  BY <1>3, <1>4
<1> QED
  BY <1>5, <1>6 DEF IsHeap, h

\* What is given out of the chunks are parts of them.
LEMMA PartsChunky ==
  ASSUME ChunksInv(chunks), NEW alloc \in [DOMAIN chunks -> Nat], \A c \in DOMAIN chunks : alloc[c] <= chunks[c]
  PROVE  /\ Chunky(Parts(alloc)) /\ DOMAIN Parts(alloc) = {c \in DOMAIN chunks : alloc[c] > 0}
         /\ \A c \in DOMAIN Parts(alloc) : Parts(alloc)[c] = alloc[c]
<1> DEFINE p == Parts(alloc)
<1>1. DOMAIN p = {c \in DOMAIN chunks : alloc[c] > 0} /\ \A c \in DOMAIN p : p[c] = alloc[c]
  BY DEF Parts
<1> HIDE DEF p
<1>2. /\ DOMAIN chunks \in SUBSET Addr /\ \A c \in DOMAIN chunks : chunks[c] \in 2..Words /\ c + chunks[c] <= Words + 1
      /\ \A c, d \in DOMAIN chunks : c < d => c + chunks[c] < d
  BY DEF ChunksInv
<1>3. Words \in Nat /\ \A c \in DOMAIN chunks : c \in Nat /\ chunks[c] \in Nat /\ alloc[c] \in Nat
  BY <1>2, Keys, Spots
<1>4. DOMAIN p \in SUBSET Addr
  BY <1>1, <1>2
<1>5. \A c \in DOMAIN p : p[c] \in Nat /\ p[c] >= 1 /\ c + p[c] <= Words + 1
  BY <1>1, <1>2, <1>3
<1>6. \A c, d \in DOMAIN p : c < d => c + p[c] < d
  BY <1>1, <1>2, <1>3
<1>7. Chunky(p)
  BY <1>4, <1>5, <1>6 DEF Chunky
<1> QED
  BY <1>1, <1>7 DEF p

\* What is given out of one more chunk.
GivesOut(alloc, alloc2, c, size) ==
  /\ alloc2 \in [DOMAIN chunks -> Nat] /\ alloc2[c] = alloc[c] + size /\ \A e \in DOMAIN chunks \ {c} : alloc2[e] = alloc[e]
  /\ \A e \in DOMAIN chunks : alloc2[e] <= chunks[e]

\* Giving out some words more of a chunk.
LEMMA GivesOutIs ==
  ASSUME ChunksInv(chunks), NEW alloc \in [DOMAIN chunks -> Nat], \A e \in DOMAIN chunks : alloc[e] <= chunks[e],
         NEW c \in DOMAIN chunks, NEW size \in Nat \ {0}, alloc[c] + size <= chunks[c]
  PROVE  /\ GivesOut(alloc, [alloc EXCEPT ![c] = @ + size], c, size)
         /\ Filled(Parts(alloc), Parts([alloc EXCEPT ![c] = @ + size]), c, size, c + alloc[c])
<1> DEFINE alloc2 == [alloc EXCEPT ![c] = @ + size]
<1>1. alloc2 \in [DOMAIN chunks -> Nat] /\ alloc2[c] = alloc[c] + size /\ \A e \in DOMAIN chunks \ {c} : alloc2[e] = alloc[e]
  OBVIOUS
<1> HIDE DEF alloc2
<1>2. \A e \in DOMAIN chunks : alloc2[e] <= chunks[e]
  BY <1>1
<1>3. GivesOut(alloc, alloc2, c, size)
  BY <1>1, <1>2 DEF GivesOut
<1> DEFINE p == Parts(alloc)
           p2 == Parts(alloc2)
<1>4. Chunky(p) /\ DOMAIN p = {e \in DOMAIN chunks : alloc[e] > 0} /\ \A e \in DOMAIN p : p[e] = alloc[e]
  BY PartsChunky
<1>5. Chunky(p2) /\ DOMAIN p2 = {e \in DOMAIN chunks : alloc2[e] > 0} /\ \A e \in DOMAIN p2 : p2[e] = alloc2[e]
  BY <1>1, <1>2, PartsChunky
<1> HIDE DEF p, p2
<1>6. c \in Addr /\ c \in Nat /\ alloc[c] \in Nat /\ alloc2[c] > 0
  <2>1. c \in Addr
    BY DEF ChunksInv
  <2> QED
    BY <1>1, <2>1, Keys
<1>7. DOMAIN p2 = DOMAIN p \cup {c}
  BY <1>1, <1>4, <1>5, <1>6
<1>8. \A e \in DOMAIN p \ {c} : p2[e] = p[e]
  BY <1>1, <1>4, <1>5, <1>7
<1>9. c + alloc[c] = c + (IF c \in DOMAIN p THEN p[c] ELSE 0)
  BY <1>4, <1>6
<1>10. c + p2[c] = (c + alloc[c]) + size
  BY <1>1, <1>5, <1>6, <1>7
<1>11. Filled(p, p2, c, size, c + alloc[c])
  BY <1>4, <1>5, <1>6, <1>7, <1>8, <1>9, <1>10 DEF Filled
<1> QED
  BY <1>3, <1>11 DEF p, p2, alloc2

\* The state of the layout once the block B[k + 1] has got its place in the chunk c.
Next1(s, s2, size, fl1, c) ==
  /\ s2 = [fl |-> s2.fl, alloc |-> s2.alloc, at |-> s2.at]
  /\ s2.fl = fl1 /\ GivesOut(s.alloc, s2.alloc, c, size) /\ s2.at = Append(s.at, c + s.alloc[c])

\* The blocks still to be moved stay ahead of what is given out, and a block moves down or stays.
LEMMA AheadStays ==
  ASSUME NEW B, Packing(B), NEW k \in Nat, k + 1 <= Len(B), NEW s, LaidOut(B, k, s), NEW fl1, NEW c, NEW s2,
         Chosen(s, Whsize(fl, B[k + 1]), B[k + 1], fl1, c), Next1(s, s2, Whsize(fl, B[k + 1]), fl1, c)
  PROVE  Ahead(B, k + 1, s2) /\ c + s.alloc[c] <= B[k + 1]
<1> DEFINE b == B[k + 1]
           size == Whsize(fl, B[k + 1])
<1>1. Len(B) \in Nat /\ k + 1 \in 1..Len(B)
  <2>1. Len(B) \in Nat
    BY DEF Packing
  <2> QED
    BY <2>1
<1>2. /\ \E d : InHeap(b, d)
      /\ b \in Nat /\ Stop(fl.hd, b) = b + size /\ size \in Nat
  BY <1>1, ChunkOfBlock
<1>3. ChunksInv(chunks) /\ Chunky(chunks) /\ Apart(fl.hd) /\ IsHeap(fl.hd)
  BY SolidIs DEF Packing, Solid
<1>4. \A d \in DOMAIN chunks : d \in Nat /\ chunks[d] \in Nat /\ s.alloc[d] \in Nat
  <2>1. s.alloc \in [DOMAIN chunks -> Nat]
    BY DEF LaidOut
  <2> QED
    BY <1>3, <2>1, Keys DEF Chunky
<1>5. \A i \in k + 1..Len(B) : \A d : InHeap(B[i], d) =>
        s.fl <= d /\ d + s.alloc[d] <= B[i] /\ \A e \in DOMAIN chunks : d < e => s.alloc[e] = 0
  BY DEF LaidOut, Ahead, InHeap
<1>6. /\ fl1 \in DOMAIN chunks /\ c \in DOMAIN chunks /\ fl1 <= c /\ s.alloc[c] + size <= chunks[c]
      /\ \A d : InHeap(b, d) => fl1 <= d /\ c <= d
  BY DEF Chosen
<1>7. s2.fl = fl1 /\ s2.alloc[c] = s.alloc[c] + size /\ \A e \in DOMAIN chunks \ {c} : s2.alloc[e] = s.alloc[e]
  BY DEF Next1, GivesOut
<1>8. k + 1 \in k + 1..Len(B)
  BY <1>1
<1>9. PICK d : InHeap(b, d)
  BY <1>2
<1>10. d \in DOMAIN chunks /\ d <= b /\ d + s.alloc[d] <= b /\ b + size <= d + chunks[d] /\ c <= d /\ fl1 <= d
  <2>1. d + s.alloc[d] <= B[k + 1]
    BY <1>5, <1>8, <1>9
  <2> QED
    BY <1>2, <1>6, <1>9, <2>1 DEF InHeap
<1> HIDE DEF b, size
<1>11. c + s.alloc[c] <= b
  <2>1. CASE c = d
    BY <1>10, <2>1
  <2>2. CASE c < d
    <3>1. c + chunks[c] < d
      BY <1>3, <1>6, <1>10, <2>2 DEF Chunky
    <3>2. c \in Nat /\ d \in Nat /\ chunks[c] \in Nat /\ s.alloc[c] \in Nat /\ s.alloc[c] + size <= chunks[c] /\ d <= b
      BY <1>4, <1>6, <1>10
    <3>3. \A u, v, w, y, z, q \in Nat : u + v < y /\ w + z <= v /\ y <= q => u + w <= q
      OBVIOUS
    <3>4. c + chunks[c] < d /\ s.alloc[c] + size <= chunks[c] /\ d <= b => c + s.alloc[c] <= b
      BY <1>2, <3>2, <3>3
    <3> QED
      BY <3>1, <3>2, <3>4
  <2> QED
    BY <1>4, <1>6, <1>10, <2>1, <2>2
<1>12. ASSUME NEW i \in k + 1 + 1..Len(B), NEW x \in DOMAIN chunks, InHeap(B[i], x)
       PROVE  s2.fl <= x /\ x + s2.alloc[x] <= B[i] /\ \A e \in DOMAIN chunks : x < e => s2.alloc[e] = 0
  <2>1. i \in k + 1..Len(B) /\ i \in 1..Len(B) /\ k + 1 < i
    BY <1>1
  <2>2. b < B[i] /\ B[i] \in Nat /\ B[i] \in DOMAIN fl.hd /\ b \in DOMAIN fl.hd
    <3>1. b < B[i]
      BY <1>1, <2>1 DEF Packing, b
    <3> QED
      BY <1>1, <2>1, <3>1, ChunkOfBlock DEF b
  <2>3. b + size <= B[i]
    BY <1>2, <1>3, <2>2 DEF Apart
  <2>4. s.fl <= x /\ x + s.alloc[x] <= B[i] /\ \A e \in DOMAIN chunks : x < e => s.alloc[e] = 0
    BY <1>5, <1>12, <2>1
  <2>5. x <= B[i] /\ B[i] < x + chunks[x]
    <3>1. x <= B[i] /\ Stop(fl.hd, B[i]) <= x + chunks[x]
      BY <1>12 DEF InHeap
    <3>2. B[i] < Stop(fl.hd, B[i]) /\ Stop(fl.hd, B[i]) \in Nat
      BY <1>3, <2>2, Stops
    <3> QED
      BY <1>4, <2>2, <3>1, <3>2
  <2>6. d <= x
    <3> SUFFICES ASSUME x < d PROVE FALSE
      BY <1>4, <1>10
    <3>1. x + chunks[x] < d
      BY <1>3, <1>10 DEF Chunky
    <3> QED
      BY <1>2, <1>4, <1>10, <2>2, <2>5, <3>1
  <2>7. s2.fl <= x
    BY <1>4, <1>6, <1>7, <1>10, <2>6
  <2>8. x + s2.alloc[x] <= B[i]
    <3>1. CASE x = c
      <4>1. x + s.alloc[x] + size <= b + size
        BY <1>2, <1>4, <1>11, <3>1
      <4>2. x \in Nat /\ s.alloc[x] \in Nat /\ s2.alloc[x] = s.alloc[x] + size
        BY <1>4, <1>7, <3>1
      <4>3. x + s2.alloc[x] = x + s.alloc[x] + size
        BY <1>2, <4>2
      <4> QED
        BY <1>2, <2>2, <2>3, <4>1, <4>2, <4>3
    <3>2. CASE x # c
      BY <1>7, <2>4, <3>2
    <3> QED
      BY <3>1, <3>2
  <2>9. ASSUME NEW e \in DOMAIN chunks, x < e PROVE s2.alloc[e] = 0
    <3>1. e # c
      BY <1>4, <1>6, <1>10, <2>6, <2>9
    <3> QED
      BY <1>7, <2>4, <2>9, <3>1
  <2> QED
    BY <2>7, <2>8, <2>9
<1>13. Ahead(B, k + 1, s2)
  BY <1>12 DEF Ahead, InHeap
<1> QED
  BY <1>11, <1>13 DEF b

\* One block more has its place.
LEMMA LaidOutNext ==
  ASSUME NEW B, Packing(B), NEW k \in Nat, k + 1 <= Len(B), NEW s, LaidOut(B, k, s), NEW fl1, NEW c, NEW s2,
         Chosen(s, Whsize(fl, B[k + 1]), B[k + 1], fl1, c), Next1(s, s2, Whsize(fl, B[k + 1]), fl1, c),
         Filled(Parts(s.alloc), Parts(s2.alloc), c, Whsize(fl, B[k + 1]), c + s.alloc[c])
  PROVE  LaidOut(B, k + 1, s2)
<1> DEFINE b == B[k + 1]
           size == Whsize(fl, B[k + 1])
           x == c + s.alloc[c]
           h == Moved(B, s.at)
           p == Parts(s.alloc)
           p2 == Parts(s2.alloc)
<1>1. Len(B) \in Nat /\ k + 1 \in 1..Len(B)
  <2>1. Len(B) \in Nat
    BY DEF Packing
  <2> QED
    BY <2>1
<1>2. Ahead(B, k + 1, s2) /\ x <= b
  BY AheadStays
<1>3. size = live[b] + 1 /\ size \in Nat
  BY <1>1, ChunkOfBlock
<1>4. /\ s.at \in Seq(Addr) /\ Len(s.at) = k /\ Distinct(s.at) /\ (\A i \in 1..k : s.at[i] <= B[i])
      /\ Tiled(h, p)
  BY DEF LaidOut
<1>5. fl1 \in DOMAIN chunks
  BY DEF Chosen
<1>6. /\ s2.fl = fl1 /\ s2.alloc \in [DOMAIN chunks -> Nat] /\ (\A e \in DOMAIN chunks : s2.alloc[e] <= chunks[e])
      /\ s2.at = Append(s.at, x) /\ s2 = [fl |-> s2.fl, alloc |-> s2.alloc, at |-> s2.at]
  BY DEF Next1, GivesOut
<1>7. IsHeap(h)
  <2>1. Len(s.at) <= Len(B)
    BY <1>1, <1>4
  <2> QED
    BY <1>4, <2>1, MovedHeap
<1>8. x \in Addr /\ x \notin DOMAIN h
  <2>1. Filled(p, p2, c, size, x)
    OBVIOUS
  <2> HIDE DEF h, p, p2, x, size
  <2>2. x \in Addr /\ \A y \in DOMAIN h : (y < x /\ Stop(h, y) <= x) \/ x + size <= y
    BY <1>4, <1>7, <2>1, WordsAreFree
  <2>3. x \in Nat /\ size \in Nat \ {0}
    BY <2>1, <2>2, Keys DEF Filled
  <2>4. \A y \in DOMAIN h : y \in Nat
    BY <1>7, Stops
  <2> QED
    BY <2>2, <2>3, <2>4
<1>9. /\ s2.at \in Seq(Addr) /\ Len(s2.at) = k + 1 /\ Distinct(s2.at) /\ s2.at[k + 1] = x
      /\ (\A i \in 1..k : s2.at[i] = s.at[i])
      /\ OneMoved(B, h, Moved(B, s2.at), x, k + 1)
  <2> HIDE DEF x
  <2> QED
    BY <1>4, <1>6, <1>8, MovedAppend
<1> DEFINE h2 == Moved(B, s2.at)
<1>10. IsHeap(h2)
  <2>1. Len(s2.at) <= Len(B)
    BY <1>1, <1>9
  <2> QED
    BY <1>9, <2>1, MovedHeap
<1>11. Laid(h, h2, x, size)
  <2> HIDE DEF h, h2, x, size, b
  <2>1. DOMAIN h2 = DOMAIN h \cup {x} /\ h2[x] = MovedBlock(B, k + 1) /\ \A a \in DOMAIN h : h2[a] = h[a]
    BY <1>9 DEF OneMoved, h2
  <2>2. h2[x].wosize = live[b]
    BY <2>1 DEF MovedBlock, b
  <2>3. live[b] = size - 1
    <3>1. live[b] \in Int
      <4>1. live[b] = fl.hd[b].wosize /\ b \in DOMAIN fl.hd
        BY <1>1 DEF Packing, b
      <4>2. IsHeap(fl.hd)
        BY SolidIs DEF Packing
      <4> QED
        BY <4>1, <4>2, Stops
    <3> QED
      BY <1>3, <3>1
  <2>4. h2[x].wosize = size - 1
    BY <2>2, <2>3
  <2> QED
    BY <1>10, <2>1, <2>4 DEF Laid
<1>12. Tiled(h2, p2)
  <2>1. Filled(p, p2, c, size, x)
    OBVIOUS
  <2> HIDE DEF h, h2, p, p2, x, size
  <2> QED
    BY <1>4, <1>7, <1>11, <2>1, TileExtend, ZenonT(30)
<1>13. \A i \in 1..k + 1 : s2.at[i] <= B[i]
  <2> SUFFICES ASSUME NEW i \in 1..k + 1 PROVE s2.at[i] <= B[i]
    OBVIOUS
  <2> HIDE DEF x
  <2>1. i = k + 1 \/ i \in 1..k
    OBVIOUS
  <2> QED
    BY <1>2, <1>4, <1>9, <2>1
<1> HIDE DEF h2, p2
<1>14. Tiled(Moved(B, s2.at), Parts(s2.alloc))
  BY <1>12 DEF h2, p2
<1> QED
  BY <1>2, <1>5, <1>6, <1>9, <1>13, <1>14 DEF LaidOut

\* One block more, or there is no place.
LEMMA LaidOutStep ==
  ASSUME NEW B, Packing(B), NEW k \in Nat, k + 1 <= Len(B), NEW s, LaidOut(B, k, s)
  PROVE  LET s2 == CompactAllocate(s, Whsize(fl, B[k + 1]))
         IN  s2.fl = Null \/ LaidOut(B, k + 1, s2)
<1> DEFINE size == Whsize(fl, B[k + 1])
           fl1 == Min(StopSet(s))
           c == Min(FitSet(s, size))
           t == [fl |-> fl1, alloc |-> [s.alloc EXCEPT ![c] = @ + size], at |-> Append(s.at, c + s.alloc[c])]
           s2 == CompactAllocate(s, size)
<1>1. s.fl # Null
  <2>1. s.fl \in DOMAIN chunks /\ DOMAIN chunks \in SUBSET Addr
    BY SolidIs DEF LaidOut, Packing, Chunky
  <2> QED
    BY <2>1, Keys
<1>2. CASE s2 = [s EXCEPT !.fl = Null]
  <2>1. s = [fl |-> s.fl, alloc |-> s.alloc, at |-> s.at]
    BY DEF LaidOut
  <2>2. [s EXCEPT !.fl = Null].fl = Null
    BY <2>1
  <2> QED
    BY <1>2, <2>2
<1>3. CASE FitSet(s, size) # {} /\ s2 = t
  <2>1. Chosen(s, size, B[k + 1], fl1, c)
    BY <1>3, ChosenIs
  <2>2. size \in Nat \ {0}
    <3>1. k + 1 \in 1..Len(B)
      <4>1. Len(B) \in Nat
        BY DEF Packing
      <4> QED
        BY <4>1
    <3>2. size \in Nat /\ size >= 2
      BY <3>1, ChunkOfBlock
    <3> QED
      BY <3>2
  <2>3. c \in DOMAIN chunks /\ s.alloc[c] + size <= chunks[c] /\ ChunksInv(chunks)
    BY <2>1 DEF Chosen, Packing, Solid
  <2>4. s.alloc \in [DOMAIN chunks -> Nat] /\ \A e \in DOMAIN chunks : s.alloc[e] <= chunks[e]
    BY DEF LaidOut
  <2>5. t.fl = fl1 /\ t.alloc = [s.alloc EXCEPT ![c] = @ + size] /\ t.at = Append(s.at, c + s.alloc[c])
        /\ t = [fl |-> t.fl, alloc |-> t.alloc, at |-> t.at]
    OBVIOUS
  <2> HIDE DEF c, fl1, size
  <2>6. GivesOut(s.alloc, t.alloc, c, size) /\ Filled(Parts(s.alloc), Parts(t.alloc), c, size, c + s.alloc[c])
    BY <2>2, <2>3, <2>4, <2>5, GivesOutIs
  <2>7. Next1(s, t, size, fl1, c)
    BY <2>5, <2>6 DEF Next1
  <2> HIDE DEF t
  <2>8. LaidOut(B, k + 1, t)
    BY <2>1, <2>6, <2>7, LaidOutNext DEF size
  <2> QED
    BY <1>3, <2>8 DEF size
<1> QED
  BY <1>1, <1>2, <1>3, CompactAllocateParts

LayoutStart == [fl |-> Min(DOMAIN chunks), alloc |-> [c \in DOMAIN chunks |-> 0], at |-> << >>]
LayoutNext(B, s, k) == CompactAllocate(s, Whsize(fl, B[k]))

\* The layout, block by block, as a function.
LEMMA LayoutExists ==
  ASSUME NEW B
  PROVE  \A N \in Nat : \E w : w = [k \in 0..N |-> IF k = 0 THEN LayoutStart ELSE LayoutNext(B, w[k - 1], k)]
<1> DEFINE S == {N \in Nat : \E w : w = [k \in 0..N |-> IF k = 0 THEN LayoutStart ELSE LayoutNext(B, w[k - 1], k)]}
<1>1. 0 \in S
  <2> DEFINE g == [n \in 0 .. 0 |-> LayoutStart]
  <2>1. g = [n \in 0 .. 0 |-> IF n = 0 THEN LayoutStart ELSE LayoutNext(B, g[n - 1], n)]
    OBVIOUS
  <2> HIDE DEF g
  <2> QED
    BY <2>1
<1>2. \A N \in Nat : N \in S => N + 1 \in S
  <2> SUFFICES ASSUME NEW N \in Nat, N \in S PROVE N + 1 \in S
    OBVIOUS
  <2>1. PICK w : w = [n \in 0 .. N |-> IF n = 0 THEN LayoutStart ELSE LayoutNext(B, w[n - 1], n)]
    OBVIOUS
  <2> DEFINE g == [n \in 0 .. N + 1 |-> IF n = 0 THEN LayoutStart ELSE LayoutNext(B, w[n - 1], n)]
  <2>2. \A n \in 0 .. N : g[n] = w[n]
    <3> SUFFICES ASSUME NEW n \in 0 .. N PROVE g[n] = w[n]
      OBVIOUS
    <3>1. w[n] = IF n = 0 THEN LayoutStart ELSE LayoutNext(B, w[n - 1], n)
      BY <2>1
    <3> QED
      BY <3>1
  <2>3. g = [n \in 0 .. N + 1 |-> IF n = 0 THEN LayoutStart ELSE LayoutNext(B, g[n - 1], n)]
    <3>1. \A n \in 0 .. N + 1 : n # 0 => n - 1 \in 0 .. N
      OBVIOUS
    <3>2. \A n \in 0 .. N + 1 : n # 0 => g[n - 1] = w[n - 1]
      BY <3>1, <2>2
    <3>3. g = [n \in 0 .. N + 1 |-> IF n = 0 THEN LayoutStart ELSE LayoutNext(B, w[n - 1], n)]
      OBVIOUS
    <3> HIDE DEF g
    <3>4. \A n \in 0 .. N + 1 : (IF n = 0 THEN LayoutStart ELSE LayoutNext(B, w[n - 1], n))
                               = (IF n = 0 THEN LayoutStart ELSE LayoutNext(B, g[n - 1], n))
      BY <3>2
    <3> QED
      BY <3>3, <3>4
  <2> HIDE DEF g
  <2> QED
    BY <2>3
<1> HIDE DEF S
<1>3. \A N \in Nat : N \in S
  BY <1>1, <1>2, SetInduction
<1> QED
  BY <1>3 DEF S

\* Layout(B) is what that function gives for all of the blocks.
LEMMA LayoutWalks ==
  ASSUME NEW B, Len(B) \in Nat
  PROVE  \E w : /\ w = [k \in 0..Len(B) |-> IF k = 0 THEN LayoutStart ELSE LayoutNext(B, w[k - 1], k)]
                /\ Layout(B) = w[Len(B)]
<1> DEFINE w == CHOOSE w : w = [k \in 0..Len(B) |-> IF k = 0 THEN LayoutStart ELSE LayoutNext(B, w[k - 1], k)]
<1>1. w = [k \in 0..Len(B) |-> IF k = 0 THEN LayoutStart ELSE LayoutNext(B, w[k - 1], k)]
  BY LayoutExists
<1>2. Layout(B) = w[Len(B)]
  BY DEF Layout, LayoutStart, LayoutNext
<1> HIDE DEF w
<1> QED
  BY <1>1, <1>2

\* At the start nothing is given out.
LEMMA LayoutStartOK ==
  ASSUME NEW B, Packing(B)
  PROVE  LaidOut(B, 0, LayoutStart)
<1> DEFINE s == LayoutStart
           h == Moved(B, << >>)
           alloc == [c \in DOMAIN chunks |-> 0]
           p == Parts(alloc)
<1>1. ChunksInv(chunks) /\ Chunky(chunks)
  BY SolidIs DEF Packing, Solid
<1>2. Min(DOMAIN chunks) \in DOMAIN chunks /\ \A c \in DOMAIN chunks : Min(DOMAIN chunks) <= c
  BY <1>1, FirstChunk
<1>3. s = [fl |-> s.fl, alloc |-> s.alloc, at |-> s.at] /\ s.fl = Min(DOMAIN chunks) /\ s.alloc = alloc /\ s.at = << >>
  BY DEF LayoutStart
<1>4. alloc \in [DOMAIN chunks -> Nat] /\ \A c \in DOMAIN chunks : alloc[c] = 0
  OBVIOUS
<1>5. \A c \in DOMAIN chunks : c \in Nat /\ chunks[c] \in Nat /\ alloc[c] <= chunks[c]
  BY <1>1, <1>4, Keys DEF Chunky
<1>6. << >> \in Seq(Addr) /\ Len(<< >>) = 0
  OBVIOUS
<1>7. Distinct(<< >>)
  BY <1>6 DEF Distinct
<1> HIDE DEF s, alloc
<1>8. DOMAIN h = {}
  <2>1. DOMAIN h = {<< >>[i] : i \in 1..0}
    BY <1>6, <1>7, MovedIs
  <2> HIDE DEF h
  <2> QED
    BY <2>1
<1>9. DOMAIN p = {}
  BY <1>4 DEF Parts
<1>10. Tiled(h, p)
  <2> HIDE DEF h, p
  <2> QED
    BY <1>8, <1>9 DEF Tiled
<1>11. Ahead(B, 0, s)
  <2> SUFFICES ASSUME NEW i \in 0 + 1..Len(B), NEW c \in DOMAIN chunks, c <= B[i]
               PROVE  s.fl <= c /\ c + s.alloc[c] <= B[i] /\ \A e \in DOMAIN chunks : c < e => s.alloc[e] = 0
    BY DEF Ahead
  <2>1. c + s.alloc[c] = c
    BY <1>3, <1>4, <1>5
  <2> QED
    BY <1>2, <1>3, <1>4, <2>1
<1>12. \A i \in 1..0 : s.at[i] <= B[i]
  OBVIOUS
<1>13. Tiled(Moved(B, s.at), Parts(s.alloc))
  BY <1>3, <1>10
<1>14. Len(s.at) = 0 /\ s.at \in Seq(Addr) /\ Distinct(s.at)
  BY <1>3, <1>6, <1>7
<1>15. s.fl \in DOMAIN chunks /\ s.alloc \in [DOMAIN chunks -> Nat] /\ \A c \in DOMAIN chunks : s.alloc[c] <= chunks[c]
  BY <1>2, <1>3, <1>4, <1>5
<1> HIDE DEF p, h
<1>16. LaidOut(B, 0, s)
  BY <1>3, <1>11, <1>12, <1>13, <1>14, <1>15 DEF LaidOut
<1> QED
  BY <1>16 DEF s

\* Once compact_fl is Null it stays so.
LEMMA NullStays ==
  ASSUME NEW s, NEW size, s.fl = Null
  PROVE  CompactAllocate(s, size) = s
BY DEF CompactAllocate

\* Every block has its place, or the code runs off the end of the chain.
LEMMA LayoutIs ==
  ASSUME NEW B, Packing(B)
  PROVE  Layout(B).fl = Null \/ LaidOut(B, Len(B), Layout(B))
<1>1. Len(B) \in Nat
  BY DEF Packing
<1>2. PICK w : /\ w = [k \in 0..Len(B) |-> IF k = 0 THEN LayoutStart ELSE LayoutNext(B, w[k - 1], k)]
               /\ Layout(B) = w[Len(B)]
  BY <1>1, LayoutWalks
<1> DEFINE S == {k \in Nat : k <= Len(B) => w[k].fl = Null \/ LaidOut(B, k, w[k])}
<1>3. 0 \in S
  <2>1. 0 \in 0..Len(B)
    BY <1>1
  <2>2. w[0] = LayoutStart
    BY <1>2, <2>1
  <2> QED
    BY <2>2, LayoutStartOK
<1>4. \A k \in Nat : k \in S => k + 1 \in S
  <2> SUFFICES ASSUME NEW k \in Nat, k \in S, k + 1 <= Len(B)
               PROVE  w[k + 1].fl = Null \/ LaidOut(B, k + 1, w[k + 1])
    OBVIOUS
  <2>1. k + 1 \in 0..Len(B) /\ k + 1 # 0 /\ k + 1 - 1 = k /\ k <= Len(B)
    BY <1>1
  <2>2. w[k + 1] = LayoutNext(B, w[k], k + 1)
    BY <1>2, <2>1
  <2>3. w[k + 1] = CompactAllocate(w[k], Whsize(fl, B[k + 1]))
    BY <2>2 DEF LayoutNext
  <2>4. CASE w[k].fl = Null
    BY <2>3, <2>4, NullStays
  <2>5. CASE LaidOut(B, k, w[k])
    BY <2>3, <2>5, LaidOutStep
  <2> QED
    BY <2>1, <2>4, <2>5
<1> HIDE DEF S
<1>5. \A k \in Nat : k \in S
  BY <1>3, <1>4, SetInduction
<1>6. Len(B) <= Len(B) => w[Len(B)].fl = Null \/ LaidOut(B, Len(B), w[Len(B)])
  BY <1>1, <1>5 DEF S
<1>7. Len(B) <= Len(B)
  BY <1>1
<1> QED
  BY <1>2, <1>6, <1>7, Zenon

\* Zero is a number.
LEMMA ZeroIs == 0 \in Int
OBVIOUS

\* The free list is emptied, with the blocks hd.
Emptied(hd, h) == NoneFree(h) /\ h.hd = hd

\* A record with an empty list is an empty free list.
LEMMA EmptiedIs ==
  ASSUME NEW f, IsFl(f), NEW hd, IsHeap(hd), hd = [b \in DOMAIN hd |-> hd[b]], \A b \in DOMAIN hd : hd[b].color # "blue",
         NEW h, h = [hd |-> h.hd, next |-> h.next, policy |-> h.policy, prev |-> h.prev, merge |-> h.merge,
                     fragment |-> h.fragment, size |-> h.size, flp |-> h.flp, beyond |-> h.beyond],
         h.hd = hd, h.next = [b \in Spot |-> Null], h.policy = f.policy, h.merge = FlHead, h.fragment = Null, h.size = 0,
         h.prev \in Spot, h.flp \in Seq(Spot), Len(h.flp) <= FLP_MAX, h.beyond \in Addr \cup {Null},
         h.policy = "next fit" => h.prev = FlHead, h.policy = "first fit" => h.flp = << >> /\ h.beyond = Null
  PROVE  Emptied(hd, h)
<1>1. hd \in [DOMAIN hd -> Block] /\ DOMAIN hd \in SUBSET Addr
  BY DEF IsHeap
<1>2. f.policy \in {"next fit", "first fit"}
  BY DEF IsFl
<1>3. h.next \in [Spot -> Addr \cup {Null}] /\ \A a \in Spot : h.next[a] = Null
  BY Zenon
<1>4. h.merge \in Spot /\ h.fragment \in Addr \cup {Null}
  BY Keys
<1>5. h.size \in Int
  BY ZeroIs, Zenon
<1>6. IsFl(h)
  <2>1. h \in [hd : [DOMAIN h.hd -> Block], next : [Spot -> Addr \cup {Null}],
               policy : {"next fit", "first fit"}, prev : Spot, merge : Spot,
               fragment : Addr \cup {Null}, size : Int, flp : Seq(Spot), beyond : Addr \cup {Null}]
    BY <1>1, <1>2, <1>3, <1>4, <1>5
  <2> QED
    BY <1>1, <2>1 DEF IsFl
<1>7. Blue(h) = {}
  BY DEF Blue
<1>8. NoneFree(h)
  BY <1>3, <1>6, <1>7, Zenon DEF NoneFree
<1> QED
  BY <1>8 DEF Emptied

\* caml_fl_reset empties the free list.
LEMMA FlResetIs ==
  ASSUME NEW f, IsFl(f), NEW hd, IsHeap(hd), hd = [b \in DOMAIN hd |-> hd[b]], \A b \in DOMAIN hd : hd[b].color # "blue"
  PROVE  Emptied(hd, FlReset([f EXCEPT !.hd = hd]))
<1> DEFINE g0 == [f EXCEPT !.hd = hd]
           g == InitMerge([g0 EXCEPT !.next = [b \in DOMAIN @ |-> Null], !.size = 0])
           h == FlReset(g0)
<1>1. f = [hd |-> f.hd, next |-> f.next, policy |-> f.policy, prev |-> f.prev, merge |-> f.merge,
           fragment |-> f.fragment, size |-> f.size, flp |-> f.flp, beyond |-> f.beyond]
  BY DEF IsFl
<1>2. DOMAIN f.next = Spot /\ f.prev \in Spot /\ f.flp \in Seq(Spot) /\ f.beyond \in Addr \cup {Null}
      /\ f.policy \in {"next fit", "first fit"} /\ Len(f.flp) <= FLP_MAX
  BY DEF IsFl
<1>3. g = [hd |-> hd, next |-> [b \in Spot |-> Null], policy |-> f.policy, prev |-> f.prev, merge |-> FlHead,
           fragment |-> Null, size |-> 0, flp |-> f.flp, beyond |-> f.beyond]
  <2>1. g0 = [hd |-> hd, next |-> f.next, policy |-> f.policy, prev |-> f.prev, merge |-> f.merge,
              fragment |-> f.fragment, size |-> f.size, flp |-> f.flp, beyond |-> f.beyond]
    BY <1>1
  <2> HIDE DEF g0
  <2> DEFINE none == [b \in DOMAIN g0.next |-> Null]
  <2>2. none = [b \in Spot |-> Null]
    <3>1. g0.next = f.next
      BY <2>1
    <3> QED
      BY <1>2, <3>1, Zenon
  <2>3. g = [[g0 EXCEPT !.next = none, !.size = 0] EXCEPT !.fragment = Null, !.merge = FlHead]
    BY Zenon DEF InitMerge
  <2> HIDE DEF none, g
  <2> DEFINE h1 == [g0 EXCEPT !.next = none]
             zero == 0
  <2>4. h1 = [hd |-> hd, next |-> none, policy |-> f.policy, prev |-> f.prev, merge |-> f.merge,
              fragment |-> f.fragment, size |-> f.size, flp |-> f.flp, beyond |-> f.beyond]
    BY <2>1
  <2>5. [g0 EXCEPT !.next = none, !.size = zero] = [h1 EXCEPT !.size = zero]
    <3> HIDE DEF zero
    <3> QED
      OBVIOUS
  <2> HIDE DEF h1, zero
  <2>6. [h1 EXCEPT !.size = zero]
          = [hd |-> hd, next |-> none, policy |-> f.policy, prev |-> f.prev, merge |-> f.merge,
             fragment |-> f.fragment, size |-> zero, flp |-> f.flp, beyond |-> f.beyond]
    BY <2>4
  <2>7. [g0 EXCEPT !.next = none, !.size = 0] =
          [hd |-> hd, next |-> none, policy |-> f.policy, prev |-> f.prev, merge |-> f.merge,
           fragment |-> f.fragment, size |-> 0, flp |-> f.flp, beyond |-> f.beyond]
    BY <2>5, <2>6, Zenon DEF zero
  <2>8. g = [hd |-> hd, next |-> none, policy |-> f.policy, prev |-> f.prev, merge |-> FlHead,
             fragment |-> Null, size |-> 0, flp |-> f.flp, beyond |-> f.beyond]
    BY <2>3, <2>7
  <2> QED
    BY <2>2, <2>8, Zenon
<1>4. h = IF g0.policy = "next fit" THEN [g EXCEPT !.prev = FlHead] ELSE TruncateFlp(g, FlHead)
  BY DEF FlReset
<1>5. g0.policy = f.policy
  BY <1>1
<1> HIDE DEF g, g0, h
<1>6. CASE f.policy = "next fit"
  <2>1. h = [hd |-> hd, next |-> [b \in Spot |-> Null], policy |-> f.policy, prev |-> FlHead, merge |-> FlHead,
             fragment |-> Null, size |-> 0, flp |-> f.flp, beyond |-> f.beyond]
    BY <1>3, <1>4, <1>5, <1>6
  <2>2. /\ h.hd = hd /\ h.next = [b \in Spot |-> Null] /\ h.policy = f.policy /\ h.merge = FlHead /\ h.fragment = Null
        /\ h.size = 0 /\ h.prev = FlHead /\ h.flp = f.flp /\ h.beyond = f.beyond
        /\ h = [hd |-> h.hd, next |-> h.next, policy |-> h.policy, prev |-> h.prev, merge |-> h.merge,
                fragment |-> h.fragment, size |-> h.size, flp |-> h.flp, beyond |-> h.beyond]
    BY <2>1
  <2>3. ~ (h.policy = "first fit") /\ h.prev \in Spot
    BY <1>6, <2>2, Keys
  <2>4. h.flp \in Seq(Spot) /\ Len(h.flp) <= FLP_MAX /\ h.beyond \in Addr \cup {Null}
    BY <1>2, <2>2
  <2>5. Emptied(hd, h)
    BY <2>2, <2>3, <2>4, EmptiedIs, ZenonT(30)
  <2> QED
    BY <2>5 DEF h, g0
<1>7. CASE f.policy # "next fit"
  <2>1. TruncateFlp(g, FlHead) = [g EXCEPT !.flp = << >>, !.beyond = Null]
    BY Zenon DEF TruncateFlp
  <2>2. h = [g EXCEPT !.flp = << >>, !.beyond = Null]
    BY <1>4, <1>5, <1>7, <2>1, Zenon
  <2>3. h = [hd |-> hd, next |-> [b \in Spot |-> Null], policy |-> f.policy, prev |-> f.prev, merge |-> FlHead,
             fragment |-> Null, size |-> 0, flp |-> << >>, beyond |-> Null]
    BY <1>3, <2>2
  <2>4. /\ h.hd = hd /\ h.next = [b \in Spot |-> Null] /\ h.policy = f.policy /\ h.merge = FlHead /\ h.fragment = Null
        /\ h.size = 0 /\ h.prev = f.prev /\ h.flp = << >> /\ h.beyond = Null
        /\ h = [hd |-> h.hd, next |-> h.next, policy |-> h.policy, prev |-> h.prev, merge |-> h.merge,
                fragment |-> h.fragment, size |-> h.size, flp |-> h.flp, beyond |-> h.beyond]
    BY <2>3
  <2>5. h.policy # "next fit" /\ h.prev \in Spot
    BY <1>2, <1>7, <2>4
  <2>6. Len(h.flp) <= FLP_MAX
    <3>1. Len(<< >>) = 0
      OBVIOUS
    <3>2. FLP_MAX \in Nat
      BY HeapAssumption
    <3>3. Len(h.flp) = 0
      BY <2>4, <3>1, Zenon
    <3> QED
      BY <3>2, <3>3
  <2>7. h.flp \in Seq(Spot) /\ h.beyond \in Addr \cup {Null}
    <3>1. << >> \in Seq(Spot)
      OBVIOUS
    <3> QED
      BY <2>4, <3>1, Zenon
  <2>8. Emptied(hd, h)
    BY <2>4, <2>5, <2>6, <2>7, EmptiedIs, ZenonT(30)
  <2> QED
    BY <2>8 DEF h, g0
<1> QED
  BY <1>6, <1>7

\* One step of Rebuild: what is left of the k-th chunk is freed.
RebuildStart(hd) == FlReset([fl EXCEPT !.hd = hd])
RebuildNext(alloc, f, k) ==
  LET c == InOrder(DOMAIN chunks)[k]
  IN  IF chunks[c] > alloc[c] THEN MakeFreeBlocks(f, c + alloc[c], chunks[c] - alloc[c]) ELSE f

\* The rebuilding of the free list, chunk by chunk, as a function.
LEMMA RebuildExists ==
  ASSUME NEW hd, NEW alloc
  PROVE  \A N \in Nat : \E w : w = [k \in 0..N |-> IF k = 0 THEN RebuildStart(hd) ELSE RebuildNext(alloc, w[k - 1], k)]
<1> DEFINE S == {N \in Nat : \E w : w = [k \in 0..N |-> IF k = 0 THEN RebuildStart(hd) ELSE RebuildNext(alloc, w[k - 1], k)]}
<1>1. 0 \in S
  <2> DEFINE g == [n \in 0 .. 0 |-> RebuildStart(hd)]
  <2>1. g = [n \in 0 .. 0 |-> IF n = 0 THEN RebuildStart(hd) ELSE RebuildNext(alloc, g[n - 1], n)]
    OBVIOUS
  <2> HIDE DEF g
  <2> QED
    BY <2>1
<1>2. \A N \in Nat : N \in S => N + 1 \in S
  <2> SUFFICES ASSUME NEW N \in Nat, N \in S PROVE N + 1 \in S
    OBVIOUS
  <2>1. PICK w : w = [n \in 0 .. N |-> IF n = 0 THEN RebuildStart(hd) ELSE RebuildNext(alloc, w[n - 1], n)]
    OBVIOUS
  <2> DEFINE g == [n \in 0 .. N + 1 |-> IF n = 0 THEN RebuildStart(hd) ELSE RebuildNext(alloc, w[n - 1], n)]
  <2>2. \A n \in 0 .. N : g[n] = w[n]
    <3> SUFFICES ASSUME NEW n \in 0 .. N PROVE g[n] = w[n]
      OBVIOUS
    <3>1. w[n] = IF n = 0 THEN RebuildStart(hd) ELSE RebuildNext(alloc, w[n - 1], n)
      BY <2>1
    <3> QED
      BY <3>1
  <2>3. g = [n \in 0 .. N + 1 |-> IF n = 0 THEN RebuildStart(hd) ELSE RebuildNext(alloc, g[n - 1], n)]
    <3>1. \A n \in 0 .. N + 1 : n # 0 => n - 1 \in 0 .. N
      OBVIOUS
    <3>2. \A n \in 0 .. N + 1 : n # 0 => g[n - 1] = w[n - 1]
      BY <3>1, <2>2
    <3>3. g = [n \in 0 .. N + 1 |-> IF n = 0 THEN RebuildStart(hd) ELSE RebuildNext(alloc, w[n - 1], n)]
      OBVIOUS
    <3> HIDE DEF g
    <3>4. \A n \in 0 .. N + 1 : (IF n = 0 THEN RebuildStart(hd) ELSE RebuildNext(alloc, w[n - 1], n))
                               = (IF n = 0 THEN RebuildStart(hd) ELSE RebuildNext(alloc, g[n - 1], n))
      BY <3>2
    <3> QED
      BY <3>3, <3>4
  <2> HIDE DEF g
  <2> QED
    BY <2>3
<1> HIDE DEF S
<1>3. \A N \in Nat : N \in S
  BY <1>1, <1>2, SetInduction
<1> QED
  BY <1>3 DEF S

\* Rebuild is what that function gives for all of the chunks.
LEMMA RebuildWalks ==
  ASSUME NEW hd, NEW alloc, Len(InOrder(DOMAIN chunks)) \in Nat
  PROVE  LET N == Len(InOrder(DOMAIN chunks))
         IN  \E w : /\ w = [k \in 0..N |-> IF k = 0 THEN RebuildStart(hd) ELSE RebuildNext(alloc, w[k - 1], k)]
                    /\ Rebuild(hd, alloc) = w[N]
<1> DEFINE N == Len(InOrder(DOMAIN chunks))
           w == CHOOSE w : w = [k \in 0..N |-> IF k = 0 THEN RebuildStart(hd) ELSE RebuildNext(alloc, w[k - 1], k)]
<1>1. w = [k \in 0..N |-> IF k = 0 THEN RebuildStart(hd) ELSE RebuildNext(alloc, w[k - 1], k)]
  BY RebuildExists
<1>2. Rebuild(hd, alloc) = w[N]
  BY DEF Rebuild, RebuildStart, RebuildNext
<1> HIDE DEF w
<1> QED
  BY <1>1, <1>2

\* A set of addresses in order, as a sequence.
LEMMA AddressOrder ==
  ASSUME NEW S \in SUBSET Addr
  PROVE  LET C == InOrder(S)
         IN  /\ Len(C) \in Nat /\ C \in Seq(S) /\ (\A i, j \in 1..Len(C) : i < j => C[i] < C[j])
             /\ (\A x \in S : \E i \in 1..Len(C) : C[i] = x) /\ \A i \in 1..Len(C) : C[i] \in S
<1> DEFINE C == InOrder(S)
           N == Cardinality(S)
<1>1. IsFiniteSet(S)
  <2>1. IsFiniteSet(Addr)
    BY Spots, FS_Interval DEF Addr
  <2> QED
    BY <2>1, FS_Subset
<1>2. S \in SUBSET Nat
  BY Keys
<1>3. N \in Nat /\ C \in [1..N -> S] /\ Increasing(C) /\ \A x \in S : \E i \in 1..N : C[i] = x
  BY <1>1, <1>2, InOrderIs
<1> HIDE DEF C, N
<1>4. C \in Seq(S)
  BY <1>3
<1>5. Len(C) = N /\ DOMAIN C = 1..N
  BY <1>3
<1>6. \A i, j \in 1..N : i < j => C[i] < C[j]
  BY <1>3, <1>5 DEF Increasing
<1>7. \A i \in 1..N : C[i] \in S
  BY <1>3
<1> QED
  BY <1>3, <1>4, <1>5, <1>6, <1>7 DEF C

\* The chunks of the first k are full, the others as far as they were given out.
Done(k) == {InOrder(DOMAIN chunks)[j] : j \in 1..k}
PartsTo(alloc, k) ==
  [c \in {d \in DOMAIN chunks : alloc[d] > 0} \cup Done(k) |-> IF c \in Done(k) THEN chunks[c] ELSE alloc[c]]

\* One chunk more is filled.
LEMMA PartsToNext ==
  ASSUME ChunksInv(chunks), NEW alloc \in [DOMAIN chunks -> Nat], \A c \in DOMAIN chunks : alloc[c] <= chunks[c],
         NEW k \in Nat, k + 1 <= Len(InOrder(DOMAIN chunks)), Chunky(PartsTo(alloc, k))
  PROVE  LET c == InOrder(DOMAIN chunks)[k + 1]
         IN  /\ chunks[c] > alloc[c] =>
                  Filled(PartsTo(alloc, k), PartsTo(alloc, k + 1), c, chunks[c] - alloc[c], c + alloc[c])
             /\ chunks[c] <= alloc[c] => PartsTo(alloc, k + 1) = PartsTo(alloc, k)
             /\ c \in DOMAIN chunks /\ c \in Nat /\ chunks[c] \in Nat /\ alloc[c] \in Nat
             /\ \A j \in k + 1 + 1..Len(InOrder(DOMAIN chunks)) : c + chunks[c] < InOrder(DOMAIN chunks)[j]
<1> DEFINE C == InOrder(DOMAIN chunks)
           N == Len(C)
           c == C[k + 1]
           p == PartsTo(alloc, k)
           p2 == PartsTo(alloc, k + 1)
           A == {d \in DOMAIN chunks : alloc[d] > 0}
<1>1. /\ N \in Nat /\ (\A i, j \in 1..N : i < j => C[i] < C[j])
      /\ \A i \in 1..N : C[i] \in DOMAIN chunks
  <2>1. DOMAIN chunks \in SUBSET Addr
    BY DEF ChunksInv
  <2> QED
    BY <2>1, AddressOrder
<1>2. /\ DOMAIN chunks \in SUBSET Addr /\ (\A x \in DOMAIN chunks : chunks[x] \in 2..Words /\ x + chunks[x] <= Words + 1)
      /\ \A x, y \in DOMAIN chunks : x < y => x + chunks[x] < y
  BY DEF ChunksInv
<1>3. Words \in Nat /\ \A x \in DOMAIN chunks : x \in Nat /\ x \in Addr /\ chunks[x] \in Nat /\ chunks[x] >= 1 /\ alloc[x] \in Nat
  BY <1>2, Keys, Spots
<1>4. k + 1 \in 1..N /\ c \in DOMAIN chunks /\ \A j \in 1..k : j \in 1..N /\ j < k + 1
  BY <1>1
<1>5. Done(k + 1) = Done(k) \cup {c} /\ c \notin Done(k)
  <2>1. 1..k + 1 = 1..k \cup {k + 1}
    OBVIOUS
  <2>2. Done(k + 1) = Done(k) \cup {c}
    BY <2>1 DEF Done
  <2>3. \A j \in 1..k : C[j] # c
    <3> SUFFICES ASSUME NEW j \in 1..k PROVE C[j] # c
      OBVIOUS
    <3>1. C[j] < c /\ C[j] \in Nat /\ c \in Nat
      BY <1>1, <1>3, <1>4
    <3> HIDE DEF C, c
    <3> QED
      BY <3>1
  <2> QED
    BY <2>2, <2>3 DEF Done
<1>6. Done(k) \subseteq DOMAIN chunks
  BY <1>1, <1>4 DEF Done
<1> HIDE DEF c
<1>7. DOMAIN p = A \cup Done(k) /\ \A x \in DOMAIN p : p[x] = IF x \in Done(k) THEN chunks[x] ELSE alloc[x]
  BY DEF PartsTo
<1>8. DOMAIN p2 = A \cup Done(k + 1) /\ \A x \in DOMAIN p2 : p2[x] = IF x \in Done(k + 1) THEN chunks[x] ELSE alloc[x]
  BY DEF PartsTo
<1>9. p = [x \in A \cup Done(k) |-> IF x \in Done(k) THEN chunks[x] ELSE alloc[x]]
      /\ p2 = [x \in A \cup Done(k + 1) |-> IF x \in Done(k + 1) THEN chunks[x] ELSE alloc[x]]
  BY DEF PartsTo
<1> HIDE DEF p, p2
<1>10. ASSUME chunks[c] > alloc[c] PROVE Filled(p, p2, c, chunks[c] - alloc[c], c + alloc[c])
  <2>1. DOMAIN p2 = DOMAIN p \cup {c} /\ p2[c] = chunks[c] /\ \A x \in DOMAIN p \ {c} : p2[x] = p[x]
    BY <1>5, <1>7, <1>8
  <2>2. c + alloc[c] = c + (IF c \in DOMAIN p THEN p[c] ELSE 0)
    <3>1. CASE c \in DOMAIN p
      BY <1>5, <1>7, <3>1
    <3>2. CASE c \notin DOMAIN p
      <4>1. ~ (alloc[c] > 0)
        BY <1>4, <1>7, <3>2
      <4> QED
        BY <1>3, <1>4, <3>2, <4>1
    <3> QED
      BY <3>1, <3>2
  <2>3. c + p2[c] = (c + alloc[c]) + (chunks[c] - alloc[c]) /\ chunks[c] - alloc[c] \in Nat \ {0} /\ c \in Addr
    BY <1>3, <1>4, <1>10, <2>1
  <2>4. Chunky(p2)
    <3>1. \A x \in DOMAIN p2 : x \in DOMAIN chunks /\ p2[x] \in Nat /\ p2[x] >= 1 /\ p2[x] <= chunks[x]
      <4> SUFFICES ASSUME NEW x \in DOMAIN p2
                   PROVE  x \in DOMAIN chunks /\ p2[x] \in Nat /\ p2[x] >= 1 /\ p2[x] <= chunks[x]
        OBVIOUS
      <4>1. x \in DOMAIN chunks
        BY <1>4, <1>5, <1>6, <1>8
      <4>2. CASE x \in Done(k + 1)
        BY <1>3, <1>8, <4>1, <4>2
      <4>3. CASE x \notin Done(k + 1)
        BY <1>3, <1>8, <4>1, <4>3
      <4> QED
        BY <4>1, <4>2, <4>3
    <3>2. DOMAIN p2 \in SUBSET Addr
      BY <1>2, <3>1
    <3>3. \A x \in DOMAIN p2 : p2[x] \in Nat /\ p2[x] >= 1 /\ x + p2[x] <= Words + 1
      BY <1>2, <1>3, <3>1
    <3>4. \A x, y \in DOMAIN p2 : x < y => x + p2[x] < y
      BY <1>2, <1>3, <3>1
    <3> QED
      BY <3>2, <3>3, <3>4 DEF Chunky
  <2>5. Chunky(p)
    BY DEF p
  <2> QED
    BY <2>1, <2>2, <2>3, <2>4, <2>5 DEF Filled
<1>11. ASSUME chunks[c] <= alloc[c] PROVE p2 = p
  <2>1. alloc[c] = chunks[c] /\ c \in A
    BY <1>3, <1>4, <1>11
  <2>2. A \cup Done(k + 1) = A \cup Done(k)
    BY <1>5, <2>1
  <2>3. \A x \in A \cup Done(k) : (IF x \in Done(k) THEN chunks[x] ELSE alloc[x]) = (IF x \in Done(k + 1) THEN chunks[x] ELSE alloc[x])
    BY <1>5, <2>1
  <2> HIDE DEF A
  <2> QED
    BY <1>9, <2>2, <2>3
<1>12. \A j \in k + 1 + 1..N : c + chunks[c] < C[j]
  <2> SUFFICES ASSUME NEW j \in k + 1 + 1..N PROVE c + chunks[c] < C[j]
    OBVIOUS
  <2>1. j \in 1..N /\ k + 1 < j
    BY <1>1
  <2>2. c < C[j] /\ C[j] \in DOMAIN chunks
    BY <1>1, <1>4, <2>1 DEF c
  <2> QED
    BY <1>2, <1>4, <2>2
<1>13. c \in Nat /\ chunks[c] \in Nat /\ alloc[c] \in Nat
  BY <1>3, <1>4
<1> QED
  BY <1>4, <1>10, <1>11, <1>12, <1>13 DEF p, p2, c

\* The blocks hd fill what was given out of the chunks.
Packed(hd, alloc) ==
  /\ IsFl(fl) /\ ChunksInv(chunks) /\ alloc \in [DOMAIN chunks -> Nat] /\ (\A c \in DOMAIN chunks : alloc[c] <= chunks[c])
  /\ IsHeap(hd) /\ hd = [b \in DOMAIN hd |-> hd[b]] /\ Tiled(hd, Parts(alloc))
  /\ \A b \in DOMAIN hd : hd[b].color = "white" /\ hd[b].wosize > 0

\* f has the blocks hd, and is free otherwise, in the parts p.
Rebuilt(f, p, hd, t) == Part(f, p, t) /\ Held(f.hd) = DOMAIN hd /\ \A b \in DOMAIN hd : f.hd[b] = hd[b]

\* The rest of the first k chunks is free.
RebuiltTo(f, alloc, hd, k) ==
  \E t \in Nat : /\ Rebuilt(f, PartsTo(alloc, k), hd, t)
                 /\ \A j \in k + 1..Len(InOrder(DOMAIN chunks)) : t < InOrder(DOMAIN chunks)[j]

\* Before the first chunk, nothing is free.
LEMMA RebuildStartOK ==
  ASSUME NEW hd, NEW alloc, Packed(hd, alloc)
  PROVE  RebuiltTo(RebuildStart(hd), alloc, hd, 0)
<1> DEFINE f == RebuildStart(hd)
           C == InOrder(DOMAIN chunks)
<1>1. Emptied(hd, f)
  <2>1. \A b \in DOMAIN hd : hd[b].color # "blue"
    BY DEF Packed
  <2> QED
    BY <2>1, FlResetIs DEF Packed, RebuildStart
<1> HIDE DEF f
<1>2. NoneFree(f) /\ f.hd = hd
  BY <1>1 DEF Emptied
<1>3. PartsTo(alloc, 0) = Parts(alloc)
  <2>1. Done(0) = {}
    BY DEF Done
  <2> QED
    BY <2>1 DEF PartsTo, Parts
<1>4. Chunky(Parts(alloc))
  BY PartsChunky DEF Packed
<1>5. Sound(hd) /\ \A b \in DOMAIN hd : hd[b].color # "black"
  BY DEF Sound, Packed
<1>6. Part(f, Parts(alloc), 0)
  BY <1>2, <1>4, <1>5, NoneFreePart DEF Packed
<1>7. Held(f.hd) = DOMAIN hd
  BY <1>2 DEF Held, Packed
<1>8. \A j \in 0 + 1..Len(C) : 0 < C[j]
  <2>1. Len(C) \in Nat /\ \A i \in 1..Len(C) : C[i] \in DOMAIN chunks
    BY AddressOrder DEF Packed, ChunksInv
  <2>2. \A c \in DOMAIN chunks : c \in Nat /\ c > 0
    BY DEF Packed, ChunksInv, Addr
  <2> QED
    BY <2>1, <2>2
<1>9. Rebuilt(f, PartsTo(alloc, 0), hd, 0)
  BY <1>2, <1>3, <1>6, <1>7 DEF Rebuilt
<1> QED
  BY <1>8, <1>9 DEF RebuiltTo, f

\* The rest of one chunk more is freed.
LEMMA RebuildStepOK ==
  ASSUME NEW hd, NEW alloc, Packed(hd, alloc), NEW k \in Nat, k + 1 <= Len(InOrder(DOMAIN chunks)),
         NEW f, RebuiltTo(f, alloc, hd, k)
  PROVE  RebuiltTo(RebuildNext(alloc, f, k + 1), alloc, hd, k + 1)
<1> DEFINE C == InOrder(DOMAIN chunks)
           c == C[k + 1]
           p == PartsTo(alloc, k)
           p2 == PartsTo(alloc, k + 1)
           h == RebuildNext(alloc, f, k + 1)
<1>1. PICK t \in Nat : Rebuilt(f, p, hd, t) /\ \A j \in k + 1..Len(C) : t < C[j]
  BY DEF RebuiltTo
<1>2. Len(C) \in Nat
  BY AddressOrder DEF Packed, ChunksInv
<1>3. t < c
  BY <1>1, <1>2
<1>4. Part(f, p, t) /\ Chunky(p)
  BY <1>1 DEF Rebuilt, Part
<1>5. /\ chunks[c] > alloc[c] => Filled(p, p2, c, chunks[c] - alloc[c], c + alloc[c])
      /\ chunks[c] <= alloc[c] => p2 = p
      /\ c \in Nat /\ chunks[c] \in Nat /\ alloc[c] \in Nat
      /\ \A j \in k + 1 + 1..Len(C) : c + chunks[c] < C[j]
  BY <1>4, PartsToNext DEF Packed
<1>6. h = IF chunks[c] > alloc[c] THEN MakeFreeBlocks(f, c + alloc[c], chunks[c] - alloc[c]) ELSE f
  BY DEF RebuildNext
<1> HIDE DEF p, p2, h, c
<1>7. CASE chunks[c] > alloc[c]
  <2>1. t < c + alloc[c]
    BY <1>3, <1>5
  <2>2. MadeFree(f, MakeFreeBlocks(f, c + alloc[c], chunks[c] - alloc[c]), p2, (c + alloc[c]) + (chunks[c] - alloc[c]))
    BY <1>4, <1>5, <1>7, <2>1, MakeFreeIs
  <2>3. (c + alloc[c]) + (chunks[c] - alloc[c]) = c + chunks[c] /\ c + chunks[c] \in Nat
    BY <1>5
  <2>4. MadeFree(f, h, p2, c + chunks[c])
    BY <1>6, <1>7, <2>2, <2>3
  <2>5. Rebuilt(h, p2, hd, c + chunks[c])
    BY <1>1, <2>4 DEF Rebuilt, MadeFree
  <2> QED
    BY <1>5, <2>3, <2>5 DEF RebuiltTo, p2, h
<1>8. CASE ~ (chunks[c] > alloc[c])
  <2>1. p2 = p /\ h = f
    BY <1>5, <1>6, <1>8
  <2>2. \A j \in k + 1 + 1..Len(C) : t < C[j]
    BY <1>1, <1>2
  <2>3. Rebuilt(h, p2, hd, t)
    BY <1>1, <2>1
  <2> QED
    BY <2>2, <2>3 DEF RebuiltTo, p2, h
<1> QED
  BY <1>7, <1>8

\* All of the chunks are full.
LEMMA PartsToAll ==
  ASSUME ChunksInv(chunks), NEW alloc
  PROVE  PartsTo(alloc, Len(InOrder(DOMAIN chunks))) = chunks
<1> DEFINE C == InOrder(DOMAIN chunks)
<1>1. /\ \A x \in DOMAIN chunks : \E i \in 1..Len(C) : C[i] = x
      /\ \A i \in 1..Len(C) : C[i] \in DOMAIN chunks
  BY AddressOrder DEF ChunksInv
<1>2. Done(Len(C)) = DOMAIN chunks
  BY <1>1 DEF Done
<1>3. chunks = [c \in DOMAIN chunks |-> chunks[c]]
  BY DEF ChunksInv
<1> QED
  BY <1>2, <1>3 DEF PartsTo

\* After a compaction the chunks are filled, by the blocks that were moved and by free ones.
LEMMA RebuildIs ==
  ASSUME NEW hd, NEW alloc, Packed(hd, alloc)
  PROVE  \E t \in Nat : Rebuilt(Rebuild(hd, alloc), chunks, hd, t)
<1> DEFINE N == Len(InOrder(DOMAIN chunks))
<1>1. N \in Nat
  BY AddressOrder DEF Packed, ChunksInv
<1>2. PICK w : /\ w = [k \in 0..N |-> IF k = 0 THEN RebuildStart(hd) ELSE RebuildNext(alloc, w[k - 1], k)]
               /\ Rebuild(hd, alloc) = w[N]
  BY <1>1, RebuildWalks
<1> DEFINE S == {k \in Nat : k <= N => RebuiltTo(w[k], alloc, hd, k)}
<1>3. 0 \in S
  <2>1. 0 \in 0..N
    BY <1>1
  <2>2. w[0] = RebuildStart(hd)
    BY <1>2, <2>1
  <2> QED
    BY <2>2, RebuildStartOK
<1>4. \A k \in Nat : k \in S => k + 1 \in S
  <2> SUFFICES ASSUME NEW k \in Nat, k \in S, k + 1 <= N
               PROVE  RebuiltTo(w[k + 1], alloc, hd, k + 1)
    OBVIOUS
  <2>1. RebuiltTo(w[k], alloc, hd, k)
    <3>1. k <= N
      BY <1>1
    <3> QED
      BY <3>1
  <2>2. k + 1 \in 0..N /\ k + 1 # 0 /\ (k + 1) - 1 = k
    BY <1>1
  <2>3. w[k + 1] = RebuildNext(alloc, w[k], k + 1)
    BY <1>2, <2>2
  <2> QED
    BY <2>1, <2>3, RebuildStepOK
<1>5. S = Nat
  <2> HIDE DEF S
  <2>1. Nat \subseteq S
    BY <1>3, <1>4, SetInduction
  <2> QED
    BY <2>1 DEF S
<1>6. RebuiltTo(w[N], alloc, hd, N)
  BY <1>1, <1>5
<1>7. PartsTo(alloc, N) = chunks
  BY PartsToAll DEF Packed
<1> QED
  BY <1>2, <1>6, <1>7 DEF RebuiltTo

\* What the program may use at the end of a cycle is what is not free.
LEMMA LiveAtEnd ==
  ASSUME IInv, phase = "sweep", sweep_hp = Limit, ChunkNext(chunk) = Null
  PROVE  /\ DOMAIN live = Held(fl.hd) /\ DOMAIN live \in SUBSET DOMAIN fl.hd /\ DOMAIN live \in SUBSET Addr
         /\ \A b \in DOMAIN live : live[b] = fl.hd[b].wosize /\ live[b] \in Requests /\ live[b] > 0
<1>1. GoodHeap(fl, chunks) /\ UsedIn(fl.hd, "sweep", sweep_hp) = Held(fl.hd)
  BY AllSwept
<1>2. LiveIn(fl.hd, "sweep", sweep_hp, live)
  BY NowSweeping
<1>3. DOMAIN live = Held(fl.hd) /\ \A b \in DOMAIN live : live[b] = fl.hd[b].wosize /\ live[b] \in Requests
  BY <1>1, <1>2 DEF LiveIn
<1>4. DOMAIN fl.hd \in SUBSET Addr
  BY <1>1 DEF GoodHeap, Solid, IsFl
<1> QED
  BY <1>3, <1>4 DEF Held

\* The blocks that are reached can be laid out, in their order.
LEMMA PackingIs ==
  ASSUME IInv, phase = "sweep", sweep_hp = Limit, ChunkNext(chunk) = Null, NEW reached \in SUBSET DOMAIN live
  PROVE  LET B == InOrder(reached)
         IN  /\ Packing(B) /\ (\A i \in 1..Len(B) : B[i] \in reached /\ live[B[i]] \in Requests)
             /\ \A x \in reached : \E i \in 1..Len(B) : B[i] = x
<1> DEFINE B == InOrder(reached)
<1>1. /\ DOMAIN live \in SUBSET DOMAIN fl.hd /\ DOMAIN live \in SUBSET Addr
      /\ \A b \in DOMAIN live : live[b] = fl.hd[b].wosize /\ live[b] \in Requests /\ live[b] > 0
  BY LiveAtEnd
<1>2. reached \in SUBSET Addr
  BY <1>1
<1>3. /\ B \in Seq(reached) /\ (\A i, j \in 1..Len(B) : i < j => B[i] < B[j])
      /\ (\A x \in reached : \E i \in 1..Len(B) : B[i] = x) /\ \A i \in 1..Len(B) : B[i] \in reached
  BY <1>2, AddressOrder
<1> HIDE DEF B
<1>4. B \in Seq(DOMAIN fl.hd)
  <2>1. reached \in SUBSET DOMAIN fl.hd
    BY <1>1
  <2> QED
    BY <1>3, <2>1
<1>5. Solid(fl, chunks)
  BY DEF IInv, HeapOK, GoodHeap
<1>6. Packing(B)
  BY <1>1, <1>3, <1>4, <1>5 DEF Packing
<1> QED
  BY <1>1, <1>3, <1>6 DEF B

\* The blocks are where the layout puts them.
LEMMA CompactStep ==
  ASSUME IInv, phase = "sweep", sweep_hp = Limit, ChunkNext(chunk) = Null, NEW reached \in SUBSET DOMAIN live,
         Layout(InOrder(reached)).fl # Null
  PROVE  LET s == Layout(InOrder(reached))
             hd == Moved(InOrder(reached), s.at)
         IN  HeapOK(Rebuild(hd, s.alloc), chunks, "idle", sweep_hp, chunk, [a \in DOMAIN hd |-> hd[a].wosize])
<1> DEFINE B == InOrder(reached)
           s == Layout(B)
           hd == Moved(B, s.at)
           lv == [a \in DOMAIN hd |-> hd[a].wosize]
<1>1. /\ Packing(B) /\ \A i \in 1..Len(B) : B[i] \in reached /\ live[B[i]] \in Requests
  BY PackingIs
<1> HIDE DEF B
<1>2. LaidOut(B, Len(B), s)
  BY <1>1, LayoutIs DEF B
<1> HIDE DEF s
<1>3. /\ s.alloc \in [DOMAIN chunks -> Nat] /\ (\A c \in DOMAIN chunks : s.alloc[c] <= chunks[c])
      /\ s.at \in Seq(Addr) /\ Len(s.at) = Len(B) /\ Distinct(s.at) /\ Tiled(hd, Parts(s.alloc))
  BY <1>2 DEF LaidOut
<1>4. Len(B) \in Nat /\ Solid(fl, chunks)
  BY <1>1 DEF Packing
<1>5. IsHeap(hd) /\ \A a \in DOMAIN hd : hd[a].color = "white" /\ hd[a].wosize > 0
  <2>1. Len(s.at) <= Len(B)
    BY <1>3, <1>4
  <2> QED
    BY <1>1, <1>3, <2>1, MovedHeap
<1>6. hd = [b \in DOMAIN hd |-> hd[b]]
  BY DEF Moved
<1>7. DOMAIN hd = {s.at[i] : i \in 1..Len(s.at)} /\ \A i \in 1..Len(s.at) : hd[s.at[i]] = MovedBlock(B, i)
  BY <1>3, MovedIs
<1> HIDE DEF hd
<1>8. \A a \in DOMAIN hd : hd[a].wosize \in Requests
  <2> SUFFICES ASSUME NEW a \in DOMAIN hd PROVE hd[a].wosize \in Requests
    OBVIOUS
  <2>1. PICK i \in 1..Len(B) : a = s.at[i]
    BY <1>3, <1>7
  <2>2. hd[a] = MovedBlock(B, i)
    BY <1>3, <1>7, <2>1
  <2>3. hd[a].wosize = live[B[i]]
    BY <2>2 DEF MovedBlock
  <2> QED
    BY <1>1, <2>3
<1>9. Packed(hd, s.alloc)
  BY <1>3, <1>4, <1>5, <1>6 DEF Packed, Solid
<1>10. PICK t \in Nat : Rebuilt(Rebuild(hd, s.alloc), chunks, hd, t)
  BY <1>9, RebuildIs
<1> DEFINE h == Rebuild(hd, s.alloc)
<1> HIDE DEF h
<1>11. Part(h, chunks, t) /\ Held(h.hd) = DOMAIN hd /\ \A b \in DOMAIN hd : h.hd[b] = hd[b]
  BY <1>10 DEF Rebuilt, h
<1>12. lv = [b \in Held(h.hd) |-> h.hd[b].wosize]
  BY <1>11
<1>13. \A b \in Held(h.hd) : h.hd[b].wosize \in Requests
  BY <1>8, <1>11
<1> HIDE DEF lv
<1>14. sweep_hp \in 0..Words + 1 /\ chunk \in DOMAIN chunks /\ ChunksInv(chunks)
  BY DEF IInv, HeapOK, GoodHeap, Solid
<1>15. HeapOK(h, chunks, "idle", sweep_hp, chunk, lv)
  BY <1>11, <1>12, <1>13, <1>14, IdleOK
<1> QED
  BY <1>15 DEF h, lv, hd, s, B

\* The kernel faults.
LEMMA PanicStep ==
  ASSUME IInv, phase = "sweep", sweep_hp = Limit, ChunkNext(chunk) = Null
  PROVE  HeapOK(fl, chunks, "panic", sweep_hp, chunk, live)
<1>1. /\ GoodHeap(fl, chunks) /\ \A b \in DOMAIN fl.hd : fl.hd[b].color # "black"
      /\ UsedIn(fl.hd, "sweep", sweep_hp) = Held(fl.hd)
  BY AllSwept
<1>2. UsedIn(fl.hd, "panic", sweep_hp) = Held(fl.hd)
  BY DEF UsedIn
<1>3. LiveIn(fl.hd, "panic", sweep_hp, live)
  BY <1>1, <1>2 DEF IInv, HeapOK, LiveIn
<1>4. BlackIn(fl.hd, "panic", sweep_hp)
  BY <1>1 DEF BlackIn
<1> QED
  BY <1>1, <1>3, <1>4 DEF IInv, HeapOK

\* Allocation keeps the invariant.
LEMMA AllocateStep ==
  ASSUME IInv, NEW n \in Requests, AllocFromList(n) \/ AllocExpanding(n) \/ AllocFails(n)
  PROVE  IInv'
<1>1. CASE AllocFromList(n)
  <2> DEFINE r == FlAllocate(fl, n)
  <2>1. r.hp # Null /\ Allocated(r, n) /\ chunks' = chunks
    BY <1>1 DEF AllocFromList
  <2>2. HeapOK(GivenFrom(r, n), chunks, phase, sweep_hp, chunk, Over(MapsTo(r.hp, n), live))
    BY <2>1, FromListStep
  <2> HIDE DEF r
  <2>3. /\ fl' = GivenFrom(r, n) /\ live' = Over(MapsTo(r.hp, n), live)
        /\ phase' = phase /\ sweep_hp' = sweep_hp /\ chunk' = chunk
    BY <2>1 DEF Allocated, GivenFrom
  <2> QED
    BY <2>1, <2>2, <2>3, Zenon DEF IInv
<1>2. CASE AllocExpanding(n)
  <2> DEFINE s == ChunkSize(n)
  <2>1. FlAllocate(fl, n).hp = Null
    BY <1>2 DEF AllocExpanding
  <2>2. PICK a \in Fits(s) :
          /\ chunks' = Over(MapsTo(a, s), chunks)
          /\ Allocated(FlAllocate(GrownFrom(FlAllocate(fl, n), a, s), n), n)
    BY <1>2, Zenon DEF AllocExpanding, GrownFrom
  <2> DEFINE r == FlAllocate(GrownFrom(FlAllocate(fl, n), a, s), n)
  <2>3. HeapOK(GivenFrom(r, n), Over(MapsTo(a, s), chunks), phase, sweep_hp, chunk, Over(MapsTo(r.hp, n), live))
    BY <2>1, ExpandingStep
  <2>4. Allocated(r, n)
    BY <2>2
  <2> HIDE DEF r
  <2>5. /\ fl' = GivenFrom(r, n) /\ live' = Over(MapsTo(r.hp, n), live)
        /\ phase' = phase /\ sweep_hp' = sweep_hp /\ chunk' = chunk
    BY <2>4 DEF Allocated, GivenFrom
  <2> QED
    BY <2>2, <2>3, <2>5, Zenon DEF IInv
<1>3. CASE AllocFails(n)
  <2>1. HeapOK(FlAllocate(fl, n).f, chunks, phase, sweep_hp, chunk, live)
    BY <1>3, FailsStep DEF AllocFails
  <2>2. fl' = FlAllocate(fl, n).f /\ UNCHANGED <<chunks, phase, sweep_hp, chunk, live>>
    BY <1>3 DEF AllocFails
  <2> QED
    BY <2>1, <2>2, Zenon DEF IInv
<1> QED
  BY <1>1, <1>2, <1>3

\* Gc.set keeps the invariant.
LEMMA SetPolicyStep ==
  ASSUME IInv, NEW p \in Policies, SetPolicy(p)
  PROVE  IInv'
<1>1. p = "next fit" \/ p = "first fit"
  BY HeapAssumption
<1>2. UNCHANGED <<chunks, phase, sweep_hp, chunk, live>>
  BY DEF SetPolicy
<1>3. CASE p = "next fit"
  <2>1. fl' = [fl EXCEPT !.policy = "next fit", !.prev = FlHead]
    BY <1>3 DEF SetPolicy
  <2> QED
    BY <1>2, <2>1, PolicyStep, Zenon DEF IInv
<1>4. CASE p = "first fit"
  <2>1. fl' = [fl EXCEPT !.policy = "first fit", !.flp = << >>, !.beyond = Null]
    BY <1>4 DEF SetPolicy
  <2> QED
    BY <1>2, <2>1, PolicyStep, Zenon DEF IInv
<1> QED
  BY <1>1, <1>3, <1>4

\* Marking and sweeping keep the invariant.
LEMMA CollectorStep ==
  ASSUME IInv, StartCycle \/ EndMark \/ SweepBlock \/ SweepChunk \/ EndSweep
  PROVE  IInv'
<1>1. CASE StartCycle
  <2>1. phase = "idle" /\ phase' = "mark" /\ UNCHANGED <<fl, chunks, sweep_hp, chunk, live>>
    BY <1>1 DEF StartCycle
  <2> QED
    BY <2>1, StartStep, Zenon DEF IInv
<1>2. CASE EndMark
  <2>1. PICK marked \in SUBSET DOMAIN live :
          /\ \A b \in DOMAIN live : fl.hd[b].color = "black" => b \in marked
          /\ fl' = InitMerge([fl EXCEPT !.hd = [b \in DOMAIN @ |->
                                IF b \in marked THEN [@[b] EXCEPT !.color = "black"] ELSE @[b]]])
          /\ live' = Without(live, DOMAIN live \ marked)
    BY <1>2 DEF EndMark
  <2>2. /\ phase = "mark" /\ phase' = "sweep" /\ chunk' = Min(DOMAIN chunks) /\ sweep_hp' = Min(DOMAIN chunks)
        /\ chunks' = chunks
    BY <1>2 DEF EndMark
  <2>3. HeapOK(InitMerge([fl EXCEPT !.hd = [b \in DOMAIN @ |->
                             IF b \in marked THEN [@[b] EXCEPT !.color = "black"] ELSE @[b]]]),
                chunks, "sweep", Min(DOMAIN chunks), Min(DOMAIN chunks), Without(live, DOMAIN live \ marked))
    BY <2>1, <2>2, MarkStep
  <2> QED
    BY <2>1, <2>2, <2>3, Zenon DEF IInv
<1>3. CASE SweepBlock
  <2>1. phase = "sweep" /\ sweep_hp < Limit /\ UNCHANGED <<chunks, phase, chunk, live>>
    BY <1>3 DEF SweepBlock
  <2>2. CASE /\ fl.hd[sweep_hp].color = "white"
             /\ fl' = MergeBlock(fl, sweep_hp).f /\ sweep_hp' = MergeBlock(fl, sweep_hp).adj
    <3>1. HeapOK(MergeBlock(fl, sweep_hp).f, chunks, "sweep", MergeBlock(fl, sweep_hp).adj, chunk, live)
      BY <2>1, <2>2, SweepWhiteStep
    <3> QED
      BY <2>1, <2>2, <3>1, Zenon DEF IInv
  <2>3. CASE /\ fl.hd[sweep_hp].color = "blue"
             /\ fl' = [fl EXCEPT !.merge = sweep_hp] /\ sweep_hp' = sweep_hp + fl.hd[sweep_hp].wosize + 1
    <3>1. HeapOK([fl EXCEPT !.merge = sweep_hp], chunks, "sweep", sweep_hp + fl.hd[sweep_hp].wosize + 1, chunk, live)
      BY <2>1, <2>3, SweepBlueStep
    <3> QED
      BY <2>1, <2>3, <3>1, Zenon DEF IInv
  <2>4. CASE /\ fl.hd[sweep_hp].color = "black"
             /\ fl' = [fl EXCEPT !.hd[sweep_hp].color = "white"] /\ sweep_hp' = sweep_hp + fl.hd[sweep_hp].wosize + 1
    <3>1. HeapOK([fl EXCEPT !.hd[sweep_hp].color = "white"], chunks, "sweep",
                 sweep_hp + fl.hd[sweep_hp].wosize + 1, chunk, live)
      BY <2>1, <2>4, SweepBlackStep
    <3> QED
      BY <2>1, <2>4, <3>1, Zenon DEF IInv
  <2> QED
    BY <1>3, <2>2, <2>3, <2>4, Zenon DEF SweepBlock
<1>4. CASE SweepChunk
  <2>1. /\ phase = "sweep" /\ sweep_hp = Limit /\ ChunkNext(chunk) # Null
        /\ chunk' = ChunkNext(chunk) /\ sweep_hp' = ChunkNext(chunk) /\ UNCHANGED <<fl, chunks, phase, live>>
    BY <1>4 DEF SweepChunk
  <2>2. HeapOK(fl, chunks, "sweep", ChunkNext(chunk), ChunkNext(chunk), live)
    BY <2>1, NextChunkStep
  <2> QED
    BY <2>1, <2>2, Zenon DEF IInv
<1>5. CASE EndSweep
  <2>1. /\ phase = "sweep" /\ sweep_hp = Limit /\ ChunkNext(chunk) = Null
        /\ phase' = "idle" /\ UNCHANGED <<fl, chunks, sweep_hp, chunk, live>>
    BY <1>5 DEF EndSweep
  <2> QED
    BY <2>1, EndStep, Zenon DEF IInv
<1> QED
  BY <1>1, <1>2, <1>3, <1>4, <1>5

\* What a compaction of the blocks that are reached does.
CompactTo(reached) ==
  LET s == Layout(InOrder(reached))
      hd == Moved(InOrder(reached), s.at)
  IN IF s.fl = Null
     THEN phase' = "panic" /\ UNCHANGED <<fl, live>>
     ELSE phase' = "idle" /\ fl' = Rebuild(hd, s.alloc) /\ live' = [a \in DOMAIN hd |-> hd[a].wosize]

\* A compaction keeps the invariant.
LEMMA CompactionStep ==
  ASSUME IInv, Compact
  PROVE  IInv'
<1>1. phase = "sweep" /\ sweep_hp = Limit /\ ChunkNext(chunk) = Null /\ UNCHANGED <<chunks, sweep_hp, chunk>>
  BY DEF Compact
<1>2. PICK reached \in SUBSET DOMAIN live : CompactTo(reached)
  BY Zenon DEF Compact, CompactTo, Moved
<1> DEFINE s == Layout(InOrder(reached))
           hd == Moved(InOrder(reached), s.at)
<1>3. CASE s.fl = Null
  <2>1. phase' = "panic" /\ UNCHANGED <<fl, live>>
    BY <1>2, <1>3 DEF CompactTo
  <2> QED
    BY <1>1, <2>1, PanicStep, Zenon DEF IInv
<1>4. CASE s.fl # Null
  <2>1. phase' = "idle" /\ fl' = Rebuild(hd, s.alloc) /\ live' = [a \in DOMAIN hd |-> hd[a].wosize]
    BY <1>2, <1>4, Zenon DEF CompactTo
  <2>2. HeapOK(Rebuild(hd, s.alloc), chunks, "idle", sweep_hp, chunk, [a \in DOMAIN hd |-> hd[a].wosize])
    BY <1>1, <1>4, CompactStep
  <2> QED
    BY <1>1, <2>1, <2>2, Zenon DEF IInv
<1> QED
  BY <1>3, <1>4

(***************************************************************************)
(* The heap is as IInv says after every step: blocks fill the chunks, the  *)
(* free list is the blue ones in order, the merge point and the table lead *)
(* into it, and the colours tell what is in use (freelist.c, major_gc.c).  *)
(***************************************************************************)
THEOREM SpecIInv == Spec => []IInv
<1>1. IInv /\ [Next]_vars => IInv'
  <2> SUFFICES ASSUME IInv, [Next]_vars PROVE IInv'
    OBVIOUS
  <2>1. CASE Allocate
    BY <2>1, AllocateStep DEF Allocate
  <2>2. CASE \E p \in Policies : SetPolicy(p)
    BY <2>2, SetPolicyStep
  <2>3. CASE StartCycle \/ EndMark \/ SweepBlock \/ SweepChunk \/ EndSweep
    BY <2>3, CollectorStep
  <2>4. CASE Compact
    BY <2>4, CompactionStep
  <2>5. CASE UNCHANGED vars
    BY <2>5, Zenon DEF vars, IInv
  <2> QED
    BY <2>1, <2>2, <2>3, <2>4, <2>5 DEF Next
<1> QED
  BY <1>1, InitStep, PTL DEF Spec

-----------------------------------------------------------------------------
(* Every word is in one place *)

\* The words from x on.
Extent(g, x) == x..x + g[x] - 1
Cover(g, S) == UNION {Extent(g, x) : x \in S}

\* Extents that have nothing in common cover as many words as they have.
LEMMA CoverSum ==
  ASSUME NEW S \in SUBSET Nat, IsFiniteSet(S), NEW g, \A x \in S : g[x] \in Nat,
         \A x, y \in S : x < y => x + g[x] <= y
  PROVE  IsFiniteSet(Cover(g, S)) /\ Cardinality(Cover(g, S)) = SumFunctionOnSet(g, S)
<1> DEFINE Q(s) == IsFiniteSet(Cover(g, s)) /\ Cardinality(Cover(g, s)) = SumFunctionOnSet(g, s)
           P == {n \in Nat : \A s \in SUBSET S : Cardinality(s) = n => Q(s)}
<1>0. \A u \in SUBSET S : IsFiniteSet(u) /\ Cardinality(u) \in Nat
  BY FS_Subset, FS_CardinalityType
<1>1. 0 \in P
  <2> SUFFICES ASSUME NEW s \in SUBSET S, Cardinality(s) = 0 PROVE Q(s)
    OBVIOUS
  <2>1. s = {}
    BY <1>0, FS_EmptySet
  <2>2. Cover(g, s) = {}
    BY <2>1 DEF Cover
  <2>3. SumFunctionOnSet(g, s) = 0
    BY <2>1, SumEmpty
  <2> QED
    BY <2>2, <2>3, FS_EmptySet
<1>2. ASSUME NEW n \in Nat, n \in P PROVE n + 1 \in P
  <2> SUFFICES ASSUME NEW s \in SUBSET S, Cardinality(s) = n + 1 PROVE Q(s)
    OBVIOUS
  <2>1. s # {} /\ IsFiniteSet(s)
    BY <1>0, FS_EmptySet
  <2>2. PICK x \in s : SumFunctionOnSet(g, s) = g[x] + SumFunctionOnSet(g, s \ {x})
    BY <2>1, SumSome
  <2> DEFINE r == s \ {x}
  <2>3. Cardinality(r) = n
    BY <2>1, RemoveOne
  <2>4. Q(r)
    BY <1>2, <2>3
  <2>5. x \in Nat /\ g[x] \in Nat /\ \A y \in r : y \in Nat /\ g[y] \in Nat /\ y # x
    OBVIOUS
  <2>6. IsFiniteSet(Extent(g, x)) /\ Cardinality(Extent(g, x)) = g[x]
    <3>1. x \in Int /\ x + g[x] - 1 \in Int
      BY <2>5
    <3>2. (IF x > x + g[x] - 1 THEN 0 ELSE (x + g[x] - 1) - x + 1) = g[x]
      BY <2>5
    <3> QED
      BY <3>1, <3>2, FS_Interval DEF Extent
  <2>7. Cover(g, s) = Cover(g, r) \cup Extent(g, x)
    <3>1. s = r \cup {x}
      OBVIOUS
    <3> QED
      BY <3>1 DEF Cover
  <2>8. Cover(g, r) \cap Extent(g, x) = {}
    <3> SUFFICES ASSUME NEW y \in r, NEW z \in Extent(g, y), z \in Extent(g, x) PROVE FALSE
      BY DEF Cover
    <3>1. y \in S /\ x \in S /\ y \in Nat /\ g[y] \in Nat /\ y # x
      BY <2>5
    <3>2. z \in Int /\ y <= z /\ z < y + g[y] /\ x <= z /\ z < x + g[x]
      BY <2>5, <3>1 DEF Extent
    <3>3. (x < y => x + g[x] <= y) /\ (y < x => y + g[y] <= x)
      BY <3>1
    <3> HIDE DEF r
    <3> QED
      BY <2>5, <3>1, <3>2, <3>3
  <2>9. Cardinality(Cover(g, r) \cap Extent(g, x)) = 0
    BY <2>8, FS_EmptySet
  <2>10. IsFiniteSet(Cover(g, s))
         /\ Cardinality(Cover(g, s)) = Cardinality(Cover(g, r)) + Cardinality(Extent(g, x)) - 0
    BY <2>4, <2>6, <2>7, <2>9, FS_Union
  <2>11. Cardinality(Cover(g, r)) \in Nat
    BY <2>4, FS_CardinalityType
  <2> HIDE DEF r
  <2>12. Cardinality(Cover(g, s)) = g[x] + Cardinality(Cover(g, r))
    BY <2>5, <2>6, <2>10, <2>11
  <2> QED
    BY <2>2, <2>4, <2>10, <2>12 DEF r
<1>3. \A n \in Nat : n \in P
  <2> HIDE DEF P
  <2> QED
    BY <1>1, <1>2, SetInduction
<1> QED
  BY <1>0, <1>3

\* The block that a word of a chunk is in.
LEMMA WordIsInBlock ==
  ASSUME NEW hd, IsHeap(hd), NEW p, Chunky(p), Tiled(hd, p), NEW c \in DOMAIN p, NEW x \in Nat, c <= x, x < c + p[c]
  PROVE  \E b \in DOMAIN hd : b <= x /\ x < Stop(hd, b)
<1> DEFINE S == {b \in DOMAIN hd : b <= x}
<1>1. \A y \in DOMAIN hd : y \in Nat /\ Stop(hd, y) \in Nat /\ y < Stop(hd, y)
  BY Stops
<1>2. \A d \in DOMAIN p : d \in DOMAIN hd /\ d \in Nat /\ p[d] \in Nat /\ p[d] >= 1
  BY Keys DEF Chunky, Tiled
<1>3. S \in SUBSET Nat /\ c \in S
  BY <1>1, <1>2
<1>4. PICK b \in S : \A k \in S : k <= b
  BY <1>3, GreatestNumber
<1>5. b \in DOMAIN hd /\ b <= x /\ c <= b
  BY <1>3, <1>4
<1>6. ASSUME Stop(hd, b) <= x PROVE FALSE
  <2>1. Stop(hd, b) \notin DOMAIN hd
    <3>1. Stop(hd, b) \in DOMAIN hd => Stop(hd, b) <= b
      BY <1>4, <1>6
    <3> QED
      BY <1>1, <1>5, <3>1
  <2>2. PICK d \in DOMAIN p : Stop(hd, b) = d + p[d]
    BY <1>5, <2>1 DEF Tiled, Limits
  <2>3. PICK e \in DOMAIN p : e <= b /\ Stop(hd, b) <= e + p[e]
    BY <1>5 DEF Tiled
  <2>4. e = c
    <3>1. b \in Nat /\ b < c + p[c] /\ b < e + p[e]
      BY <1>1, <1>2, <1>5, <2>3
    <3> QED
      BY <1>5, <2>3, <3>1, OneChunk
  <2>5. (d < c => d + p[d] < c) /\ (c < d => c + p[c] < d)
    BY DEF Chunky
  <2>6. b < d + p[d] /\ d + p[d] <= x
    BY <1>1, <1>5, <1>6, <2>2
  <2>7. d \in Nat /\ p[d] \in Nat /\ c \in Nat /\ p[c] \in Nat /\ b \in Nat
    BY <1>1, <1>2, <1>5
  <2> QED
    BY <1>5, <2>5, <2>6, <2>7
<1>7. x < Stop(hd, b)
  BY <1>1, <1>5, <1>6
<1> QED
  BY <1>5, <1>7

\* The words of each block.
WhSizes(f) == [b \in DOMAIN f.hd |-> Whsize(f, b)]

\* The words of each block, as numbers, and where it ends.
LEMMA SizesAre ==
  ASSUME NEW f, NEW ch, Solid(f, ch)
  PROVE  /\ IsFiniteSet(DOMAIN f.hd) /\ DOMAIN f.hd \in SUBSET Nat /\ DOMAIN f.hd \in SUBSET Addr
         /\ \A b \in DOMAIN f.hd : /\ WhSizes(f)[b] = Whsize(f, b) /\ WhSizes(f)[b] = f.hd[b].wosize + 1 /\ WhSizes(f)[b] \in Nat
                                   /\ WhSizes(f)[b] >= 1
                                   /\ b + WhSizes(f)[b] = Stop(f.hd, b) /\ Stop(f.hd, b) <= Words + 1
         /\ \A a, b \in DOMAIN f.hd : a < b => a + WhSizes(f)[a] <= b
<1>1. DOMAIN f.hd \in SUBSET Addr
  BY DEF Solid, IsFl
<1>2. IsFiniteSet(Addr) /\ Addr \in SUBSET Nat
  BY Spots, FS_Interval DEF Addr
<1>3. IsFiniteSet(DOMAIN f.hd) /\ DOMAIN f.hd \in SUBSET Nat
  BY <1>1, <1>2, FS_Subset
<1>4. IsHeap(f.hd) /\ \A x \in DOMAIN f.hd : Stop(f.hd, x) <= Words + 1
  BY SolidIs
<1>5. ASSUME NEW b \in DOMAIN f.hd
      PROVE  /\ WhSizes(f)[b] = Whsize(f, b) /\ WhSizes(f)[b] = f.hd[b].wosize + 1 /\ WhSizes(f)[b] \in Nat
             /\ WhSizes(f)[b] >= 1
             /\ b + WhSizes(f)[b] = Stop(f.hd, b)
  <2>1. b # FlHead
    BY <1>1, Keys
  <2>2. WhSizes(f)[b] = Whsize(f, b)
    BY DEF WhSizes
  <2>3. Whsize(f, b) = f.hd[b].wosize + 1
    BY <2>1 DEF Whsize, Wosize
  <2>4. b \in Nat /\ f.hd[b].wosize \in Nat /\ Stop(f.hd, b) = b + f.hd[b].wosize + 1
    BY <1>4, Stops
  <2> HIDE DEF Stop
  <2> QED
    BY <2>2, <2>3, <2>4
<1>6. \A a, b \in DOMAIN f.hd : a < b => a + WhSizes(f)[a] <= b
  BY <1>5 DEF Solid, Tiled
<1> QED
  BY <1>1, <1>3, <1>4, <1>5, <1>6

\* The words of some blocks are a sum of these.
LEMMA WordsAreSizes ==
  ASSUME NEW f, NEW ch, Solid(f, ch), NEW S \in SUBSET DOMAIN f.hd
  PROVE  IsFiniteSet(S) /\ WordsOf(f, S) = SumFunctionOnSet(WhSizes(f), S)
<1>1. IsFiniteSet(S)
  BY SizesAre, FS_Subset
<1> DEFINE g == [b \in S |-> Whsize(f, b)]
<1>2. \A b \in S : g[b] = WhSizes(f)[b]
  BY SizesAre
<1>3. WordsOf(f, S) = SumFunctionOnSet(g, S)
  BY DEF WordsOf, SumFunction
<1> HIDE DEF g
<1> QED
  BY <1>1, <1>2, <1>3, SumSame

\* The blocks of a set have no more words than there are.
LEMMA WordsFit ==
  ASSUME NEW f, NEW ch, Solid(f, ch), NEW S \in SUBSET DOMAIN f.hd
  PROVE  WordsOf(f, S) \in 0..Words
<1>1. /\ S \in SUBSET Nat /\ (\A x \in S : WhSizes(f)[x] \in Nat) /\ (\A x, y \in S : x < y => x + WhSizes(f)[x] <= y)
      /\ \A x \in S : x \in Addr /\ x + WhSizes(f)[x] <= Words + 1
  BY SizesAre
<1>2. IsFiniteSet(S) /\ WordsOf(f, S) = SumFunctionOnSet(WhSizes(f), S)
  BY WordsAreSizes
<1>3. IsFiniteSet(Cover(WhSizes(f), S)) /\ Cardinality(Cover(WhSizes(f), S)) = WordsOf(f, S)
  BY <1>1, <1>2, CoverSum
<1>4. Cover(WhSizes(f), S) \subseteq Addr
  <2> SUFFICES ASSUME NEW x \in S, NEW z \in Extent(WhSizes(f), x) PROVE z \in Addr
    BY DEF Cover
  <2>1. z \in Int /\ x <= z /\ z <= x + WhSizes(f)[x] - 1 /\ x \in Nat /\ x >= 1 /\ WhSizes(f)[x] \in Nat
    BY <1>1, Keys DEF Extent
  <2>2. z \in Nat /\ 1 <= z /\ z <= Words
    BY <1>1, <2>1, Spots
  <2> QED
    BY <2>2, Spots
<1>5. IsFiniteSet(Addr) /\ Cardinality(Addr) = Words /\ Words \in Nat
  <2>1. Words \in Nat /\ 1 \in Int /\ Words \in Int
    BY Spots
  <2>2. (IF 1 > Words THEN 0 ELSE Words - 1 + 1) = Words
    BY <2>1
  <2> QED
    BY <2>1, <2>2, FS_Interval DEF Addr
<1>6. Cardinality(Cover(WhSizes(f), S)) <= Words
  BY <1>4, <1>5, FS_Subset
<1>7. Cardinality(Cover(WhSizes(f), S)) \in Nat
  BY <1>3, FS_CardinalityType
<1> QED
  BY <1>3, <1>5, <1>6, <1>7

\* The blocks have the words of the chunks.
LEMMA WordsOfChunks ==
  ASSUME NEW f, NEW ch, Solid(f, ch)
  PROVE  WordsOf(f, DOMAIN f.hd) = SumFunction(ch)
<1> DEFINE D == DOMAIN f.hd
           E == DOMAIN ch
<1>1. /\ D \in SUBSET Nat /\ (\A x \in D : WhSizes(f)[x] \in Nat /\ x + WhSizes(f)[x] = Stop(f.hd, x))
      /\ (\A x, y \in D : x < y => x + WhSizes(f)[x] <= y)
  BY SizesAre
<1>2. IsFiniteSet(D) /\ WordsOf(f, D) = SumFunctionOnSet(WhSizes(f), D)
  BY WordsAreSizes
<1>3. Cardinality(Cover(WhSizes(f), D)) = WordsOf(f, D)
  BY <1>1, <1>2, CoverSum
<1>4. IsHeap(f.hd) /\ Chunky(ch) /\ Tiled(f.hd, ch)
  BY SolidIs DEF Solid
<1>5. E \in SUBSET D /\ E \in SUBSET Nat /\ IsFiniteSet(E)
  <2>1. E \in SUBSET D
    BY <1>4 DEF Tiled
  <2> QED
    BY <1>1, <1>2, <2>1, FS_Subset
<1>6. (\A x \in E : ch[x] \in Nat) /\ \A x, y \in E : x < y => x + ch[x] <= y
  <2>1. (\A x \in E : ch[x] \in Nat) /\ \A x, y \in E : x < y => x + ch[x] < y
    BY <1>4 DEF Chunky
  <2> QED
    BY <1>5, <2>1
<1>7. Cardinality(Cover(ch, E)) = SumFunctionOnSet(ch, E)
  BY <1>5, <1>6, CoverSum
<1>8. Cover(WhSizes(f), D) \subseteq Cover(ch, E)
  <2> SUFFICES ASSUME NEW x \in D, NEW z \in Extent(WhSizes(f), x) PROVE z \in Cover(ch, E)
    BY DEF Cover
  <2>1. PICK c \in E : c <= x /\ Stop(f.hd, x) <= c + ch[c]
    BY <1>4 DEF Tiled
  <2>2. z \in Int /\ x <= z /\ z <= x + WhSizes(f)[x] - 1 /\ x \in Nat /\ WhSizes(f)[x] \in Nat /\ x + WhSizes(f)[x] = Stop(f.hd, x)
    BY <1>1 DEF Extent
  <2>3. c \in Nat /\ ch[c] \in Nat
    BY <1>5, <1>6
  <2> HIDE DEF D, E
  <2>4. z \in Extent(ch, c)
    <3>1. c <= z /\ z <= c + ch[c] - 1
      BY <2>1, <2>2, <2>3
    <3> QED
      BY <2>2, <2>3, <3>1 DEF Extent
  <2> QED
    BY <2>4 DEF Cover
<1>9. Cover(ch, E) \subseteq Cover(WhSizes(f), D)
  <2> SUFFICES ASSUME NEW c \in E, NEW z \in Extent(ch, c) PROVE z \in Cover(WhSizes(f), D)
    BY DEF Cover
  <2>1. c \in Nat /\ ch[c] \in Nat /\ z \in Nat /\ c <= z /\ z < c + ch[c]
    BY <1>5, <1>6 DEF Extent
  <2>2. PICK b \in D : b <= z /\ z < Stop(f.hd, b)
    BY <1>4, <2>1, WordIsInBlock
  <2>3. b \in Nat /\ WhSizes(f)[b] \in Nat /\ b + WhSizes(f)[b] = Stop(f.hd, b)
    BY <1>1
  <2>4. z \in Extent(WhSizes(f), b)
    BY <2>1, <2>2, <2>3 DEF Extent
  <2> QED
    BY <2>4 DEF Cover
<1>10. Cover(WhSizes(f), D) = Cover(ch, E)
  BY <1>8, <1>9
<1> HIDE DEF D, E
<1>11. WordsOf(f, D) = SumFunctionOnSet(ch, E)
  BY <1>3, <1>7, <1>10
<1> QED
  BY <1>11 DEF SumFunction, D, E

\* Blocks that have nothing in common.
LEMMA WordsSplit ==
  ASSUME NEW f, NEW ch, Solid(f, ch), NEW S \in SUBSET DOMAIN f.hd, NEW T \in SUBSET DOMAIN f.hd, S \cap T = {}
  PROVE  WordsOf(f, S \cup T) = WordsOf(f, S) + WordsOf(f, T)
<1>1. IsFiniteSet(S) /\ IsFiniteSet(T) /\ \A x \in S \cup T : WhSizes(f)[x] \in Int
  <2>1. \A x \in S \cup T : WhSizes(f)[x] \in Nat
    BY SizesAre
  <2> QED
    BY <2>1, WordsAreSizes
<1>2. SumFunctionOnSet(WhSizes(f), S \cup T) = SumFunctionOnSet(WhSizes(f), S) + SumFunctionOnSet(WhSizes(f), T)
  BY <1>1, SumSplit
<1>3. S \cup T \in SUBSET DOMAIN f.hd
  OBVIOUS
<1>4. /\ WordsOf(f, S) = SumFunctionOnSet(WhSizes(f), S) /\ WordsOf(f, T) = SumFunctionOnSet(WhSizes(f), T)
      /\ WordsOf(f, S \cup T) = SumFunctionOnSet(WhSizes(f), S \cup T)
  BY <1>3, WordsAreSizes
<1> QED
  BY <1>2, <1>4

-----------------------------------------------------------------------------
(* What follows *)

\* The free blocks are the blue ones.
LEMMA FreeIsBlue == Free = Blue(fl)
BY DEF Free, Blue

\* The types follow from the invariant.
LEMMA TypesAre ==
  ASSUME IInv
  PROVE  TypeOK
<1>1. IsFl(fl) /\ ChunksInv(chunks) /\ Solid(fl, chunks) /\ Threaded(fl)
  BY DEF IInv, HeapOK, GoodHeap, Solid
<1>2. DOMAIN fl.hd \subseteq Addr /\ Range(fl.hd) \subseteq Block
  BY <1>1 DEF IsFl, Range
<1>3. /\ fl.next \in [Addr \cup {FlHead} -> Addr \cup {Null}]
      /\ fl.policy \in {"next fit", "first fit"}
      /\ fl.prev \in Addr \cup {FlHead} /\ fl.merge \in Addr \cup {FlHead}
      /\ fl.fragment \in Addr \cup {Null} /\ Len(fl.flp) <= FLP_MAX /\ fl.beyond \in Addr \cup {Null}
      /\ fl.flp \in Seq(Spot)
  BY <1>1, Zenon DEF IsFl, Spot
<1>4. Range(fl.flp) \subseteq Addr \cup {FlHead}
  <2>1. \A s \in Seq(Spot) : Range(s) \subseteq Spot
    BY DEF Range
  <2> QED
    BY <1>3, <2>1 DEF Spot
<1>5. fl.size \in 0..Words
  <2>1. fl.size = WordsOf(fl, Blue(fl)) /\ Blue(fl) \in SUBSET DOMAIN fl.hd
    BY <1>1 DEF Threaded, Blue
  <2> QED
    BY <1>1, <2>1, WordsFit
<1>6. DOMAIN chunks \subseteq Addr /\ Range(chunks) \subseteq 1..Words
  <2>1. DOMAIN chunks \subseteq Addr /\ \A c \in DOMAIN chunks : chunks[c] \in 2..Words
    BY <1>1 DEF ChunksInv
  <2>2. Words \in Nat
    BY Spots
  <2>3. \A c \in DOMAIN chunks : chunks[c] \in 1..Words
    BY <2>1, <2>2
  <2> QED
    BY <2>1, <2>3 DEF Range
<1>7. phase \in {"idle", "mark", "sweep", "panic"} /\ sweep_hp \in 0..Words + 1 /\ chunk \in DOMAIN chunks
  BY DEF IInv, HeapOK
<1>8. DOMAIN live \subseteq Addr /\ Range(live) \subseteq Requests
  <2>1. /\ live = [b \in UsedIn(fl.hd, phase, sweep_hp) |-> fl.hd[b].wosize]
        /\ \A b \in UsedIn(fl.hd, phase, sweep_hp) : fl.hd[b].wosize \in Requests
    BY DEF IInv, HeapOK, LiveIn
  <2>2. UsedIn(fl.hd, phase, sweep_hp) \subseteq DOMAIN fl.hd
    BY DEF UsedIn, Held
  <2> QED
    BY <1>2, <2>1, <2>2 DEF Range
<1> QED
  BY <1>2, <1>3, <1>4, <1>5, <1>6, <1>7, <1>8, Zenon DEF TypeOK

\* A limit that is in a chunk is that of the chunk.
LEMMA LimitInside ==
  ASSUME NEW p, Chunky(p), NEW c \in DOMAIN p, NEW x \in Limits(p), c < x, x <= c + p[c]
  PROVE  x = c + p[c]
<1>1. PICK d \in DOMAIN p : x = d + p[d]
  BY DEF Limits
<1>2. c \in Nat /\ d \in Nat /\ p[c] \in Nat /\ p[d] \in Nat /\ p[d] >= 1
  BY Keys DEF Chunky
<1>3. (d < c => d + p[d] < c) /\ (c < d => c + p[c] < d)
  BY DEF Chunky
<1> QED
  BY <1>1, <1>2, <1>3

\* So does the tiling of the chunks,
LEMMA TiledIs ==
  ASSUME IInv
  PROVE  HeapIsTiled
<1>1. Solid(fl, chunks) /\ Tiled(fl.hd, chunks) /\ ChunksInv(chunks) /\ Chunky(chunks) /\ IsHeap(fl.hd)
  BY SolidIs DEF IInv, HeapOK, GoodHeap, Solid
<1>2. \A x \in DOMAIN fl.hd : x \in Nat /\ Stop(fl.hd, x) \in Nat /\ x < Stop(fl.hd, x)
  BY <1>1, Stops
<1>3. \A b \in DOMAIN fl.hd : End(b) = Stop(fl.hd, b)
  <2> SUFFICES ASSUME NEW b \in DOMAIN fl.hd PROVE End(b) = Stop(fl.hd, b)
    OBVIOUS
  <2>1. WhSizes(fl)[b] = Whsize(fl, b) /\ b + WhSizes(fl)[b] = Stop(fl.hd, b)
    BY <1>1, SizesAre
  <2> QED
    BY <2>1 DEF End
<1>4. \A c \in DOMAIN chunks : c \in Nat /\ chunks[c] \in Nat /\ chunks[c] >= 1 /\ c \in DOMAIN fl.hd
  BY <1>1, Keys DEF Chunky, Tiled
<1>5. \A c \in DOMAIN chunks : c \in Boundary(c)
  BY <1>4 DEF Boundary
<1>6. ASSUME NEW c \in DOMAIN chunks, NEW b \in Boundary(c)
      PROVE  End(b) \in Boundary(c) \cup {c + chunks[c]} /\ \A d \in Boundary(c) : d > b => d >= End(b)
  <2>1. b \in DOMAIN fl.hd /\ c <= b /\ b < c + chunks[c]
    BY <1>4 DEF Boundary
  <2>2. PICK e \in DOMAIN chunks : e <= b /\ Stop(fl.hd, b) <= e + chunks[e]
    BY <1>1, <2>1 DEF Tiled
  <2>3. e = c
    <3>1. b < e + chunks[e]
      BY <1>2, <1>4, <2>1, <2>2
    <3> QED
      BY <1>1, <1>2, <2>1, <2>2, <3>1, OneChunk
  <2>4. c < Stop(fl.hd, b) /\ Stop(fl.hd, b) <= c + chunks[c]
    BY <1>2, <1>4, <2>1, <2>2, <2>3
  <2>5. Stop(fl.hd, b) \in DOMAIN fl.hd \cup Limits(chunks)
    BY <1>1, <2>1 DEF Tiled
  <2>6. Stop(fl.hd, b) \in Limits(chunks) => Stop(fl.hd, b) = c + chunks[c]
    BY <1>1, <2>4, LimitInside
  <2>7. Stop(fl.hd, b) \in DOMAIN fl.hd => Stop(fl.hd, b) \in Boundary(c) \cup {c + chunks[c]}
    <3> DEFINE x == Stop(fl.hd, b)
    <3>1. x \in Nat
      BY <1>2, <2>1
    <3> HIDE DEF x
    <3>2. c <= x /\ (x = c + chunks[c] \/ x <= c + chunks[c] - 1)
      BY <1>4, <2>4, <3>1 DEF x
    <3> QED
      BY <1>4, <3>1, <3>2 DEF Boundary, x
  <2>8. \A d \in Boundary(c) : d > b => d >= Stop(fl.hd, b)
    <3>1. \A d \in DOMAIN fl.hd : b < d => Stop(fl.hd, b) <= d
      BY <1>1, <2>1 DEF Tiled
    <3> QED
      BY <1>2, <2>1, <3>1 DEF Boundary
  <2> QED
    BY <1>3, <2>1, <2>5, <2>6, <2>7, <2>8
<1>7. ASSUME phase = "sweep" PROVE sweep_hp \in Boundary(chunk) \cup {Limit}
  <2>1. chunk \in DOMAIN chunks /\ SweepAt(fl, chunks, chunk, sweep_hp)
    BY <1>7 DEF IInv, HeapOK
  <2>2. sweep_hp \in DOMAIN fl.hd \cup {chunk + chunks[chunk]} /\ chunk <= sweep_hp /\ sweep_hp <= chunk + chunks[chunk]
    BY <2>1 DEF SweepAt
  <2>3. CASE sweep_hp = chunk + chunks[chunk]
    BY <2>3 DEF Limit
  <2>4. CASE sweep_hp # chunk + chunks[chunk]
    <3>1. sweep_hp \in DOMAIN fl.hd /\ sweep_hp \in Nat /\ chunk \in Nat /\ chunks[chunk] \in Nat
      BY <1>2, <1>4, <2>1, <2>2, <2>4
    <3>2. sweep_hp \in chunk..chunk + chunks[chunk] - 1
      BY <2>2, <2>4, <3>1
    <3> QED
      BY <3>1, <3>2 DEF Boundary
  <2> QED
    BY <2>3, <2>4
<1> QED
  BY <1>5, <1>6, <1>7 DEF HeapIsTiled

\* the free list,
LEMMA ListIsBlue ==
  ASSUME IInv
  PROVE  FreeListIsBlue
<1> DEFINE L == List(fl)
<1>1. IsFl(fl) /\ Threaded(fl) /\ Linked(fl.next, Blue(fl))
  BY DEF IInv, HeapOK, GoodHeap, Solid, Threaded
<1>2. IsList(fl, L) /\ \A a \in Blue(fl) \cup {FlHead} : \E i \in 1..Len(L) : L[i] = a
  BY <1>1, ListIs
<1> HIDE DEF L
<1>3. /\ L \in Seq(Spot) /\ Len(L) \in Nat \ {0} /\ L[1] = FlHead
      /\ (\A i \in 2..Len(L) : L[i] \in Blue(fl)) /\ \A i, j \in 2..Len(L) : i < j => L[i] < L[j]
  BY <1>2 DEF IsList
<1>4. \A i \in 3..Len(L) : L[i - 1] < L[i]
  <2> SUFFICES ASSUME NEW i \in 3..Len(L) PROVE L[i - 1] < L[i]
    OBVIOUS
  <2>1. i - 1 \in 2..Len(L) /\ i \in 2..Len(L) /\ i - 1 < i
    BY <1>3
  <2> QED
    BY <1>3, <2>1
<1>5. {L[i] : i \in 2..Len(L)} = Blue(fl)
  <2>1. ASSUME NEW a \in Blue(fl) PROVE \E i \in 2..Len(L) : L[i] = a
    <3>1. PICK i \in 1..Len(L) : L[i] = a
      BY <1>2
    <3>2. a # FlHead
      BY <1>1, BlueIs, Keys
    <3>3. i # 1
      BY <1>3, <3>1, <3>2
    <3>4. i \in 2..Len(L)
      BY <1>3, <3>3
    <3> QED
      BY <3>1, <3>4
  <2> QED
    BY <1>3, <2>1
<1>6. \A a \in Blue(fl) \cup {FlHead} : a \in Range(L)
  <2>1. \A s \in Seq(Spot) : \A i \in 1..Len(s) : s[i] \in Range(s)
    BY DEF Range
  <2> QED
    BY <1>2, <1>3, <2>1
<1>7. /\ fl.size = WordsOf(fl, Blue(fl))
      /\ fl.merge \in Blue(fl) \cup {FlHead}
      /\ fl.policy = "next fit" => fl.prev \in Blue(fl) \cup {FlHead}
  BY <1>1 DEF Threaded
<1>8. /\ fl.merge \in Range(L)
      /\ fl.policy = "next fit" => fl.prev \in Range(L)
  BY <1>6, <1>7
<1> QED
  BY <1>4, <1>5, <1>7, <1>8, FreeIsBlue, Zenon DEF FreeListIsBlue, L

\* the statistics,
LEMMA LiveIsCounted ==
  ASSUME IInv
  PROVE  StatsCountLive
<1> DEFINE D == DOMAIN fl.hd
           U == UsedIn(fl.hd, phase, sweep_hp)
           blocks == {b \in D : Wosize(fl, b) > 0}
           used == {b \in blocks \ Free : fl.hd[b].color = "white" => Swept(b)}
           s == HeapStats
<1>1. Solid(fl, chunks) /\ LiveIn(fl.hd, phase, sweep_hp, live)
  BY DEF IInv, HeapOK, GoodHeap
<1>2. D \in SUBSET Addr /\ IsFiniteSet(D) /\ \A b \in D : Wosize(fl, b) = fl.hd[b].wosize /\ b # FlHead /\ fl.hd[b].wosize \in Nat
  <2>1. D \in SUBSET Addr /\ IsFiniteSet(D) /\ IsHeap(fl.hd)
    BY <1>1, SizesAre, SolidIs
  <2>2. \A b \in D : b # FlHead /\ fl.hd[b].wosize \in Nat
    BY <2>1, Keys, Stops
  <2> QED
    BY <2>1, <2>2 DEF Wosize
<1>3. used = U
  <2>1. blocks \ Free = Held(fl.hd)
    BY <1>2 DEF Held, Free
  <2> QED
    BY <2>1 DEF UsedIn, Swept
<1>4. live = [b \in U |-> fl.hd[b].wosize] /\ DOMAIN live = U
  BY <1>1 DEF LiveIn
<1>5. \A b \in DOMAIN live : b \in D /\ Wosize(fl, b) = live[b]
  <2>1. U \subseteq D
    BY DEF UsedIn, Held
  <2> QED
    BY <1>2, <1>4, <2>1
<1>6. /\ s.live_words = WordsOf(fl, used) /\ s.live_blocks = Cardinality(used)
      /\ s.free_words = WordsOf(fl, blocks \ used) /\ s.fragments = Cardinality(D \ blocks)
  BY DEF HeapStats
<1> HIDE DEF s, used
<1>7. s.live_blocks = Cardinality(DOMAIN live)
  BY <1>3, <1>4, <1>6
<1>8. WordsOf(fl, U) = SumFunction([b \in DOMAIN live |-> live[b] + 1])
  <2>1. \A b \in U : Whsize(fl, b) = live[b] + 1
    BY <1>4, <1>5 DEF Whsize
  <2>2. [b \in U |-> Whsize(fl, b)] = [b \in DOMAIN live |-> live[b] + 1]
    BY <1>4, <2>1
  <2> QED
    BY <2>2 DEF WordsOf
<1>9. Cardinality(D \ blocks) = WordsOf(fl, D \ blocks)
  <2>1. IsFiniteSet(D \ blocks) /\ WordsOf(fl, D \ blocks) = SumFunctionOnSet(WhSizes(fl), D \ blocks)
    BY <1>1, WordsAreSizes
  <2>2. \A b \in D \ blocks : WhSizes(fl)[b] = 1
    <3> SUFFICES ASSUME NEW b \in D \ blocks PROVE WhSizes(fl)[b] = 1
      OBVIOUS
    <3>1. fl.hd[b].wosize \in Nat /\ ~ (fl.hd[b].wosize > 0)
      BY <1>2
    <3>2. WhSizes(fl)[b] = fl.hd[b].wosize + 1
      BY <1>1, SizesAre
    <3> QED
      BY <3>1, <3>2
  <2> HIDE DEF D, blocks
  <2> QED
    BY <2>1, <2>2, SumOnes
<1>10. U \subseteq blocks /\ blocks \subseteq D
  BY <1>3 DEF used
<1> HIDE DEF D, U, blocks
<1>11. WordsOf(fl, U) + WordsOf(fl, blocks \ U) = WordsOf(fl, blocks)
  <2>1. U \cup (blocks \ U) = blocks /\ U \cap (blocks \ U) = {} /\ U \in SUBSET DOMAIN fl.hd /\ blocks \ U \in SUBSET DOMAIN fl.hd
    BY <1>10 DEF D
  <2>2. WordsOf(fl, U \cup (blocks \ U)) = WordsOf(fl, U) + WordsOf(fl, blocks \ U)
    BY <1>1, <2>1, WordsSplit
  <2> QED
    BY <2>1, <2>2
<1>12. WordsOf(fl, blocks) + WordsOf(fl, D \ blocks) = WordsOf(fl, D)
  <2>1. blocks \cup (D \ blocks) = D /\ blocks \cap (D \ blocks) = {} /\ blocks \in SUBSET DOMAIN fl.hd /\ D \ blocks \in SUBSET DOMAIN fl.hd
    BY <1>10 DEF D
  <2>2. WordsOf(fl, blocks \cup (D \ blocks)) = WordsOf(fl, blocks) + WordsOf(fl, D \ blocks)
    BY <1>1, <2>1, WordsSplit
  <2> QED
    BY <2>1, <2>2
<1>13. WordsOf(fl, D) = SumFunction(chunks)
  BY <1>1, WordsOfChunks DEF D
<1>14. s.live_words + s.free_words + s.fragments = SumFunction(chunks)
  <2>1. s.live_words = WordsOf(fl, U) /\ s.free_words = WordsOf(fl, blocks \ U) /\ s.fragments = WordsOf(fl, D \ blocks)
    BY <1>3, <1>6, <1>9
  <2> QED
    BY <1>11, <1>12, <1>13, <2>1
<1>15. s.live_words = SumFunction([b \in DOMAIN live |-> live[b] + 1])
  BY <1>3, <1>6, <1>8
<1> QED
  BY <1>5, <1>7, <1>14, <1>15, Zenon DEF StatsCountLive, s, D

\* the merge point,
LEMMA MergeIsLast ==
  ASSUME IInv
  PROVE  MergePointIsLast
<1> SUFFICES ASSUME phase = "sweep"
             PROVE  LET before == {b \in Free : b < sweep_hp}
                    IN fl.merge = IF before = {} THEN FlHead ELSE Max(before)
  BY DEF MergePointIsLast
<1> DEFINE before == {b \in Free : b < sweep_hp}
<1>1. LastBefore(Blue(fl), fl.merge, sweep_hp) /\ IsFl(fl) /\ sweep_hp \in 0..Words + 1
  BY DEF IInv, HeapOK, SweepAt, GoodHeap, Solid
<1>2. /\ fl.merge \in Free \cup {FlHead} /\ (fl.merge = FlHead \/ fl.merge < sweep_hp)
      /\ \A b \in Free : b < sweep_hp => fl.merge # FlHead /\ b <= fl.merge
  BY <1>1, FreeIsBlue DEF LastBefore
<1>3. before \in SUBSET Nat /\ sweep_hp \in Nat /\ Free \in SUBSET Nat
  <2>1. Free \subseteq Addr
    BY <1>1, FreeIsBlue, BlueIs
  <2> QED
    BY <1>1, <2>1, Keys, Spots
<1>4. CASE before = {}
  BY <1>2, <1>4
<1>5. CASE before # {}
  <2>1. fl.merge \in before /\ \A b \in before : b <= fl.merge
    BY <1>2, <1>5
  <2>2. Max(before) \in before /\ \A b \in before : b <= Max(before)
    <3>1. \A b \in before : b <= sweep_hp
      BY <1>3
    <3> QED
      BY <1>3, <1>5, <3>1, MaxIs
  <2>3. fl.merge \in Nat /\ Max(before) \in Nat /\ fl.merge <= Max(before) /\ Max(before) <= fl.merge
    BY <1>3, <2>1, <2>2
  <2>4. fl.merge = Max(before)
    BY <2>3
  <2> QED
    BY <1>5, <2>4
<1> QED
  BY <1>4, <1>5

\* and the table.
LEMMA EntriesLead ==
  ASSUME IInv
  PROVE  FlpLeads
<1> SUFFICES ASSUME fl.policy = "first fit"
             PROVE  LET entry(k) == fl.flp[k]
                        to(k) == fl.next[fl.flp[k]]
                    IN /\ \A k \in DOMAIN fl.flp : entry(k) \in Free \cup {FlHead} /\ to(k) \in Free
                       /\ \A k, l \in DOMAIN fl.flp : k < l => entry(l) \in Free /\ to(k) <= entry(l)
                       /\ fl.beyond # Null => fl.beyond \in Free /\ \A k \in DOMAIN fl.flp : to(k) <= fl.beyond
  BY DEF FlpLeads
<1> DEFINE B == Blue(fl)
           s == fl.flp
<1>1. Entries(B, s) /\ Beyond(B, s, fl.beyond) /\ Linked(fl.next, B) /\ IsFl(fl)
  BY DEF IInv, HeapOK, GoodHeap, Solid, Threaded, Tabled
<1>2. B \in SUBSET Addr
  BY <1>1, BlueIs
<1>3. DOMAIN s = 1..Len(s)
  <2>1. s \in Seq(Spot)
    BY <1>1, Zenon DEF IsFl
  <2> QED
    BY <2>1, LenProperties
<1> HIDE DEF B, s
<1>4. \A a \in B \cup {FlHead} : /\ After(B, a) # {} => fl.next[a] \in B
                                 /\ \A b \in After(B, a) : fl.next[a] <= b /\ b \in B
  <2>1. \A a \in B \cup {FlHead} :
           /\ fl.next[a] = Null <=> After(B, a) = {}
           /\ fl.next[a] # Null => fl.next[a] \in B
           /\ \A b \in After(B, a) : fl.next[a] <= b
    BY <1>1, <1>2, NextIs
  <2> QED
    BY <2>1 DEF After
<1>5. /\ \A k \in 1..Len(s) : s[k] \in B \cup {FlHead} /\ After(B, s[k]) # {}
      /\ \A k, l \in 1..Len(s) : k < l => s[l] \in After(B, s[k])
      /\ fl.beyond # Null => fl.beyond \in B /\ \A k \in 1..Len(s) : fl.beyond \in After(B, s[k])
  BY <1>1 DEF Entries, Beyond
<1>6. /\ \A k \in 1..Len(s) : s[k] \in B \cup {FlHead} /\ fl.next[s[k]] \in B
      /\ \A k, l \in 1..Len(s) : k < l => s[l] \in B /\ fl.next[s[k]] <= s[l]
      /\ fl.beyond # Null => fl.beyond \in B /\ \A k \in 1..Len(s) : fl.next[s[k]] <= fl.beyond
  BY <1>4, <1>5, Zenon
<1> QED
  BY <1>3, <1>6, FreeIsBlue, Zenon DEF B, s

(***************************************************************************)
(* Blocks fill the chunks, the blue ones are the free list in the order of *)
(* the addresses, and the statistics count the others, with any number of  *)
(* words, chunks and requests (memory.c:277-279, freelist.c:51-82,         *)
(* gc_ctrl.c:153-216).                                                     *)
(***************************************************************************)
THEOREM SpecHeapIsWellFormed == Spec => []HeapIsWellFormed
<1>1. IInv => HeapIsWellFormed
  BY TypesAre, TiledIs, ListIsBlue, LiveIsCounted DEF HeapIsWellFormed
<1> QED
  BY <1>1, SpecIInv, PTL

(***************************************************************************)
(* caml_fl_merge is the last free block before the sweeper, and the entries *)
(* of the first-fit table lead to free blocks, in order, after whatever was *)
(* allocated, freed, added or compacted in between (freelist.c:188-234,    *)
(* freelist.c:494-496).                                                    *)
(***************************************************************************)
THEOREM SpecPlacesAreCurrent == Spec => []PlacesAreCurrent
<1>1. IInv => PlacesAreCurrent
  BY MergeIsLast, EntriesLead DEF PlacesAreCurrent
<1> QED
  BY <1>1, SpecIInv, PTL

-----------------------------------------------------------------------------
(* The heap is an allocator *)

\* The words of the blocks that are live are nobody else's.
LEMMA LiveIsApart ==
  ASSUME NEW f, NEW ch, NEW ph, NEW sw, NEW c, NEW lv, HeapOK(f, ch, ph, sw, c, lv)
  PROVE  Abstract!Apart(lv) /\ Abstract!Inside(lv) /\ DOMAIN lv \in SUBSET Addr
<1>1. Solid(f, ch) /\ LiveIn(f.hd, ph, sw, lv)
  BY DEF HeapOK, GoodHeap
<1>2. DOMAIN lv \subseteq DOMAIN f.hd /\ \A b \in DOMAIN lv : lv[b] = f.hd[b].wosize
  <2>1. UsedIn(f.hd, ph, sw) \subseteq DOMAIN f.hd
    BY DEF UsedIn, Held
  <2> QED
    BY <1>1, <2>1 DEF LiveIn
<1>3. \A b \in DOMAIN lv : /\ b \in Nat /\ lv[b] \in Nat /\ b \in Addr
                           /\ b + lv[b] + 1 <= Words + 1 /\ \A e \in DOMAIN lv : b < e => b + lv[b] + 1 <= e
  <2> SUFFICES ASSUME NEW b \in DOMAIN lv
               PROVE  /\ b \in Nat /\ lv[b] \in Nat /\ b \in Addr
                      /\ b + lv[b] + 1 <= Words + 1 /\ \A e \in DOMAIN lv : b < e => b + lv[b] + 1 <= e
    OBVIOUS
  <2>1. b \in DOMAIN f.hd /\ lv[b] = f.hd[b].wosize /\ \A e \in DOMAIN lv : e \in DOMAIN f.hd
    BY <1>2
  <2>2. IsHeap(f.hd) /\ Stop(f.hd, b) <= Words + 1 /\ b \in Addr
    BY <1>1, <2>1, SizesAre, SolidIs
  <2>3. b \in Nat /\ f.hd[b].wosize \in Nat /\ Stop(f.hd, b) = b + f.hd[b].wosize + 1
    BY <2>1, <2>2, Stops
  <2>4. \A e \in DOMAIN f.hd : b < e => Stop(f.hd, b) <= e
    BY <1>1, <2>1 DEF Solid, Tiled
  <2> HIDE DEF Stop
  <2> QED
    BY <2>1, <2>2, <2>3, <2>4
<1>4. Abstract!Apart(lv)
  <2> SUFFICES ASSUME NEW a \in DOMAIN lv, NEW b \in DOMAIN lv, a # b, NEW x, x \in a..a + lv[a], x \in b..b + lv[b]
               PROVE  FALSE
    BY DEF Abstract!Apart, Abstract!Extent
  <2>1. a \in Nat /\ b \in Nat /\ lv[a] \in Nat /\ lv[b] \in Nat /\ x \in Int
        /\ (a < b => a + lv[a] + 1 <= b) /\ (b < a => b + lv[b] + 1 <= a)
    BY <1>3
  <2> QED
    BY <2>1
<1>5. Abstract!Inside(lv)
  <2> SUFFICES ASSUME NEW a \in DOMAIN lv, NEW x \in a..a + lv[a] PROVE x \in 1..Words
    BY DEF Abstract!Inside, Abstract!Extent
  <2>1. a \in Nat /\ a >= 1 /\ lv[a] \in Nat /\ a + lv[a] + 1 <= Words + 1 /\ Words \in Nat
    BY <1>3, Spots, Keys
  <2> QED
    BY <2>1
<1> QED
  BY <1>3, <1>4, <1>5

\* The same, of the heap as it is.
LEMMA LiveApartNow ==
  ASSUME IInv
  PROVE  Abstract!Apart(live) /\ Abstract!Inside(live) /\ DOMAIN live \in SUBSET Addr
BY LiveIsApart DEF IInv

\* An allocation makes one block live that was not.
LEMMA AllocatesOne ==
  ASSUME IInv, NEW n \in Requests, AllocFromList(n) \/ AllocExpanding(n)
  PROVE  \E hp : live' = Over(MapsTo(hp, n), live) /\ hp \notin DOMAIN live
<1>1. CASE AllocFromList(n)
  <2> DEFINE r == FlAllocate(fl, n)
  <2>1. r.hp # Null /\ Allocated(r, n)
    BY <1>1 DEF AllocFromList
  <2>2. r.hp \notin DOMAIN live
    BY <2>1, FromListStep
  <2> HIDE DEF r
  <2> QED
    BY <2>1, <2>2 DEF Allocated
<1>2. CASE AllocExpanding(n)
  <2> DEFINE s == ChunkSize(n)
  <2>1. FlAllocate(fl, n).hp = Null
    BY <1>2 DEF AllocExpanding
  <2>2. PICK a \in Fits(s) : Allocated(FlAllocate(GrownFrom(FlAllocate(fl, n), a, s), n), n)
    BY <1>2, Zenon DEF AllocExpanding, GrownFrom
  <2> DEFINE r == FlAllocate(GrownFrom(FlAllocate(fl, n), a, s), n)
  <2>3. r.hp \notin DOMAIN live
    BY <2>1, ExpandingStep
  <2>4. Allocated(r, n)
    BY <2>2
  <2> HIDE DEF r
  <2> QED
    BY <2>3, <2>4 DEF Allocated
<1> QED
  BY <1>1, <1>2

\* It is an allocation of module Allocator.
LEMMA AllocationIs ==
  ASSUME IInv, IInv', NEW n \in Requests, AllocFromList(n) \/ AllocExpanding(n)
  PROVE  Abstract!Allocate
<1>1. PICK hp : live' = Over(MapsTo(hp, n), live) /\ hp \notin DOMAIN live
  BY AllocatesOne
<1>2. live' = [b \in DOMAIN live \cup {hp} |-> IF b = hp THEN n ELSE live[b]]
  <2> DEFINE g == MapsTo(hp, n)
             u == Over(g, live)
             v == [b \in DOMAIN live \cup {hp} |-> IF b = hp THEN n ELSE live[b]]
  <2>1. DOMAIN g = {hp} /\ g[hp] = n
    BY DEF MapsTo
  <2> HIDE DEF g
  <2>2. u = [x \in DOMAIN g \cup DOMAIN live |-> IF x \in DOMAIN g THEN g[x] ELSE live[x]]
    BY DEF Over
  <2>3. \A x : (IF x \in DOMAIN g THEN g[x] ELSE live[x]) = (IF x = hp THEN n ELSE live[x])
    BY <2>1
  <2>4. DOMAIN g \cup DOMAIN live = DOMAIN live \cup {hp}
    BY <2>1
  <2>5. u = v
    BY <2>2, <2>3, <2>4
  <2> QED
    BY <1>1, <2>5 DEF g
<1>3. Abstract!Apart(live') /\ Abstract!Inside(live') /\ DOMAIN live' \in SUBSET Addr
  <2>1. HeapOK(fl', chunks', phase', sweep_hp', chunk', live')
    BY Zenon DEF IInv
  <2> QED
    BY <2>1, LiveIsApart
<1>4. hp \in DOMAIN live'
  BY <1>2
<1>5. hp \in 1..Words \ DOMAIN live
  BY <1>1, <1>3, <1>4 DEF Addr
<1> QED
  BY <1>2, <1>3, <1>5, Zenon DEF Abstract!Allocate

\* The end of marking is a collection of module Allocator.
LEMMA MarkingIs ==
  ASSUME EndMark
  PROVE  Abstract!Collect
<1>1. PICK marked \in SUBSET DOMAIN live : live' = Without(live, DOMAIN live \ marked)
  BY DEF EndMark
<1>2. DOMAIN live \ (DOMAIN live \ marked) = marked
  OBVIOUS
<1>3. live' = [b \in marked |-> live[b]]
  BY <1>1, <1>2 DEF Without
<1> QED
  BY <1>3 DEF Abstract!Collect

\* A compaction is one of module Allocator.
LEMMA CompactionIs ==
  ASSUME IInv, IInv', Compact
  PROVE  Abstract!Compact \/ live' = live
<1>1. phase = "sweep" /\ sweep_hp = Limit /\ ChunkNext(chunk) = Null
  BY DEF Compact
<1>2. PICK reached \in SUBSET DOMAIN live : CompactTo(reached)
  BY Zenon DEF Compact, CompactTo, Moved
<1> DEFINE B == InOrder(reached)
           s == Layout(B)
           hd == Moved(B, s.at)
<1>3. CASE s.fl = Null
  BY <1>2, <1>3 DEF CompactTo
<1>4. CASE s.fl # Null
  <2>1. live' = [a \in DOMAIN hd |-> hd[a].wosize]
    BY <1>2, <1>4, Zenon DEF CompactTo
  <2>2. /\ Packing(B) /\ (\A i \in 1..Len(B) : B[i] \in reached)
        /\ \A x \in reached : \E i \in 1..Len(B) : B[i] = x
    BY <1>1, PackingIs
  <2> HIDE DEF B
  <2>3. LaidOut(B, Len(B), s)
    BY <1>4, <2>2, LayoutIs
  <2> HIDE DEF s
  <2>4. /\ s.at \in Seq(Addr) /\ Len(s.at) = Len(B) /\ Distinct(s.at) /\ \A i \in 1..Len(B) : s.at[i] <= B[i]
    BY <2>3 DEF LaidOut
  <2>5. DOMAIN hd = {s.at[i] : i \in 1..Len(B)} /\ \A i \in 1..Len(B) : hd[s.at[i]] = MovedBlock(B, i)
    BY <2>4, MovedIs
  <2>6. \A i, j \in 1..Len(B) : s.at[i] = s.at[j] => i = j
    BY <2>4 DEF Distinct
  <2> HIDE DEF hd
  <2>7. \A i \in 1..Len(B) : hd[s.at[i]].wosize = live[B[i]]
    <3> SUFFICES ASSUME NEW i \in 1..Len(B) PROVE hd[s.at[i]].wosize = live[B[i]]
      OBVIOUS
    <3>1. hd[s.at[i]] = MovedBlock(B, i)
      BY <2>5
    <3>2. MovedBlock(B, i).wosize = live[B[i]]
      BY DEF MovedBlock
    <3> QED
      BY <3>1, <3>2
  <2> DEFINE pos == [a \in reached |-> CHOOSE i \in 1..Len(B) : B[i] = a]
             to == [a \in reached |-> s.at[pos[a]]]
  <2>8. \A a \in reached : pos[a] \in 1..Len(B) /\ B[pos[a]] = a /\ to[a] = s.at[pos[a]]
    BY <2>2
  <2>9. DOMAIN to = reached /\ to = [a \in reached |-> to[a]]
    OBVIOUS
  <2>10. DOMAIN live' = DOMAIN hd /\ \A i \in 1..Len(B) : s.at[i] \in DOMAIN hd /\ live'[s.at[i]] = live[B[i]]
    BY <2>1, <2>5, <2>7
  <2>11. \A i \in 1..Len(B) : \E a \in reached : pos[a] = i
    <3> SUFFICES ASSUME NEW i \in 1..Len(B) PROVE pos[B[i]] = i /\ B[i] \in reached
      OBVIOUS
    <3>1. B[i] \in reached /\ pos[B[i]] \in 1..Len(B) /\ B[pos[B[i]]] = B[i]
      BY <2>2, <2>8
    <3>2. Len(B) \in Nat /\ \A j, k \in 1..Len(B) : j < k => B[j] < B[k]
      BY <2>2 DEF Packing
    <3>3. \A j \in 1..Len(B) : B[j] \in Nat
      BY <2>2, ChunkOfBlock
    <3> HIDE DEF pos
    <3>4. \A j, k \in 1..Len(B) : B[j] = B[k] => j = k
      <4> SUFFICES ASSUME NEW j \in 1..Len(B), NEW k \in 1..Len(B), B[j] = B[k], j # k PROVE FALSE
        OBVIOUS
      <4>1. j < k \/ k < j
        BY <3>2
      <4>2. B[j] < B[k] \/ B[k] < B[j]
        BY <3>2, <4>1
      <4> QED
        BY <3>3, <4>2
    <3> QED
      BY <3>1, <3>4
  <2> HIDE DEF pos, to
  <2>12. \A a \in reached : to[a] \in DOMAIN live' /\ to[a] <= a /\ live'[to[a]] = live[a]
    BY <2>4, <2>8, <2>10
  <2>13. \A a, b \in reached : a # b => to[a] # to[b]
    BY <2>6, <2>8
  <2>14. \A c \in DOMAIN live' : \E a \in reached : to[a] = c
    BY <2>5, <2>8, <2>10, <2>11
  <2>15. to \in [reached -> DOMAIN live']
    BY <2>9, <2>12
  <2>16. Abstract!Apart(live') /\ Abstract!Inside(live')
    <3>1. HeapOK(fl', chunks', phase', sweep_hp', chunk', live')
      BY Zenon DEF IInv
    <3> QED
      BY <3>1, LiveIsApart
  <2> QED
    BY <2>12, <2>13, <2>14, <2>15, <2>16, Zenon DEF Abstract!Compact
<1> QED
  BY <1>3, <1>4

\* Every step is one of module Allocator, or changes nothing there.
LEMMA StepIsAllocator ==
  ASSUME IInv, IInv', [Next]_vars
  PROVE  [Abstract!Next]_live
<1>1. CASE Allocate
  <2>1. PICK n \in Requests : AllocFromList(n) \/ AllocExpanding(n) \/ AllocFails(n)
    BY <1>1 DEF Allocate
  <2>2. CASE AllocFromList(n) \/ AllocExpanding(n)
    BY <2>2, AllocationIs DEF Abstract!Next
  <2>3. CASE AllocFails(n)
    BY <2>3 DEF AllocFails
  <2> QED
    BY <2>1, <2>2, <2>3
<1>2. CASE \E p \in Policies : SetPolicy(p)
  BY <1>2 DEF SetPolicy
<1>3. CASE EndMark
  BY <1>3, MarkingIs DEF Abstract!Next
<1>4. CASE StartCycle \/ SweepBlock \/ SweepChunk \/ EndSweep
  BY <1>4 DEF StartCycle, SweepBlock, SweepChunk, EndSweep
<1>5. CASE Compact
  BY <1>5, CompactionIs DEF Abstract!Next
<1>6. CASE UNCHANGED vars
  BY <1>6 DEF vars
<1> QED
  BY <1>1, <1>2, <1>3, <1>4, <1>5, <1>6 DEF Next

(***************************************************************************)
(* The heap implements module Allocator: a block is given out of words that *)
(* nothing live holds, keeps them until it is dropped, and a compaction    *)
(* moves blocks down without overlap (freelist.c:84-98, compact.c:340-356). *)
(***************************************************************************)
THEOREM SpecIsAllocator == Spec => IsAllocator
<1>1. Init => Abstract!Init
  BY DEF Init, Abstract!Init
<1>2. IInv /\ IInv' /\ [Next]_vars => [Abstract!Next]_live
  BY StepIsAllocator
<1> QED
  BY <1>1, <1>2, SpecIInv, PTL DEF Spec, IsAllocator, Abstract!Spec

=============================================================================
