-------------------------------- MODULE Heap --------------------------------
(***************************************************************************)
(* The major heap of the OCaml runtime: the free list with its two         *)
(* allocation policies (freelist.c), the growth of the heap and allocation *)
(* (memory.c), the sweeper (major_gc.c), and the layout and the free list  *)
(* that a compaction leaves behind (compact.c).                            *)
(*                                                                         *)
(* Memory is counted in words.  A block is named by the address of its     *)
(* header; it has wosize words after it.  What the marker does is          *)
(* abstracted to its outcome, the set of blocks it blackens (module Gc);   *)
(* the contents of a block are left out, but for the link of a free one.   *)
(***************************************************************************)
EXTENDS Integers, Sequences, FiniteSets, FiniteSetsExt, SequencesExt, Functions

CONSTANTS Words,        \* malloc gives out words of 1..Words
          FlHead,         \* Fl_head, outside of that memory
          InitialChunk, \* words of the first chunk
          Increment,    \* caml_major_heap_increment, in words
          Page,         \* words of a page
          Requests,     \* the wosizes the program asks for
          FLP_MAX,      \* entries of the first-fit table
          Slack,        \* Bhsize_wosize (3): a chunk with no more room than
                        \* that may be passed over by the compactor
          Policies      \* allocation policies the program sets with Gc.set

Null == 0
Addr == 1..Words

ASSUME HeapAssumption ==
  /\ Words \in Nat /\ FlHead \in Nat /\ FlHead > Words + 1
  /\ InitialChunk \in 2..Words /\ Increment \in 2..Words
  /\ Page \in 1..Words /\ FLP_MAX \in Nat \ {0}
  /\ Slack \in Nat /\ Slack < InitialChunk /\ Slack < Increment
  /\ Requests \subseteq 1..Words
  /\ Policies \subseteq {"next fit", "first fit"} /\ Policies # {}

VARIABLES fl,       \* the blocks and the free list, see below
          chunks,   \* Chunk_size of each chunk, by its address
          phase,    \* caml_gc_phase; "panic" once the kernel faulted
          sweep_hp, \* caml_gc_sweep_hp
          chunk,    \* the chunk being swept
          live      \* history: wosize of every block the program may still use

vars == <<fl, chunks, phase, sweep_hp, chunk, live>>

Block == [wosize : 0..Words, color : {"white", "black", "blue"}]

(* fl is a record: hd maps the header addresses to the headers; next is      *)
(* Next, Null for what is not in the list; policy is caml_allocation_policy, *)
(* prev fl_prev, merge caml_fl_merge, fragment last_fragment, size           *)
(* caml_fl_cur_size, flp and beyond the table of the first-fit policy.       *)
Wosize(f, b) == IF b = FlHead THEN 0 ELSE f.hd[b].wosize
Whsize(f, b) == Wosize(f, b) + 1
MapsTo(x, y) == [z \in {x} |-> y]
Without(g, S) == [x \in DOMAIN g \ S |-> g[x]]
Over(g, h) == [x \in DOMAIN g \cup DOMAIN h |-> IF x \in DOMAIN g THEN g[x] ELSE h[x]]

(* The elements of a set of numbers in order.                                *)
InOrder(S) == CHOOSE s \in [1..Cardinality(S) -> S] : \A i, j \in DOMAIN s : i < j => s[i] < s[j]

(* The words of the blocks S, headers included.                              *)
WordsOf(f, S) == SumFunction([b \in S |-> Whsize(f, b)])

(* The free list from Fl_head on, as Next chains it. *)
List(f) ==
  LET walk[k \in 0..Words] ==
        IF k = 0 THEN <<FlHead>>
        ELSE LET s == walk[k - 1]
                 n == f.next[Last(s)]
             IN IF n = Null THEN s ELSE Append(s, n)
  IN walk[Words]

Place(L, b) == CHOOSE i \in DOMAIN L : L[i] = b

(* Those of the positions I whose block is larger than n and than every     *)
(* block of I before it, in order.                                          *)
Maxima(f, L, I, n) ==
  InOrder({i \in I : /\ Wosize(f, L[i]) > n
                     /\ \A j \in I : j < i => Wosize(f, L[j]) < Wosize(f, L[i])})

Prevs(L, s) == [k \in DOMAIN s |-> L[s[k] - 1]]

(* How many of the positions s are those of blocks smaller than n words.     *)
Smaller(f, L, s, n) == Cardinality({k \in DOMAIN s : Wosize(f, L[s[k]]) < n})

(***************************************************************************)
(* Allocation from the free list.                                          *)
(***************************************************************************)

(* A block of n words is cut from the right of the free block cur, which    *)
(* the i-th entry of the table or prev leads to.  hp is the new block.      *)
AllocateBlock(f, n, i, prev, cur) ==
  LET m == Wosize(f, cur)
      whole == m < n + 2
      last == Len(f.flp)
      table == IF i < last /\ f.flp[i + 1] = cur
               THEN [flp |-> [f.flp EXCEPT ![i + 1] = prev], beyond |-> f.beyond]
               ELSE IF i = last
               THEN [flp |-> Front(f.flp), beyond |-> IF prev = FlHead THEN Null ELSE prev]
               ELSE [flp |-> f.flp, beyond |-> f.beyond]
      kept == IF whole
              THEN [f EXCEPT !.size = @ - (m + 1),
                             !.next = [@ EXCEPT ![prev] = f.next[cur], ![cur] = Null],
                             !.merge = IF @ = cur THEN prev ELSE @,
                             !.hd[cur] = [wosize |-> 0, color |-> "white"],
                             !.flp = IF f.policy = "first fit" THEN table.flp ELSE @,
                             !.beyond = IF f.policy = "first fit" THEN table.beyond ELSE @]
              ELSE [f EXCEPT !.size = @ - (n + 1), !.hd[cur].wosize = m - (n + 1)]
  IN [f  |-> IF f.policy = "next fit" THEN [kept EXCEPT !.prev = prev] ELSE kept,
      hp |-> cur + m - n, last |-> Null]

NotFound(f, last) == [f |-> f, hp |-> Null, last |-> last]

NextFit(f, n) ==
  LET L == List(f)
      p == Place(L, f.prev)
      fit == {i \in 1..Len(L) - 1 : Wosize(f, L[i + 1]) >= n}
      ahead == {i \in fit : i >= p}
      i == Min(IF ahead # {} THEN ahead ELSE fit)
  IN IF fit = {} THEN NotFound(f, Last(L)) ELSE AllocateBlock(f, n, 0, L[i], L[i + 1])

(* The i-th entry's block was removed, or reduced from oldsz words: its     *)
(* entry gives way to those of the maxima up to the following entry.        *)
UpdateFlp(r, i, oldsz) ==
  LET f == r.f
      L == List(f)
      n == Len(f.flp)
      prevsz == IF i > 1 THEN Wosize(f, f.next[f.flp[i - 1]]) ELSE 0
      reduced == f.next[f.flp[i]]
      span == Maxima(f, L, Place(L, f.flp[i]) + 1..Place(L, f.flp[i + 1]), prevsz)
      below == Smaller(f, L, span, oldsz)
      buf == Prevs(L, SubSeq(span, 1, Min({Len(span), below + 1})))
      flp == SubSeq(f.flp, 1, i - 1) \o buf \o SubSeq(f.flp, i + 1, n)
      g == IF i > n THEN f
           ELSE IF i = n
           THEN IF Wosize(f, reduced) <= prevsz
                THEN [f EXCEPT !.beyond = reduced, !.flp = Front(@)]
                ELSE [f EXCEPT !.beyond = Null]
           ELSE IF Len(flp) <= FLP_MAX THEN [f EXCEPT !.flp = flp]
           ELSE [f EXCEPT !.flp = SubSeq(flp, 1, FLP_MAX - 1),
                          !.beyond = f.next[flp[FLP_MAX]]]
  IN [r EXCEPT !.f = g]

(* The search past a full table. *)
SlowFirstFit(f, n) ==
  LET L == List(f)
      prevsz == Wosize(f, f.next[Last(f.flp)])
      start == Place(L, IF f.beyond # Null THEN f.beyond ELSE Last(f.flp))
      fit == {i \in start + 1..Len(L) : Wosize(f, L[i]) >= n}
      stop == IF fit = {} THEN Len(L) + 1 ELSE Min(fit)
      small == {i \in start + 1..stop - 1 : Wosize(f, L[i]) < prevsz}
      g == [f EXCEPT !.beyond = IF small = {} THEN @ ELSE L[Max(small)]]
  IN IF fit = {} THEN NotFound(g, Last(L))
     ELSE AllocateBlock(g, n, Len(f.flp) + 1, L[stop - 1], L[stop])

FirstFit(f, n) ==
  LET L == List(f)
      size == Len(f.flp)
      hits == {i \in 1..size : Wosize(f, f.next[f.flp[i]]) >= n}
      known == IF size = 0 THEN FlHead ELSE f.next[Last(f.flp)]
      start == Place(L, IF size > 0 /\ f.beyond # Null THEN f.beyond ELSE known)
      new == Maxima(f, L, start + 1..Len(L), Wosize(f, known))
      small == Smaller(f, L, new, n)
      room == FLP_MAX - size
      grown(k) == [f EXCEPT !.flp = @ \o Prevs(L, SubSeq(new, 1, k))]
      Take(g, i) == LET cur == g.next[g.flp[i]]
                    IN UpdateFlp(AllocateBlock(g, n, i, g.flp[i], cur), i, Wosize(g, cur))
  IN IF hits # {} THEN Take(f, Min(hits))
     ELSE IF small >= room
     THEN SlowFirstFit([grown(room) EXCEPT !.beyond = IF room = 0 THEN Null ELSE L[new[room]]], n)
     ELSE IF small = Len(new)
     THEN NotFound([grown(small) EXCEPT !.beyond = IF Last(L) = FlHead THEN Null ELSE Last(L)],
                   Last(L))
     ELSE Take([grown(small + 1) EXCEPT !.beyond = L[new[small + 1]]], size + small + 1)

FlAllocate(f, n) == IF f.policy = "next fit" THEN NextFit(f, n) ELSE FirstFit(f, n)

(***************************************************************************)
(* Insertion into the free list.                                           *)
(***************************************************************************)

TruncateFlp(f, changed) ==
  IF changed = FlHead THEN [f EXCEPT !.flp = << >>, !.beyond = Null]
  ELSE LET keep == {k \in 0..Len(f.flp) : k = 0 \/ f.next[f.flp[k]] < changed}
       IN [f EXCEPT !.flp = SubSeq(@, 1, Max(keep)),
                    !.beyond = IF @ >= changed THEN Null ELSE @]

InitMerge(f) == [f EXCEPT !.fragment = Null, !.merge = FlHead]

(* Mutant: fl_prev stays on the block that is taken out.                     *)
UnlinkKeepingPrev(f, prev, cur) ==
  [f EXCEPT !.next = [@ EXCEPT ![prev] = f.next[cur], ![cur] = Null]]

(* The free block cur is taken out of the list, prev is the one before it. *)
Unlink(f, prev, cur) ==
  [f EXCEPT !.next = [@ EXCEPT ![prev] = f.next[cur], ![cur] = Null],
            !.prev = IF f.policy = "next fit" /\ @ = cur THEN prev ELSE @]

(* The block bp is put into the free list after caml_fl_merge, glued to the *)
(* fragment or the free block before it and to the free block after it.     *)
(* adj is the address that follows.                                         *)
MergeBlock(f, bp) ==
  LET prev == f.merge
      cur == f.next[prev]
      t == IF f.policy = "first fit" THEN TruncateFlp(f, prev) ELSE f
      tail == f.fragment # Null /\ f.fragment + 1 = bp
      b == IF tail THEN f.fragment ELSE bp
      n0 == Wosize(f, bp) + IF tail THEN 1 ELSE 0
      eats == cur # Null /\ b + n0 + 1 = cur
      n == n0 + IF eats THEN Whsize(f, cur) ELSE 0
      glued == prev # FlHead /\ prev + Whsize(f, prev) = b
      gone == ({bp} \ {b}) \cup (IF eats THEN {cur} ELSE {}) \cup (IF glued THEN {b} ELSE {})
      size == f.size + Whsize(f, bp) + IF tail THEN 1 ELSE 0
      g == IF eats THEN Unlink(t, prev, cur) ELSE t
      put(color, m, at) == Over(MapsTo(at, [wosize |-> m, color |-> color]), Without(t.hd, gone))
  IN [adj |-> b + n + 1,
      f |-> IF glued
            THEN [g EXCEPT !.hd = put("blue", Whsize(f, prev) + n, prev), !.size = size]
            ELSE IF n # 0
            THEN [g EXCEPT !.hd = put("blue", n, b),
                           !.next = [@ EXCEPT ![b] = g.next[prev], ![prev] = b],
                           !.merge = b, !.size = size]
            ELSE [g EXCEPT !.fragment = bp, !.size = size - 1]]

(* Words that are free from address p on: one white block, merged.          *)
MakeFreeBlocks(f, p, size) ==
  MergeBlock([f EXCEPT !.hd = Over(MapsTo(p, [wosize |-> size - 1, color |-> "white"]), @)], p).f

(* Mutant: caml_fl_merge stays where it was.                                 *)
MergePointKept(f, prev, bp) == f.merge

(* caml_fl_merge once bp comes after prev.                                   *)
MergePoint(f, prev, bp) == IF prev = f.merge /\ bp < sweep_hp THEN bp ELSE f.merge

(* A new chunk is one free block bp; last is fl_last.  Fl_head lies above    *)
(* the heap, so the comparison with it takes the second branch.              *)
AddBlocks(f, bp, last) ==
  LET grown == [f EXCEPT !.size = @ + Whsize(f, bp)]
      L == List(f)
      i == Max({k \in DOMAIN L : k = 1 \/ L[k] < bp})
  IN IF bp > last
     THEN [grown EXCEPT !.next[last] = bp, !.merge = MergePoint(f, last, bp),
                        !.flp = IF f.policy = "first fit" /\ Len(@) < FLP_MAX
                                THEN Append(@, last) ELSE @]
     ELSE LET put == [grown EXCEPT !.next = [@ EXCEPT ![bp] = f.next[L[i]], ![L[i]] = bp],
                                   !.merge = MergePoint(f, L[i], bp)]
          IN IF f.policy = "first fit" THEN TruncateFlp(put, bp) ELSE put

(***************************************************************************)
(* Growing the heap and allocating.                                        *)
(***************************************************************************)

ChunkSize(n) == ((Max({n + 1, Increment}) + Page - 1) \div Page) * Page

(* Places where malloc finds a chunk of s words with the head of a chunk     *)
(* before it.                                                                *)
Fits(s) == {a \in Addr : /\ a + s - 1 <= Words
                         /\ \A c \in DOMAIN chunks :
                              a > c + chunks[c] \/ c > a + s}

Limit == chunk + chunks[chunk]
ChunkNext(c) == LET later == {d \in DOMAIN chunks : d > c}
                IN IF later = {} THEN Null ELSE Min(later)

(* Mutant: the block under the sweeper counts as behind it.                  *)
AllocationColorBehind(hp) ==
  IF phase = "mark" \/ (phase = "sweep" /\ hp > sweep_hp) THEN "black" ELSE "white"

AllocationColor(hp) ==
  IF phase = "mark" \/ (phase = "sweep" /\ hp >= sweep_hp) THEN "black" ELSE "white"

Allocated(r, n) ==
  /\ fl' = [r.f EXCEPT !.hd = Over(MapsTo(r.hp, [wosize |-> n, color |-> AllocationColor(r.hp)]), @)]
  /\ live' = Over(MapsTo(r.hp, n), live)
  /\ UNCHANGED <<phase, sweep_hp, chunk>>

AllocFromList(n) ==
  /\ phase # "panic"
  /\ LET r == FlAllocate(fl, n)
     IN r.hp # Null /\ Allocated(r, n)
  /\ UNCHANGED chunks

AllocExpanding(n) ==
  /\ phase # "panic"
  /\ LET r == FlAllocate(fl, n)
         s == ChunkSize(n)
     IN /\ r.hp = Null
        /\ \E a \in Fits(s) :
             LET f == [r.f EXCEPT !.hd = Over(MapsTo(a, [wosize |-> s - 1, color |-> "blue"]), @)]
             IN /\ chunks' = Over(MapsTo(a, s), chunks)
                /\ Allocated(FlAllocate(AddBlocks(f, a, r.last), n), n)

(* malloc fails: Out_of_memory is raised; the failed search stays noted.     *)
AllocFails(n) ==
  /\ phase # "panic"
  /\ LET r == FlAllocate(fl, n)
     IN r.hp = Null /\ fl' = r.f
  /\ UNCHANGED <<chunks, phase, sweep_hp, chunk, live>>

SetPolicy(p) ==
  /\ phase # "panic" /\ p # fl.policy
  /\ fl' = IF p = "next fit" THEN [fl EXCEPT !.policy = p, !.prev = FlHead]
           ELSE [fl EXCEPT !.policy = p, !.flp = << >>, !.beyond = Null]
  /\ UNCHANGED <<chunks, phase, sweep_hp, chunk, live>>

(***************************************************************************)
(* The collector.                                                          *)
(***************************************************************************)

StartCycle ==
  /\ phase = "idle"
  /\ phase' = "mark"
  /\ UNCHANGED <<fl, chunks, sweep_hp, chunk, live>>

(* Marking is over: the blocks of `marked` are black, the others are         *)
(* garbage.  Those allocated meanwhile are black already.                    *)
EndMark ==
  /\ phase = "mark"
  /\ \E marked \in SUBSET DOMAIN live :
       /\ \A b \in DOMAIN live : fl.hd[b].color = "black" => b \in marked
       /\ fl' = InitMerge([fl EXCEPT !.hd = [b \in DOMAIN @ |->
                             IF b \in marked THEN [@[b] EXCEPT !.color = "black"] ELSE @[b]]])
       /\ live' = Without(live, DOMAIN live \ marked)
  /\ phase' = "sweep"
  /\ chunk' = Min(DOMAIN chunks) /\ sweep_hp' = Min(DOMAIN chunks)
  /\ UNCHANGED chunks

SweepBlock ==
  /\ phase = "sweep" /\ sweep_hp < Limit
  /\ LET h == fl.hd[sweep_hp]
     IN \/ /\ h.color = "white"
           /\ LET m == MergeBlock(fl, sweep_hp) IN fl' = m.f /\ sweep_hp' = m.adj
        \/ /\ h.color = "blue"
           /\ fl' = [fl EXCEPT !.merge = sweep_hp]
           /\ sweep_hp' = sweep_hp + h.wosize + 1
        \/ /\ h.color = "black"
           /\ fl' = [fl EXCEPT !.hd[sweep_hp].color = "white"]
           /\ sweep_hp' = sweep_hp + h.wosize + 1
  /\ UNCHANGED <<chunks, phase, chunk, live>>

SweepChunk ==
  /\ phase = "sweep" /\ sweep_hp = Limit /\ ChunkNext(chunk) # Null
  /\ chunk' = ChunkNext(chunk) /\ sweep_hp' = ChunkNext(chunk)
  /\ UNCHANGED <<fl, chunks, phase, live>>

EndSweep ==
  /\ phase = "sweep" /\ sweep_hp = Limit /\ ChunkNext(chunk) = Null
  /\ phase' = "idle"
  /\ UNCHANGED <<fl, chunks, sweep_hp, chunk, live>>

(***************************************************************************)
(* Compaction.                                                             *)
(***************************************************************************)

Room(c, alloc) == chunks[c] - alloc[c]

(* compact_allocate: the words each chunk has given out, compact_fl, and the *)
(* addresses given so far; chunk and compact_fl become Null where the code    *)
(* runs off the end of the chain.                                             *)
CompactAllocate(s, size) ==
  LET room(c) == Room(c, s.alloc)
      stop == {c \in DOMAIN chunks : /\ c >= s.fl
                 /\ ~(/\ room(c) <= Slack
                      /\ ChunkNext(c) # Null /\ room(ChunkNext(c)) <= Slack)}
      fl1 == Min(stop)
      fit == {c \in DOMAIN chunks : c >= fl1 /\ room(c) >= size}
      c == Min(fit)
  IN IF s.fl = Null THEN s
     ELSE IF fit = {} \/ (room(fl1) <= Slack /\ ChunkNext(fl1) = Null) THEN [s EXCEPT !.fl = Null]
     ELSE [fl |-> fl1, alloc |-> [s.alloc EXCEPT ![c] = @ + size],
           at |-> Append(s.at, c + s.alloc[c])]

(* The layout of the blocks of the sequence B. *)
Layout(B) ==
  LET given[k \in 0..Len(B)] ==
        IF k = 0
        THEN [fl |-> Min(DOMAIN chunks), alloc |-> [c \in DOMAIN chunks |-> 0], at |-> << >>]
        ELSE CompactAllocate(given[k - 1], Whsize(fl, B[k]))
  IN given[Len(B)]

FlReset(f) ==
  LET g == InitMerge([f EXCEPT !.next = [b \in DOMAIN @ |-> Null], !.size = 0])
  IN IF f.policy = "next fit" THEN [g EXCEPT !.prev = FlHead] ELSE TruncateFlp(g, FlHead)

(* What is left of each chunk is freed, in the order of the chain, into an    *)
(* empty list.                                                                *)
Rebuild(hd, alloc) ==
  LET C == InOrder(DOMAIN chunks)
      freed[k \in 0..Len(C)] ==
        IF k = 0 THEN FlReset([fl EXCEPT !.hd = hd])
        ELSE IF chunks[C[k]] > alloc[C[k]]
        THEN MakeFreeBlocks(freed[k - 1], C[k] + alloc[C[k]], chunks[C[k]] - alloc[C[k]])
        ELSE freed[k - 1]
  IN freed[Len(C)]

(* A cycle has just been finished.  The blocks a pointer leads to are moved   *)
(* down; everything else is free.                                             *)
Compact ==
  /\ phase = "sweep" /\ sweep_hp = Limit /\ ChunkNext(chunk) = Null
  /\ \E reached \in SUBSET DOMAIN live :
       LET B == InOrder(reached)
           s == Layout(B)
           hd == [a \in Range(s.at) |->
                    [wosize |-> live[B[Place(s.at, a)]], color |-> "white"]]
       IN IF s.fl = Null
          THEN phase' = "panic" /\ UNCHANGED <<fl, live>>
          ELSE /\ phase' = "idle"
               /\ fl' = Rebuild(hd, s.alloc)
               /\ live' = [a \in DOMAIN hd |-> hd[a].wosize]
  /\ UNCHANGED <<chunks, sweep_hp, chunk>>

(* caml_init_major_heap: one chunk, all of it free.                           *)
Init ==
  /\ \E a \in 2..Words + 1 - InitialChunk :
       /\ chunks = MapsTo(a, InitialChunk)
       /\ chunk = a
       /\ fl = LET f == [hd |-> << >>, next |-> [b \in Addr \cup {FlHead} |-> Null],
                         policy |-> "next fit", prev |-> FlHead, merge |-> FlHead,
                         fragment |-> Null, size |-> 0, flp |-> << >>, beyond |-> Null]
               IN MakeFreeBlocks(f, a, InitialChunk)
  /\ phase = "idle" /\ sweep_hp = Null
  /\ live = << >>

Allocate == \E n \in Requests : AllocFromList(n) \/ AllocExpanding(n) \/ AllocFails(n)

Next ==
  \/ Allocate
  \/ \E p \in Policies : SetPolicy(p)
  \/ StartCycle \/ EndMark \/ SweepBlock \/ SweepChunk \/ EndSweep \/ Compact

Spec == Init /\ [][Next]_vars

-----------------------------------------------------------------------------
Boundary(c) == DOMAIN fl.hd \cap c..c + chunks[c] - 1
End(b) == b + Whsize(fl, b)
Free == {b \in DOMAIN fl.hd : fl.hd[b].color = "blue"}
Swept(b) == phase # "sweep" \/ b < sweep_hp

(* heap_stats: a white block ahead of the sweeper is free already.           *)
HeapStats ==
  LET blocks == {b \in DOMAIN fl.hd : Wosize(fl, b) > 0}
      used == {b \in blocks \ Free : fl.hd[b].color = "white" => Swept(b)}
  IN [live_words |-> WordsOf(fl, used), live_blocks |-> Cardinality(used),
      free_words |-> WordsOf(fl, blocks \ used), free_blocks |-> Cardinality(blocks \ used),
      largest_free |-> Max({0} \cup {Whsize(fl, b) : b \in blocks \ used}),
      fragments |-> Cardinality(DOMAIN fl.hd \ blocks), heap_chunks |-> Cardinality(DOMAIN chunks)]

TypeOK ==
  /\ DOMAIN fl.hd \subseteq Addr /\ Range(fl.hd) \subseteq Block
  /\ fl.next \in [Addr \cup {FlHead} -> Addr \cup {Null}]
  /\ fl.policy \in {"next fit", "first fit"}
  /\ fl.prev \in Addr \cup {FlHead} /\ fl.merge \in Addr \cup {FlHead}
  /\ fl.fragment \in Addr \cup {Null} /\ fl.size \in 0..Words
  /\ Range(fl.flp) \subseteq Addr \cup {FlHead} /\ Len(fl.flp) <= FLP_MAX
  /\ fl.beyond \in Addr \cup {Null}
  /\ DOMAIN chunks \subseteq Addr /\ Range(chunks) \subseteq 1..Words
  /\ phase \in {"idle", "mark", "sweep", "panic"}
  /\ sweep_hp \in 0..Words + 1 /\ chunk \in DOMAIN chunks
  /\ DOMAIN live \subseteq Addr /\ Range(live) \subseteq Requests

(***************************************************************************)
(* Every chunk is a sequence of blocks and fragments: no space between     *)
(* blocks and no trailing garbage (memory.c:277-279), so that every walk   *)
(* of the heap finds the headers; the sweeper, which stopped in the middle *)
(* of a chunk that is being allocated from, stands at one of them          *)
(* (major_gc.c:300-304).                                                   *)
(***************************************************************************)
HeapIsTiled ==
  /\ \A c \in DOMAIN chunks :
       /\ c \in Boundary(c)
       /\ \A b \in Boundary(c) :
            /\ End(b) \in Boundary(c) \cup {c + chunks[c]}
            /\ \A d \in Boundary(c) : d > b => d >= End(b)
  /\ phase = "sweep" => sweep_hp \in Boundary(chunk) \cup {Limit}

(***************************************************************************)
(* The free list is sorted by address and holds exactly the blue blocks,   *)
(* caml_fl_cur_size counts their words, and the pointers kept into it,     *)
(* fl_prev and caml_fl_merge, are in it, whatever was allocated, merged or *)
(* compacted in between (freelist.c:28-31, 51-82).                         *)
(***************************************************************************)
FreeListIsBlue ==
  LET L == List(fl)
  IN /\ \A i \in 3..Len(L) : L[i - 1] < L[i]
     /\ {L[i] : i \in 2..Len(L)} = Free
     /\ fl.size = WordsOf(fl, Free)
     /\ fl.policy = "next fit" => fl.prev \in Range(L)
     /\ fl.merge \in Range(L)

(***************************************************************************)
(* While the sweeper is under way, caml_fl_merge is the last free block    *)
(* before caml_gc_sweep_hp, also when the block it was is allocated or a   *)
(* new chunk comes in between (freelist.c:494-496).                        *)
(***************************************************************************)
MergePointIsLast ==
  phase = "sweep" =>
    LET before == {b \in Free : b < sweep_hp}
    IN fl.merge = IF before = {} THEN FlHead ELSE Max(before)

(***************************************************************************)
(* What Gc.stat counts as live is what the program may use, each block     *)
(* with its words and its chunk: none is lost, none is counted twice and   *)
(* none is taken by the collector, at any point of its work                *)
(* (gc_ctrl.c:153-216).                                                    *)
(***************************************************************************)
StatsCountLive ==
  LET s == HeapStats
  IN /\ \A b \in DOMAIN live : b \in DOMAIN fl.hd /\ Wosize(fl, b) = live[b]
     /\ s.live_blocks = Cardinality(DOMAIN live)
     /\ s.live_words = SumFunction([b \in DOMAIN live |-> live[b] + 1])
     /\ s.live_words + s.free_words + s.fragments = SumFunction(chunks)

(***************************************************************************)
(* Every entry of the table of the first-fit policy leads to a free block, *)
(* in the order of the list, and the place `beyond` where the search goes  *)
(* on is in the list and not before them (freelist.c:188-234).             *)
(***************************************************************************)
FlpLeads ==
  fl.policy = "first fit" =>
    LET entry(k) == fl.flp[k]
        to(k) == fl.next[fl.flp[k]]
    IN /\ \A k \in DOMAIN fl.flp : entry(k) \in Free \cup {FlHead} /\ to(k) \in Free
       /\ \A k, l \in DOMAIN fl.flp : k < l => entry(l) \in Free /\ to(k) <= entry(l)
       /\ fl.beyond # Null => fl.beyond \in Free /\ \A k \in DOMAIN fl.flp : to(k) <= fl.beyond

(***************************************************************************)
(* Blocks fill the chunks, the blue ones are the free list in the order of *)
(* the policy, and the statistics count the others: every word is in one   *)
(* place, and is found again (memory.c, freelist.c, gc_ctrl.c:118-262).    *)
(***************************************************************************)
HeapIsWellFormed == TypeOK /\ HeapIsTiled /\ FreeListIsBlue /\ StatsCountLive

(***************************************************************************)
(* Of the places in the list that are kept between two uses, the one for   *)
(* the next merge is where it would be found afresh, and those for the     *)
(* next search lead to free blocks in the order of the list, after what    *)
(* changed the list in between (freelist.c:472-503, 410-440).  That a      *)
(* search from there passes over no block is FlCheckPasses, and is not so. *)
(***************************************************************************)
PlacesAreCurrent == MergePointIsLast /\ FlpLeads

(***************************************************************************)
(* The heap behaves as an allocator (module Allocator): a block is given   *)
(* out of words that nothing live holds, keeps its words until it is       *)
(* dropped, and a compaction moves the blocks down without overlap         *)
(* (freelist.c:101-114, compact.c:340-356).                                *)
(***************************************************************************)
Abstract == INSTANCE Allocator WITH live <- live, Words <- Words, Requests <- Requests
IsAllocator == Abstract!Spec

-----------------------------------------------------------------------------
(* What the code says of itself and does not do                            *)

(***************************************************************************)
(* When a sweep begins, fl_check asserts that the table leads to the first *)
(* blocks that are larger than all before them, and that the next of these *)
(* does not come before the block after `beyond`, where the search for it  *)
(* goes on (freelist.c:79-88, 94, 341).  It fails once the table has been  *)
(* full.                                                                   *)
(***************************************************************************)
FlpIsFirstFit ==
  fl.policy = "first fit" =>
    LET L == List(fl)
        records == Prevs(L, Maxima(fl, L, 2..Len(L), 0))
        n == Len(fl.flp)
    IN /\ n <= Len(records) /\ fl.flp = SubSeq(records, 1, n)
       /\ fl.beyond # Null =>
            \A k \in n + 1..Len(records) : fl.next[records[k]] >= fl.next[fl.beyond]

\* fl_check runs in caml_fl_init_merge, the list as the marker leaves it.
FlCheckPasses == [][phase = "mark" /\ phase' = "sweep" => FlpIsFirstFit]_vars

=============================================================================
