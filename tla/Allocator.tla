------------------------------ MODULE Allocator ------------------------------
(***************************************************************************)
(* What the program may rely on in the memory it allocates: the words of a *)
(* block, its header first, are nobody else's as long as it is live.       *)
(***************************************************************************)
EXTENDS Integers

CONSTANTS Words, Requests

VARIABLE live   \* wosize of each live block, by the address of its header

Extent(a, n) == a .. a + n
Apart(l) == \A a, b \in DOMAIN l : a # b => Extent(a, l[a]) \cap Extent(b, l[b]) = {}
Inside(l) == \A a \in DOMAIN l : Extent(a, l[a]) \subseteq 1..Words

Init == live = << >>

Allocate ==
  \E n \in Requests, a \in 1..Words \ DOMAIN live :
    /\ live' = [b \in DOMAIN live \cup {a} |-> IF b = a THEN n ELSE live[b]]
    /\ Apart(live') /\ Inside(live')

(* Blocks that are no longer reached are dropped, the others stay.          *)
Collect == \E S \in SUBSET DOMAIN live : live' = [b \in S |-> live[b]]

(* The blocks that are still reached move, none of them up.                  *)
Compact ==
  \E S \in SUBSET DOMAIN live :
    \E to \in [S -> DOMAIN live'] :
      /\ \A a \in S : to[a] <= a
      /\ \A a, b \in S : a # b => to[a] # to[b]
      /\ \A c \in DOMAIN live' : \E a \in S : to[a] = c
      /\ \A a \in S : live'[to[a]] = live[a]
      /\ Apart(live') /\ Inside(live')

Next == Allocate \/ Collect \/ Compact

Spec == Init /\ [][Next]_live
=============================================================================
