------------------------------- MODULE Netif -------------------------------
(***************************************************************************)
(* The network driver of the kernel (netif_stubs.c with netif.ml) and the  *)
(* pages its frames lie in (page_stubs.c, cstruct_stubs.c, and the kernel  *)
(* part of bigarray_stubs.c).                                              *)
(*                                                                         *)
(* Three parties: the thread that runs the program, an interrupt thread    *)
(* for each interface, and the interface that frees the mbufs it has sent. *)
(* A page belongs to the bigarrays that show parts of it, the views, and   *)
(* to the mbufs that were mapped to it. There are two counts: that of the  *)
(* proxy, which all views of a page share once there is a second one, and  *)
(* u[0], which each view has for itself and its mbufs. The program changes *)
(* u[0] without atomic instructions.                                       *)
(***************************************************************************)
EXTENDS Integers, Sequences, SequencesExt, FiniteSets

CONSTANTS
    Ifaces,     \* interfaces, by name and index
    MaxPages, MaxViews,
    PageSize,   \* of a page, in units that a view can begin at
    Mcl,        \* MCLBYTES
    MaxEvents   \* calls of the program and frames that arrive

ASSUME Sizes == PageSize \in Nat /\ Mcl \in 1..PageSize /\ MaxPages \in Nat /\ MaxViews \in Nat /\ MaxEvents \in Nat

VARIABLES
    pip,        \* per interface the number of times it was plugged, and is it now
    rx,         \* pi_rx_head: frames, the last one first
    intr,       \* per interface the interrupt thread: its frame, the plugged_if it found
    frame,      \* where each frame is, in the order of arrival
    got,        \* what the program received of each interface: fragments
    page,       \* per page: cut into views, the proxy's count, what contigfree was given
    view,       \* the views: page, place, length, u[0], u[1], not yet finalised
    main,       \* where the program is in a call
    flight,     \* mbufs of the packets the interface has to send
    calls
vars == <<pip, rx, intr, frame, got, page, view, main, flight, calls>>

Idle == [at |-> "idle"]
Resting == [at |-> "idle", f |-> 0, found |-> 0]

Init ==
    /\ pip = [i \in Ifaces |-> [times |-> 0, plugged |-> FALSE]]
    /\ rx = [i \in Ifaces |-> <<>>]
    /\ intr = [i \in Ifaces |-> Resting]
    /\ frame = <<>> /\ got = [i \in Ifaces |-> <<>>]
    /\ page = <<>> /\ view = <<>> /\ main = Idle /\ flight = {} /\ calls = 0

driver == <<pip, rx, intr, frame, got>>
memory == <<page, view, main, flight>>

\* The program is between two calls, and may make another one.
Calls == main = Idle /\ calls + Len(frame) < MaxEvents /\ calls' = calls + 1

-----------------------------------------------------------------------------
\* Interfaces.

Frees(frames) == [f \in DOMAIN frame |-> IF f \in frames THEN [frame[f] EXCEPT !.at = "freed"] ELSE frame[f]]

\* Netif.plug and caml_plug_vif, for an interface that is not in devices.
Plug(i) ==
    /\ Calls /\ ~ pip[i].plugged
    /\ pip' = [pip EXCEPT ![i] = [times |-> @.times + 1, plugged |-> TRUE]]
    /\ rx' = [rx EXCEPT ![i] = <<>>]
    /\ UNCHANGED <<intr, frame, got>> /\ UNCHANGED memory

\* Netif.unplug and caml_unplug_vif: frees what is queued, and the plugged_if.
Unplug(i) ==
    /\ Calls /\ pip[i].plugged
    /\ pip' = [pip EXCEPT ![i].plugged = FALSE]
    /\ frame' = Frees(ToSet(rx[i]))
    /\ rx' = [rx EXCEPT ![i] = <<>>]
    /\ UNCHANGED <<intr, got>> /\ UNCHANGED memory

\* netif_ether_input up to the lock: a frame for an interface that is not
\* plugged stays with the host.
EtherInput(i, frags) ==
    /\ intr[i] = Resting /\ calls + Len(frame) < MaxEvents
    /\ frame' = Append(frame, [at |-> IF pip[i].plugged THEN "interrupt" ELSE "host", frags |-> frags])
    /\ intr' = IF pip[i].plugged
               THEN [intr EXCEPT ![i] = [at |-> "lock", f |-> Len(frame) + 1, found |-> pip[i].times]]
               ELSE intr
    /\ UNCHANGED <<pip, rx, got, calls>> /\ UNCHANGED memory

\* Mutant: the tail of the list.
EtherQueueTail(i) ==
    /\ intr[i].at = "lock"
    /\ LET sound == pip[i].plugged /\ pip[i].times = intr[i].found IN
       /\ rx' = IF sound THEN [rx EXCEPT ![i] = Append(@, intr[i].f)] ELSE rx
       /\ frame' = [frame EXCEPT ![intr[i].f].at = IF sound THEN "queued" ELSE "lost"]
    /\ intr' = [intr EXCEPT ![i] = Resting]
    /\ UNCHANGED <<pip, got, calls>> /\ UNCHANGED memory

\* The rest of it: the head of the list. A plugged_if that was freed meanwhile
\* takes the frame with it (what else the write into freed memory does is left
\* out).
EtherQueue(i) ==
    /\ intr[i].at = "lock"
    /\ LET sound == pip[i].plugged /\ pip[i].times = intr[i].found IN
       /\ rx' = IF sound THEN [rx EXCEPT ![i] = <<intr[i].f>> \o @] ELSE rx
       /\ frame' = [frame EXCEPT ![intr[i].f].at = IF sound THEN "queued" ELSE "lost"]
    /\ intr' = [intr EXCEPT ![i] = Resting]
    /\ UNCHANGED <<pip, got, calls>> /\ UNCHANGED memory

\* The list that the program gets: every fragment is consed to what was there.
Consed(frames) ==
    LET block(f) == [n \in 1..frame[f].frags |-> [f |-> f, n |-> frame[f].frags + 1 - n]]
        consed[k \in 0..Len(frames)] == IF k = 0 THEN <<>> ELSE block(frames[k]) \o consed[k - 1]
    IN  consed[Len(frames)]

\* caml_get_mbufs: a bigarray for every fragment.
GetMbufs(i) ==
    /\ Calls /\ pip[i].plugged /\ rx[i] # <<>>
    /\ got' = [got EXCEPT ![i] = @ \o Consed(rx[i])]
    /\ frame' = [f \in DOMAIN frame |->
                   IF f \in ToSet(rx[i]) THEN [frame[f] EXCEPT !.at = "program"] ELSE frame[f]]
    /\ rx' = [rx EXCEPT ![i] = <<>>]
    /\ UNCHANGED <<pip, intr>> /\ UNCHANGED memory

-----------------------------------------------------------------------------
\* Pages and views.

\* Io_page.get: a page with one view, which has no proxy.
AllocPages ==
    /\ Calls /\ Len(page) < MaxPages /\ Len(view) < MaxViews
    /\ page' = Append(page, [cut |-> FALSE, proxy |-> 0, freed |-> <<>>])
    /\ view' = Append(view, [page |-> Len(page) + 1, off |-> 0, len |-> PageSize, u0 |-> 1, u1 |-> PageSize,
                             live |-> TRUE])
    /\ UNCHANGED <<main, flight>> /\ UNCHANGED driver

\* caml_ba_update_proxy: the first view of a view makes the proxy.
UpdateProxy(p) == IF p.cut THEN [p EXCEPT !.proxy = @ + 1] ELSE [p EXCEPT !.cut = TRUE, !.proxy = 2]

\* Bigarray.Array1.sub: caml_ba_sub, caml_ba_alloc, caml_ba_update_proxy.
Sub(v, ofs, len) ==
    /\ Calls /\ Len(view) < MaxViews /\ view[v].live /\ ofs + len <= view[v].len
    /\ view' = Append(view, [view[v] EXCEPT !.off = @ + ofs, !.len = len, !.u0 = 1, !.u1 = len])
    /\ page' = [page EXCEPT ![view[v].page] = UpdateProxy(@)]
    /\ UNCHANGED <<main, flight>> /\ UNCHANGED driver

\* caml_bigarray_shift_left: u[1] stays.
ShiftLeft(v, n) ==
    /\ Calls /\ view[v].live /\ page[view[v].page].cut /\ n <= view[v].off
    /\ view' = [view EXCEPT ![v].off = @ - n, ![v].len = @ + n]
    /\ UNCHANGED <<page, main, flight>> /\ UNCHANGED driver

\* Mutant: the view decides, not the proxy.
FinalizeView(v) ==
    /\ Calls /\ view[v].live
    /\ LET p == view[v].page IN
       /\ page' = [page EXCEPT ![p].proxy = IF page[p].cut THEN @ - 1 ELSE @]
       /\ view' = [view EXCEPT ![v].live = FALSE]
       /\ main' = [at |-> "dec", v |-> v, u0 |-> view[v].u0]
    /\ UNCHANGED flight /\ UNCHANGED driver

\* caml_ba_finalize: the last view of the page goes on to its own count, which
\* it reads.
Finalize(v) ==
    /\ Calls /\ view[v].live
    /\ LET p == view[v].page IN
       /\ page' = [page EXCEPT ![p].proxy = IF page[p].cut THEN @ - 1 ELSE @]
       /\ view' = [view EXCEPT ![v].live = FALSE]
       /\ main' = IF page[p].cut /\ page[p].proxy > 1 THEN Idle ELSE [at |-> "dec", v |-> v, u0 |-> view[v].u0]
    /\ UNCHANGED flight /\ UNCHANGED driver

Contigfree(p, off, len) == [page EXCEPT ![p].freed = Append(@, [off |-> off, len |-> len])]

\* And writes. The size that the proxy has of a page is 0.
FinalizeWrite ==
    /\ main.at = "dec"
    /\ LET v == view[main.v] IN
       /\ view' = [view EXCEPT ![main.v].u0 = main.u0 - 1]
       /\ page' = IF main.u0 - 1 > 0 THEN page
                  ELSE IF page[v.page].cut THEN Contigfree(v.page, 0, 0)
                  ELSE Contigfree(v.page, v.off, v.u1)
    /\ main' = Idle
    /\ UNCHANGED <<flight, calls>> /\ UNCHANGED driver

-----------------------------------------------------------------------------
\* Sending.

\* caml_put_mbufs: views none of which is empty by u[1].
PutMbufs(i, vs) ==
    /\ Calls /\ pip[i].plugged
    /\ \A k \in DOMAIN vs: view[vs[k]].live /\ view[vs[k]].u1 > 0
    /\ main' = [at |-> "map", todo |-> vs, left |-> view[Head(vs)].u1, n |-> 0, u0 |-> 0,
                frag |-> {}, pkt |-> {}, rest |-> {}]
    /\ UNCHANGED <<page, view, flight>> /\ UNCHANGED driver

MinOf(a, b) == IF a < b THEN a ELSE b

\* netif_map_to_mbuf: takes an mbuf and reads the count.
MapRead ==
    /\ main.at = "map" /\ main.todo # <<>>
    /\ main' = [main EXCEPT !.at = "inc", !.u0 = view[Head(main.todo)].u0]
    /\ UNCHANGED <<page, view, flight, calls>> /\ UNCHANGED driver

\* An mbuf has its packet, its place in the order of mapping, and where the view
\* began then.
Mbuf == [pkt |-> calls, n |-> main.n, v |-> Head(main.todo), off |-> view[Head(main.todo)].off]

First(mbufs) == CHOOSE m \in mbufs: \A x \in mbufs: m.n <= x.n

\* The view is mapped, or the rest of it is left to map.
Linked(frag) ==
    LET len == MinOf(Mcl, main.left)
        next == [main EXCEPT !.at = "map", !.n = @ + 1]
        todo == Tail(main.todo)
    IN  IF len < main.left THEN [next EXCEPT !.left = @ - len, !.frag = frag]
        ELSE [next EXCEPT !.left = IF todo = <<>> THEN 0 ELSE view[Head(todo)].u1, !.frag = {}, !.todo = todo,
                          !.pkt = @ \cup {First(frag)}, !.rest = frag \ {First(frag)}]

\* Mutant: an mbuf is not counted.
MapWriteUncounted ==
    /\ main.at = "inc"
    /\ view' = [view EXCEPT ![Head(main.todo)].u0 = IF main.frag = {} THEN main.u0 + 1 ELSE @]
    /\ main' = Linked(main.frag \cup {Mbuf})
    /\ UNCHANGED <<page, flight, calls>> /\ UNCHANGED driver

\* Writes the count. When the view is mapped it is linked to the packet: to the
\* first mbuf of the view before, whose other mbufs are dropped.
MapWrite ==
    /\ main.at = "inc"
    /\ view' = [view EXCEPT ![Head(main.todo)].u0 = main.u0 + 1]
    /\ main' = Linked(main.frag \cup {Mbuf})
    /\ UNCHANGED <<page, flight, calls>> /\ UNCHANGED driver

\* There is no mbuf in the middle of a view: what was mapped of it is freed, the
\* views before it are not. (Without even a first mbuf, frag is not set.)
MapFails ==
    /\ main.at = "map" /\ main.frag # {}
    /\ view' = [view EXCEPT ![Head(main.todo)].u0 = @ - Cardinality(main.frag)]
    /\ main' = Idle
    /\ UNCHANGED <<page, flight, calls>> /\ UNCHANGED driver

\* ether_output_frame takes the packet.
Output ==
    /\ main.at = "map" /\ main.todo = <<>>
    /\ flight' = flight \cup main.pkt \cup main.rest
    /\ main' = Idle
    /\ UNCHANGED <<page, view, calls>> /\ UNCHANGED driver

\* The interface frees the first mbuf of a packet: the kernel calls
\* netif_mbuf_free for the last reference, and counts down otherwise.
MbufFree(m) ==
    /\ \A x \in flight: x.pkt = m.pkt => m.n <= x.n
    /\ LET v == view[m.v]
       IN  /\ view' = [view EXCEPT ![m.v].u0 = @ - 1]
           /\ page' = IF v.u0 = 1 THEN Contigfree(v.page, m.off, v.u1) ELSE page
    /\ flight' = flight \ {m}
    /\ UNCHANGED <<main, calls>> /\ UNCHANGED driver

-----------------------------------------------------------------------------
Next ==
    \/ \E i \in Ifaces: Plug(i) \/ Unplug(i) \/ GetMbufs(i) \/ EtherQueue(i)
    \/ \E i \in Ifaces, frags \in 1..2: EtherInput(i, frags)
    \/ \E i \in Ifaces, v \in DOMAIN view: PutMbufs(i, <<v>>)
    \/ \E i \in Ifaces, v, w \in DOMAIN view: PutMbufs(i, <<v, w>>)
    \/ AllocPages
    \/ \E v \in DOMAIN view: \/ Finalize(v)
                             \/ \E ofs, len \in 0..PageSize: Sub(v, ofs, len)
                             \/ \E n \in 1..PageSize: ShiftLeft(v, n)
    \/ FinalizeWrite \/ MapRead \/ MapWrite \/ MapFails \/ Output
    \/ \E m \in flight: MbufFree(m)

Spec == Init /\ [][Next]_vars
-----------------------------------------------------------------------------
Places == {"interrupt", "host", "queued", "program", "freed", "lost"}

\* The types of the driver's state, and the bounds of the counts.
TypeOK ==
    /\ pip \in [Ifaces -> [times: 0..MaxEvents, plugged: BOOLEAN]]
    /\ \A f \in DOMAIN frame: frame[f].at \in Places
    /\ \A p \in DOMAIN page: page[p].proxy \in 0..MaxViews
    /\ \A v \in DOMAIN view: /\ view[v].page \in DOMAIN page /\ view[v].u0 \in 0..(1 + 2 * MaxEvents * PageSize)
                             /\ view[v].off \in 0..PageSize /\ view[v].off + view[v].len <= PageSize
    /\ main.at \in {"idle", "dec", "map", "inc"}

\* An interface's frames reach the program in the order in which they came, each
\* once and with all its fragments, and none that is still queued is older than
\* one that was received; a frame is queued exactly when it is in a list
\* (netif_ether_input, caml_get_mbufs, caml_unplug_vif).
FramesInOrder ==
    /\ \A i \in Ifaces: LET all == [k \in DOMAIN got[i] |-> got[i][k].f] \o Reverse(rx[i]) IN
         /\ \A j, k \in DOMAIN all: j < k => all[j] <= all[k]
         /\ \A f \in ToSet(all): Cardinality({k \in DOMAIN all: all[k] = f}) =
              IF frame[f].at = "queued" THEN 1 ELSE frame[f].frags
    /\ \A f \in DOMAIN frame: /\ frame[f].at = "queued" <=> \E i \in Ifaces: f \in ToSet(rx[i])
                              /\ frame[f].at = "program" <=> \E i \in Ifaces: \E x \in ToSet(got[i]): x.f = f
                              /\ frame[f].at = "interrupt" <=> \E i \in Ifaces: intr[i].f = f

\* The mbufs that show a part of a view.
Mbufs == flight \cup IF main.at \in {"map", "inc"} THEN main.frag \cup main.pkt \cup main.rest ELSE {}
MbufsOf(v) == {m \in Mbufs: m.v = v}
Uses(v) == (IF view[v].live THEN 1 ELSE 0) + Cardinality(MbufsOf(v))

\* The count u[0] of a view is never less than what it counts, the view and its
\* mbufs, although the program and the interface change it at the same time and
\* only one of them atomically: the races lose memory, never an owner
\* (caml_ba_finalize, netif_map_to_mbuf, netif_mbuf_free).
CountCoversUses == \A v \in DOMAIN view: view[v].u0 >= Uses(v)

\* Views lie in their pages, and a page is given to contigfree at most once, and only when no view of it is
\* left; of a page that was never cut the whole, and only after its mbufs
\* (caml_ba_finalize, caml_ba_update_proxy, netif_mbuf_free).
PagesOutliveViews == TypeOK /\ \A p \in DOMAIN page: page[p].freed # <<>> =>
    LET x == Head(page[p].freed) IN
    /\ Len(page[p].freed) = 1 /\ x.off + x.len <= PageSize
    /\ \A v \in DOMAIN view: view[v].page = p => ~ view[v].live
    /\ ~ page[p].cut => x = [off |-> 0, len |-> PageSize] /\ \A v \in DOMAIN view: view[v].page = p => Uses(v) = 0
=============================================================================
