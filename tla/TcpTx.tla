-------------------------------- MODULE TcpTx --------------------------------
(***************************************************************************)
(* The transmit half of one TCP connection, from mirage-net/lib/tcp:       *)
(*   segment.ml, module Tx   the retransmission queue, output, rto_t       *)
(*   window.ml               snd_una, tx_nxt, tx_wnd, cwnd, fast recovery  *)
(*   tcptimer.ml             the retransmission timer                      *)
(*   state.ml                the states in which it retransmits            *)
(* Lwt threads switch only where they block, so a step is what runs between*)
(* two blocking calls.  The one exception is the loop clearsegs, a step per*)
(* iteration during which no other action is enabled.                      *)
(*                                                                         *)
(* A sequence number is the distance from the initial one, a natural       *)
(* number: module TcpSequence shows when the 32-bit comparisons of         *)
(* sequence.ml agree with that.  The bytes of a segment are abstracted to  *)
(* the place in the stream they were written at ("data"); a FIN is a       *)
(* segment of one: nothing here looks at the flags of a queued segment.    *)
(***************************************************************************)
EXTENDS Integers, Sequences

CONSTANTS
  Mss,        \* tx_mss
  Windows,    \* windows a peer may advertise
  MaxSeq,     \* bound: sequence numbers sent
  MaxCwnd,    \* bound: no ACK arrives once cwnd is that large
  MaxDupAcks, \* bound: nor once so many duplicates were counted
  MaxBackoff  \* backoff_count beyond which the connection is given up

ASSUME TxAssumption ==
  /\ Mss \in Nat \ {0}
  /\ Windows \subseteq Nat
  /\ MaxSeq \in Nat
  /\ MaxCwnd \in Nat
  /\ MaxDupAcks \in Nat
  /\ MaxBackoff \in Nat

VARIABLES
  state,          \* State.t
  snd_una,        \* oldest unacknowledged sequence number
  tx_nxt,         \* next sequence number to send
  granted,        \* bytes of a long write that were let through, not yet sent
  segs,           \* retransmission queue
  tx_wnd,         \* window the peer advertised last
  cwnd,
  ssthresh,
  fast_recovery,
  backoff_count,
  dup_acks,
  timer,          \* Tcptimer.t of the connection and the seq it watches
  tx_ack,         \* mvar from Segment.Rx: a set with at most one ACK
  rto,            \* where the thread rto_t is, with the ACK it works on
  tx_wnd_update,  \* mvar to the window thread: a set with at most one window
  wire            \* history: what was transmitted

window == <<tx_wnd, cwnd, ssthresh, fast_recovery, backoff_count>>
vars == <<state, snd_una, tx_nxt, granted, segs, window, dup_acks, timer, tx_ack,
          rto, tx_wnd_update, wire>>

Ack == [seq : Int, win : Nat]
RexmitStates == {"Syn_rcvd", "Established", "Close_wait"}
Idle == [pc |-> "take", ack |-> [seq |-> 0, win |-> 0], remaining |-> 0]
Putting(win) == [pc |-> "put", ack |-> [seq |-> 0, win |-> win], remaining |-> 0]

Smaller(a, b) == IF a < b THEN a ELSE b
Larger(a, b) == IF a > b THEN a ELSE b

(***************************************************************************)
(* Window.t, and for a server the SYN-ACK that new_server_connection has   *)
(* output; a client has its SYN acknowledged when the pcb is made.         *)
(***************************************************************************)
Init ==
  /\ \/ /\ state = "Syn_rcvd"
        /\ snd_una = 0
        /\ segs = <<[seq |-> 0, len |-> 1, data |-> 0]>>
        /\ timer = [running |-> TRUE, seq |-> 0]
        /\ wire = {[seq |-> 0, data |-> 0]}
     \/ /\ state = "Established"
        /\ snd_una = 1
        /\ segs = <<>>
        /\ timer = [running |-> FALSE, seq |-> 0]
        /\ wire = {}
  /\ tx_nxt = 1
  /\ granted = 0
  /\ tx_wnd \in Windows
  /\ cwnd = 2 * Mss
  /\ ssthresh = tx_wnd
  /\ fast_recovery = FALSE
  /\ backoff_count = 0
  /\ dup_acks = 0
  /\ tx_ack = {}
  /\ rto = Idle
  /\ tx_wnd_update = {}

-----------------------------------------------------------------------------
(* window.ml *)

Inflight == tx_nxt - snd_una

\* tx_available: less than a full segment counts as nothing.
Available ==
  LET avail == Smaller(cwnd, tx_wnd) - Inflight
  IN  IF avail < Mss THEN 0 ELSE avail

CwndIncrement ==
  IF cwnd < ssthresh THEN Mss ELSE Larger((Mss * Mss) \div cwnd, 1)

\* tx_ack
TxAck(r, win) ==
  /\ tx_wnd' = win
  /\ snd_una' = Larger(r, snd_una)
  /\ UNCHANGED ssthresh
  /\ IF fast_recovery
     THEN /\ UNCHANGED backoff_count
          /\ IF r > snd_una
             THEN cwnd' = ssthresh /\ fast_recovery' = FALSE
             ELSE cwnd' = cwnd + Mss /\ UNCHANGED fast_recovery
     ELSE /\ backoff_count' = IF r > snd_una THEN 0 ELSE backoff_count
          /\ cwnd' = cwnd + CwndIncrement
          /\ UNCHANGED fast_recovery

\* alert_fast_rexmit
AlertFastRexmit ==
  LET newssthresh == Larger(Inflight \div 2, 2 * Mss)
  IN  /\ fast_recovery' = TRUE
      /\ ssthresh' = newssthresh
      /\ cwnd' = newssthresh + 2 * Mss
      /\ UNCHANGED <<tx_wnd, backoff_count>>

-----------------------------------------------------------------------------
(* segment.ml, Tx.output *)

Enqueue(len) ==
  /\ rto.pc # "clear"
  /\ tx_nxt + len <= MaxSeq
  /\ tx_nxt' = tx_nxt + len
  /\ segs' = Append(segs, [seq |-> tx_nxt, len |-> len, data |-> tx_nxt])
  /\ wire' = wire \cup {[seq |-> tx_nxt, data |-> tx_nxt]}
  /\ timer' = IF timer.running THEN timer ELSE [running |-> TRUE, seq |-> tx_nxt]
  /\ UNCHANGED <<state, snd_una, window, dup_acks, tx_ack, rto, tx_wnd_update>>

\* A segment of data: User_buffer.Tx sends no more than what is available,
\* and does not look at the state.
OutputData(len) ==
  /\ state # "Syn_rcvd"
  /\ len <= Smaller(Available, Mss)
  /\ Enqueue(len)
  /\ UNCHANGED granted

\* write, write_nodelay, of more than a segment: the window is asked once,
\* for all of it, and transmit_segments sends the first segment ...
Write(len) ==
  /\ state # "Syn_rcvd"
  /\ granted = 0
  /\ len <= Available
  /\ tx_nxt + len <= MaxSeq
  /\ Enqueue(Mss)
  /\ granted' = len - Mss

\* ... and the others, each of which may have to wait, whatever became of
\* the window and the state meanwhile.
OutputGranted ==
  /\ granted > 0
  /\ Enqueue(Smaller(granted, Mss))
  /\ granted' = granted - Smaller(granted, Mss)

\* Pcb.Tx.close, once the user buffer is flushed.
OutputFin ==
  /\ state \in {"Established", "Close_wait"}
  /\ Enqueue(1)
  /\ UNCHANGED granted

-----------------------------------------------------------------------------
(* What Segment.Rx.input tells the transmit side, and the other events *)

\* state.ml, tick Recv_ack (the initial sequence number is 0).
TickRecvAck(seq) ==
  state' = IF state = "Syn_rcvd" /\ seq = 1 THEN "Established" ELSE state

\* A segment with an ACK: the state ticks, and the ACK is put in the mvar.
\* Frames are handled one at a time, so a put that blocks blocks them all.
RecvAck(seq, win) ==
  /\ rto.pc # "clear"
  /\ cwnd <= MaxCwnd
  /\ dup_acks < MaxDupAcks
  /\ tx_ack = {}
  /\ tx_ack' = {[seq |-> seq, win |-> win]}
  /\ TickRecvAck(seq)
  /\ UNCHANGED <<snd_una, tx_nxt, granted, segs, window, dup_acks, timer, rto,
                 tx_wnd_update, wire>>

\* The FIN of the peer has been reached (Recv_fin).
RecvFin ==
  /\ rto.pc # "clear"
  /\ state = "Established"
  /\ state' = "Close_wait"
  /\ UNCHANGED <<snd_una, tx_nxt, granted, segs, window, dup_acks, timer, tx_ack,
                 rto, tx_wnd_update, wire>>

\* A RST for a connection that is still being set up (Recv_rst).
RecvRst ==
  /\ rto.pc # "clear"
  /\ state = "Syn_rcvd"
  /\ state' = "Closed"
  /\ UNCHANGED <<snd_una, tx_nxt, granted, segs, window, dup_acks, timer, tx_ack,
                 rto, tx_wnd_update, wire>>

-----------------------------------------------------------------------------
(* segment.ml, Tx.rto_t *)

\* Mutant: an older ACK counts as a duplicate too.
DupTestOlder(ack) ==
  /\ ack.seq <= snd_una
  /\ tx_wnd = ack.win
  /\ segs # <<>>

DupTest(ack) ==
  /\ ack.seq = snd_una
  /\ tx_wnd = ack.win
  /\ segs # <<>>

\* The third duplicate ACK retransmits the head of the queue, under the
\* sequence number of the ACK.
DupAck(ack) ==
  /\ DupTest(ack)
  /\ dup_acks' = dup_acks + 1
  /\ IF dup_acks' = 3
     THEN /\ wire' = wire \cup {[seq |-> ack.seq, data |-> Head(segs).data]}
          /\ AlertFastRexmit
     ELSE UNCHANGED <<wire, window>>
  /\ rto' = Putting(ack.win)

\* Any other ACK starts to clear the queue.
NewAck(ack) ==
  /\ ~DupTest(ack)
  /\ dup_acks' = 0
  /\ rto' = [pc |-> "clear", ack |-> ack, remaining |-> ack.seq - snd_una]
  /\ UNCHANGED <<wire, window>>

RtoTake ==
  /\ rto.pc = "take"
  /\ \E ack \in tx_ack : DupAck(ack) \/ NewAck(ack)
  /\ tx_ack' = {}
  /\ UNCHANGED <<state, snd_una, tx_nxt, granted, segs, timer, tx_wnd_update>>

\* The head of the queue is covered by what is left of the ACK.
Covered == segs # <<>> /\ Head(segs).len <= rto.remaining

\* clearsegs: one segment is acknowledged as a whole.
ClearSeg ==
  /\ rto.pc = "clear"
  /\ rto.remaining > 0
  /\ Covered
  /\ segs' = Tail(segs)
  /\ rto' = [rto EXCEPT !.remaining = @ - Head(segs).len]
  /\ UNCHANGED <<state, snd_una, tx_nxt, granted, window, dup_acks, timer, tx_ack,
                 tx_wnd_update, wire>>

\* Mutant: what is left of a partial ACK counts as acknowledged.
ClearDoneWhole ==
  /\ rto.pc = "clear"
  /\ rto.remaining <= 0 \/ ~Covered
  /\ TxAck(rto.ack.seq, rto.ack.win)
  /\ rto' = Putting(rto.ack.win)
  /\ UNCHANGED <<state, tx_nxt, granted, segs, dup_acks, timer, tx_ack, tx_wnd_update, wire>>

\* clearsegs ends: an old ACK, nothing left, a partial or a dubious ACK.
\* The window sees the ACK without the part that is left.
ClearDone ==
  /\ rto.pc = "clear"
  /\ rto.remaining <= 0 \/ ~Covered
  /\ TxAck(rto.ack.seq - Larger(rto.remaining, 0), rto.ack.win)
  /\ rto' = Putting(rto.ack.win)
  /\ UNCHANGED <<state, tx_nxt, granted, segs, dup_acks, timer, tx_ack, tx_wnd_update, wire>>

\* The window thread is told, once it has taken the last update.
RtoPut ==
  /\ rto.pc = "put"
  /\ tx_wnd_update = {}
  /\ tx_wnd_update' = {rto.ack.win}
  /\ rto' = Idle
  /\ UNCHANGED <<state, snd_una, tx_nxt, granted, segs, window, dup_acks, timer, tx_ack, wire>>

\* Pcb.Wnd.thread takes the update and is ready for the next.
WndTake ==
  /\ rto.pc # "clear"
  /\ tx_wnd_update # {}
  /\ tx_wnd_update' = {}
  /\ UNCHANGED <<state, snd_una, tx_nxt, granted, segs, window, dup_acks, timer, tx_ack,
                 rto, wire>>

-----------------------------------------------------------------------------
(* segment.ml, Tx.ontimer, called by Tcptimer.timerloop *)

StopTimer == timer' = [timer EXCEPT !.running = FALSE]
WatchHead == timer' = [timer EXCEPT !.seq = Head(segs).seq]

\* Mutant: the timer stops when the segment it watched is gone.
ExpireOtherStops ==
  /\ state \in RexmitStates /\ segs # <<>>
  /\ Head(segs).seq # timer.seq
  /\ StopTimer
  /\ UNCHANGED <<state, backoff_count, wire>>

\* Nothing to watch over.
ExpireStop ==
  /\ state \notin RexmitStates \/ segs = <<>>
  /\ StopTimer
  /\ UNCHANGED <<state, backoff_count, wire>>

\* The segment it watched has gone: watch the one that is now the oldest.
ExpireOther ==
  /\ state \in RexmitStates /\ segs # <<>>
  /\ Head(segs).seq # timer.seq
  /\ WatchHead
  /\ UNCHANGED <<state, backoff_count, wire>>

\* The segment it watched is still the oldest: give up ...
ExpireGiveUp ==
  /\ state \in RexmitStates /\ segs # <<>>
  /\ Head(segs).seq = timer.seq
  /\ backoff_count > MaxBackoff
  /\ state' = "Closed"
  /\ StopTimer
  /\ UNCHANGED <<backoff_count, wire>>

\* Mutant: the timer is not set again after a retransmission.
ExpireRexmitOnce ==
  /\ state \in RexmitStates /\ segs # <<>>
  /\ Head(segs).seq = timer.seq
  /\ backoff_count <= MaxBackoff
  /\ wire' = wire \cup {[seq |-> timer.seq, data |-> Head(segs).data]}
  /\ backoff_count' = backoff_count + 1
  /\ StopTimer
  /\ UNCHANGED state

\* ... or retransmit it and back off.
ExpireRexmit ==
  /\ state \in RexmitStates /\ segs # <<>>
  /\ Head(segs).seq = timer.seq
  /\ backoff_count <= MaxBackoff
  /\ wire' = wire \cup {[seq |-> timer.seq, data |-> Head(segs).data]}
  /\ backoff_count' = backoff_count + 1
  /\ WatchHead
  /\ UNCHANGED state

TimerExpire ==
  /\ rto.pc # "clear"
  /\ timer.running
  /\ ExpireStop \/ ExpireOther \/ ExpireGiveUp \/ ExpireRexmit
  /\ UNCHANGED <<snd_una, tx_nxt, granted, segs, tx_wnd, cwnd, ssthresh, fast_recovery,
                 dup_acks, tx_ack, rto, tx_wnd_update>>

-----------------------------------------------------------------------------
\* ACK numbers that can arrive: old, current, inside a segment, and one
\* beyond what was sent.
AckNumbers == 0 .. MaxSeq + 1

Next ==
  \/ \E len \in 1 .. Mss : OutputData(len)
  \/ \E len \in Mss + 1 .. MaxSeq : Write(len)
  \/ OutputGranted
  \/ OutputFin
  \/ \E seq \in AckNumbers, win \in Windows : RecvAck(seq, win)
  \/ RecvFin
  \/ RecvRst
  \/ RtoTake
  \/ ClearSeg
  \/ ClearDone
  \/ RtoPut
  \/ WndTake
  \/ TimerExpire

Spec == Init /\ [][Next]_vars

(***************************************************************************)
(* The Lwt scheduler resumes every thread that can go on, and a sleep      *)
(* ends.  The peer and the application may stay silent for ever.           *)
(***************************************************************************)
Fairness ==
  /\ WF_vars(RtoTake)
  /\ WF_vars(ClearSeg)
  /\ WF_vars(ClearDone)
  /\ WF_vars(RtoPut)
  /\ WF_vars(WndTake)
  /\ WF_vars(TimerExpire)

FairSpec == Spec /\ Fairness

-----------------------------------------------------------------------------
TypeOK ==
  /\ state \in RexmitStates \cup {"Closed"}
  /\ snd_una \in Int
  /\ tx_nxt \in Nat
  /\ granted \in Nat
  /\ segs \in Seq([seq : Int, len : Nat, data : Int])
  /\ tx_wnd \in Nat
  /\ cwnd \in Nat
  /\ ssthresh \in Nat
  /\ fast_recovery \in BOOLEAN
  /\ backoff_count \in Nat
  /\ dup_acks \in Nat
  /\ timer \in [running : BOOLEAN, seq : Int]
  /\ tx_ack \in SUBSET Ack
  /\ rto \in [pc : {"take", "clear", "put"}, ack : Ack, remaining : Int]
  /\ tx_wnd_update \in SUBSET Nat
  /\ wire \in SUBSET [seq : Int, data : Int]

\* Where the queue has to begin: in the loop clearsegs, what the ACK has
\* cleared so far is off the queue but not yet in snd_una.
Cut == IF rto.pc = "clear" THEN rto.ack.seq - rto.remaining ELSE snd_una

(***************************************************************************)
(* The retransmission queue is exactly what is in flight: its segments lie *)
(* end to end from snd_una to tx_nxt, whatever ACKs (old, partial, beyond  *)
(* what was sent) have been through clearsegs (segment.ml:284-306).        *)
(***************************************************************************)
QueueIsInflight ==
  /\ segs = <<>> => Cut = tx_nxt
  /\ segs # <<>> =>
       /\ segs[1].seq = Cut
       /\ segs[Len(segs)].seq + segs[Len(segs)].len = tx_nxt
  /\ \A i \in 1 .. Len(segs) - 1 : segs[i + 1].seq = segs[i].seq + segs[i].len

(***************************************************************************)
(* Every byte goes out under its own sequence number, also when the head   *)
(* of the queue is retransmitted under the number of a duplicate ACK       *)
(* (segment.ml:278) or on the timer (segment.ml:245).                      *)
(***************************************************************************)
WireConsistent == \A p \in wire : p.seq = p.data

(***************************************************************************)
(* While something is unacknowledged in a state that retransmits, the      *)
(* retransmission timer is running (segment.ml:353, tcptimer.ml:52): a     *)
(* start request that finds it running may be ignored.                     *)
(***************************************************************************)
TimerArmed == segs # <<>> /\ state \in RexmitStates => timer.running

(***************************************************************************)
(* Fast recovery (window.ml:146-155) ends with the loss it was entered     *)
(* for: it is never on with nothing in flight.                             *)
(***************************************************************************)
RecoveryHasInflight == fast_recovery => snd_una < tx_nxt

(***************************************************************************)
(* The congestion window never shuts the sender up: it always admits two   *)
(* full segments (window.ml:79, 150, 173-177, 198-199).                    *)
(***************************************************************************)
CwndFloor == cwnd >= 2 * Mss

(***************************************************************************)
(* The acknowledged prefix only grows and never passes what was sent, even *)
(* for an ACK of data that was not (segment.ml:290-292).                   *)
(***************************************************************************)
AckedPrefixGrows == [][snd_una <= snd_una' /\ snd_una' <= tx_nxt']_vars

(***************************************************************************)
(* What is in flight does not stay there for ever: it is acknowledged, or  *)
(* the timer gives the connection up (segment.ml:235-239).                 *)
(***************************************************************************)
AckedOrAbandoned ==
  (segs # <<>> /\ state \in RexmitStates) ~> (segs = <<>> \/ state = "Closed")

=============================================================================
