-------------------------------- MODULE TcpRx --------------------------------
(***************************************************************************)
(* The receive half of one TCP connection, from mirage-net/lib/tcp:        *)
(*   segment.ml, module Rx      in-order delivery out of a set of segments *)
(*   pcb.ml, Rx.thread          the thread between that and the user       *)
(*   user_buffer.ml, module Rx  the bounded buffer the application reads   *)
(*   ack.ml, module Delayed     when an ACK goes out                       *)
(*   pcb.ml, Tx.thread          the threads that send and note ACKs        *)
(* An Lwt_mvar with its blocked writers is the FIFO queue of what was put  *)
(* and not taken: its writers wait while it holds more than one.           *)
(*                                                                         *)
(* Sequence numbers are places in the stream of the peer, and a chunk of   *)
(* data is the place it begins at and its length.                          *)
(***************************************************************************)
EXTENDS TcpSequence, Sequences, FiniteSets

CONSTANTS
  StreamStart,      \* sequence number of the first byte
  StreamEnd,       \* of the FIN: the end of the stream
  MaxLen,     \* bytes in a segment
  MaxRxWnd,   \* size of the receive buffer and of the largest window
  Windows,    \* windows the peer advertises
  MaxNotices, \* bound: notices in rx_ack (2 block the next)
  MaxWindows  \* bound: windows in tx_ack (2 block the next)

ASSUME RxAssumption ==
  /\ StreamStart \in Nat /\ StreamEnd \in Nat /\ StreamStart <= StreamEnd
  /\ MaxLen \in Nat \ {0}
  /\ MaxRxWnd \in Nat /\ MaxLen < MaxRxWnd
  /\ Windows \subseteq Nat
  /\ MaxNotices \in 0 .. 2
  /\ MaxWindows \in 1 .. 2

VARIABLES
  rx_nxt_inseq,  \* next byte the queue of segments waits for
  rx_nxt,        \* next byte to acknowledge
  rx_wnd,        \* window to advertise
  waiting,       \* segments ahead of rx_nxt_inseq (q.segs)
  rx_data,       \* mvar: items for the receive thread
  tx_ack,        \* mvar: windows for the transmit side
  rx,            \* the receive thread: where it is, and the item in hand
  q,             \* user buffer
  cur_size,      \* bytes it counts
  reader,        \* whether the application waits in take_l
  read_nxt,      \* history: next byte the application has not got
  eof_read,      \* history: the application got None
  delayed, delayedack, pushpending,  \* Ack.Delayed
  ack_timer,
  send_ack,      \* mvar: number of prompts to send an ACK
  rx_ack         \* mvar: number of notices that an ACK went out with data

buffer == <<q, cur_size, reader, read_nxt, eof_read, rx_wnd>>
acks == <<delayed, delayedack, pushpending, ack_timer, send_ack, rx_ack>>
vars == <<rx_nxt_inseq, rx_nxt, waiting, rx_data, tx_ack, rx, buffer, acks>>

NoAdvance == -1  \* the option None of a winadv
Eof == [seq |-> StreamEnd, len |-> 0]  \* the option None of a chunk

\* A timer that does not run; its number is set when it is started.
Stopped == [running |-> FALSE, seq |-> StreamStart]

Smaller(a, b) == IF a < b THEN a ELSE b
Larger(a, b) == IF a > b THEN a ELSE b

Init ==
  /\ rx_nxt_inseq = StreamStart
  /\ rx_nxt = StreamStart
  /\ rx_wnd = MaxRxWnd
  /\ waiting = {}
  /\ rx_data = <<>>
  /\ tx_ack = <<>>
  /\ rx = [pc |-> "take", adv |-> NoAdvance, elems |-> <<>>]
  /\ q = <<>>
  /\ cur_size = 0
  /\ reader = FALSE
  /\ read_nxt = StreamStart
  /\ eof_read = FALSE
  /\ delayed = FALSE
  /\ delayedack = StreamStart
  /\ pushpending = FALSE
  /\ ack_timer = Stopped
  /\ send_ack = 0
  /\ rx_ack = 0

-----------------------------------------------------------------------------
(* segment.ml, Rx.input *)

\* A segment of the peer's stream: its data is what the stream has there,
\* and its FIN is at the end.
Segments ==
  {s \in [seq : StreamStart .. StreamEnd + 1, len : 0 .. MaxLen, fin : BOOLEAN, win : Windows] :
     /\ s.seq + s.len <= StreamEnd \/ s.len = 0
     /\ s.fin => s.seq + s.len = StreamEnd}

SegLen(s) == s.len + (IF s.fin THEN 1 ELSE 0)

\* Window.valid
Valid(seq) == rx_nxt - MaxRxWnd <= seq /\ seq <= rx_nxt + rx_wnd

\* The set orders its segments, and the walk compares them, by Int32.compare.
SeqCompare(a, b) == Compare(Wrap(a), Wrap(b))

\* S.add keeps the element that is already there.
SetAdd(seg, segs) ==
  IF \E s \in segs : s.seq = seg.seq THEN segs ELSE segs \cup {seg}

\* The segment that the walk of the set comes to next.
Least(segs) == CHOOSE s \in segs : \A t \in segs : SeqCompare(s.seq, t.seq) < 1

\* The next segment joins the ready ones: its data is for the user, and the
\* window and the fin of the ready segments are those of the greatest.
Ready(acc, seg) ==
  [acc EXCEPT !.nxt = @ + SegLen(seg), !.win = seg.win, !.fin = seg.fin,
              !.data = IF seg.len > 0 THEN Append(@, [seq |-> seg.seq, len |-> seg.len]) ELSE @]

\* Mutant: a segment of the past counts as the next.
VisitPast(acc, seg) ==
  IF SeqCompare(seg.seq, acc.nxt) <= 0 THEN Ready(acc, seg)
  ELSE [acc EXCEPT !.force = TRUE, !.waiting = @ \cup {seg}]

\* One segment of the walk: past, next or ahead.
Visit(acc, seg) ==
  CASE SeqCompare(seg.seq, acc.nxt) = -1 -> [acc EXCEPT !.force = TRUE]
    [] SeqCompare(seg.seq, acc.nxt) = 0 -> Ready(acc, seg)
    [] SeqCompare(seg.seq, acc.nxt) = 1 ->
         [acc EXCEPT !.force = TRUE, !.waiting = @ \cup {seg}]

WalkStart(segs) == [nxt |-> rx_nxt_inseq, data |-> <<>>, win |-> 0, fin |-> FALSE,
                    waiting |-> {}, force |-> FALSE, rest |-> segs]

WalkStep(acc) ==
  LET seg == Least(acc.rest) IN [Visit(acc, seg) EXCEPT !.rest = @ \ {seg}]

\* The walk through all segments, in their order.
Walk(segs) ==
  LET walk[n \in 0 .. Cardinality(segs)] ==
        IF n = 0 THEN WalkStart(segs) ELSE WalkStep(walk[n - 1])
  IN  walk[Cardinality(segs)]

\* Mutant: the end of the stream is put before the data.
ItemsEndFirst(walk) ==
  LET data == [adv |-> walk.nxt - rx_nxt_inseq, elems |-> walk.data]
  IN  IF walk.fin
      THEN <<[adv |-> 0, elems |-> <<Eof>>], data>>
      ELSE <<data>>

\* What is put in rx_data: the data, and after a FIN the end of it.
Items(walk) ==
  LET winadv == walk.nxt - rx_nxt_inseq
      w == IF walk.force \/ winadv > 0 THEN winadv ELSE NoAdvance
      data == [adv |-> w, elems |-> walk.data]
  IN  IF walk.fin
      THEN <<data, [adv |-> 0, elems |-> <<Eof>>]>>
      ELSE <<data>>

\* Frames are handled one at a time: the last has been put.
HandlerIdle == Len(rx_data) <= 1 /\ Len(tx_ack) < MaxWindows

InputInvalid(seg) ==
  /\ HandlerIdle
  /\ ~Valid(seg.seq)
  /\ UNCHANGED vars

Input(seg) ==
  /\ HandlerIdle
  /\ Valid(seg.seq)
  /\ LET walk == Walk(SetAdd(seg, waiting))
     IN  /\ rx_nxt_inseq' = walk.nxt
         /\ waiting' = walk.waiting
         /\ tx_ack' = Append(tx_ack, [told |-> walk.win, win |-> seg.win])
         /\ rx_data' = rx_data \o Items(walk)
  /\ UNCHANGED <<rx_nxt, rx, buffer, acks>>

\* The transmit side takes an ACK (module TcpTx).
TxTake ==
  /\ tx_ack # <<>>
  /\ tx_ack' = Tail(tx_ack)
  /\ UNCHANGED <<rx_nxt_inseq, rx_nxt, waiting, rx_data, rx, buffer, acks>>

-----------------------------------------------------------------------------
(* ack.ml, module Delayed *)

\* transmitack
TransmitAck ==
  IF pushpending
  THEN UNCHANGED <<pushpending, send_ack>>
  ELSE pushpending' = TRUE /\ send_ack' = send_ack + 1

\* Mutant: the timer is not started.
ReceiveNoTimer(ack_number) ==
  /\ delayed' = ~delayed
  /\ IF delayed
     THEN TransmitAck /\ UNCHANGED <<delayedack, ack_timer>>
     ELSE /\ delayedack' = ack_number
          /\ UNCHANGED <<pushpending, send_ack, ack_timer>>
  /\ UNCHANGED rx_ack

\* receive: every second time an ACK, else one when the timer expires.
Receive(ack_number) ==
  /\ delayed' = ~delayed
  /\ IF delayed
     THEN TransmitAck /\ UNCHANGED <<delayedack, ack_timer>>
     ELSE /\ delayedack' = ack_number
          /\ ack_timer' = IF ack_timer.running THEN ack_timer
                          ELSE [running |-> TRUE, seq |-> ack_number]
          /\ UNCHANGED <<pushpending, send_ack>>
  /\ UNCHANGED rx_ack

PushAck ==
  /\ send_ack' = send_ack + 1
  /\ UNCHANGED <<delayed, delayedack, pushpending, ack_timer, rx_ack>>

\* transmit: an ACK has been sent, whichever.
Transmit == delayed' = FALSE /\ pushpending' = FALSE

\* ontimer, called by Tcptimer.timerloop.
AckTimer ==
  /\ ack_timer.running
  /\ \/ /\ ~delayed
        /\ ack_timer' = Stopped
        /\ UNCHANGED <<delayed, pushpending, send_ack>>
     \/ /\ delayed /\ delayedack # ack_timer.seq
        /\ ack_timer' = [ack_timer EXCEPT !.seq = delayedack]
        /\ UNCHANGED <<delayed, pushpending, send_ack>>
     \/ /\ delayed /\ delayedack = ack_timer.seq
        /\ delayed' = FALSE
        /\ TransmitAck
        /\ ack_timer' = Stopped
  /\ UNCHANGED <<rx_nxt_inseq, rx_nxt, waiting, rx_data, tx_ack, rx, buffer,
                 delayedack, rx_ack>>

-----------------------------------------------------------------------------
(* pcb.ml, Tx.thread *)

\* send_empty_ack
SendEmptyAck ==
  /\ send_ack > 0
  /\ send_ack' = send_ack - 1
  /\ Transmit
  /\ UNCHANGED <<rx_nxt_inseq, rx_nxt, waiting, rx_data, tx_ack, rx, buffer,
                 delayedack, ack_timer, rx_ack>>

\* A data segment goes out with an ACK (Segment.Tx.output), one at a time.
OutputWithAck ==
  /\ rx_ack < MaxNotices
  /\ rx_ack' = rx_ack + 1
  /\ UNCHANGED <<rx_nxt_inseq, rx_nxt, waiting, rx_data, tx_ack, rx, buffer,
                 delayed, delayedack, pushpending, ack_timer, send_ack>>

\* notify
Notify ==
  /\ rx_ack > 0
  /\ rx_ack' = rx_ack - 1
  /\ Transmit
  /\ UNCHANGED <<rx_nxt_inseq, rx_nxt, waiting, rx_data, tx_ack, rx, buffer,
                 delayedack, ack_timer, send_ack>>

-----------------------------------------------------------------------------
(* pcb.ml, Rx.thread *)

RxTake ==
  /\ rx.pc = "take"
  /\ rx_data # <<>>
  /\ rx' = [pc |-> "got", adv |-> Head(rx_data).adv, elems |-> Head(rx_data).elems]
  /\ rx_data' = Tail(rx_data)
  /\ UNCHANGED <<rx_nxt_inseq, rx_nxt, waiting, tx_ack, buffer, acks>>

\* The ACK number advances before the data is in the user buffer.
RxAck ==
  /\ rx.pc = "got"
  /\ rx_nxt' = rx_nxt + Larger(rx.adv, 0)
  /\ \/ rx.adv = NoAdvance /\ UNCHANGED acks
     \/ rx.adv > 0 /\ Receive(rx_nxt')
     \/ rx.adv = 0 /\ PushAck
  /\ rx' = [rx EXCEPT !.pc = IF send_ack' > send_ack THEN "ack" ELSE "queue"]
  /\ UNCHANGED <<rx_nxt_inseq, waiting, rx_data, tx_ack, buffer>>

\* The prompt it put has been accepted by the mvar.
RxAcked ==
  /\ rx.pc = "ack"
  /\ send_ack <= 1
  /\ rx' = [rx EXCEPT !.pc = "queue"]
  /\ UNCHANGED <<rx_nxt_inseq, rx_nxt, waiting, rx_data, tx_ack, buffer, acks>>

\* notify_size_watcher, for the size after the step (there is no watcher)
SetRxWnd == rx_wnd' = Larger(0, MaxRxWnd - cur_size')

\* The application gets a chunk, or the end of the stream.
Got(chunk) ==
  /\ read_nxt' = read_nxt + chunk.len
  /\ eof_read' = (eof_read \/ chunk.len = 0)

\* Mutant: a chunk is queued although a reader waits.
AddPastReader ==
  /\ rx.pc = "queue" /\ rx.elems # <<>>
  /\ cur_size <= MaxRxWnd
  /\ reader
  /\ cur_size' = cur_size + Head(rx.elems).len
  /\ SetRxWnd
  /\ q' = Append(q, Head(rx.elems))
  /\ rx' = [rx EXCEPT !.elems = Tail(@)]
  /\ UNCHANGED <<rx_nxt_inseq, rx_nxt, waiting, rx_data, tx_ack, reader,
                 read_nxt, eof_read, acks>>

\* add_r: straight to a reader that waits ...
AddToReader ==
  /\ rx.pc = "queue" /\ rx.elems # <<>>
  /\ cur_size <= MaxRxWnd
  /\ reader
  /\ reader' = FALSE
  /\ Got(Head(rx.elems))
  /\ rx' = [rx EXCEPT !.elems = Tail(@)]
  /\ UNCHANGED <<rx_nxt_inseq, rx_nxt, waiting, rx_data, tx_ack, q, cur_size,
                 rx_wnd, acks>>

\* ... or to the buffer ...
AddToQueue ==
  /\ rx.pc = "queue" /\ rx.elems # <<>>
  /\ cur_size <= MaxRxWnd
  /\ ~reader
  /\ cur_size' = cur_size + Head(rx.elems).len
  /\ SetRxWnd
  /\ q' = Append(q, Head(rx.elems))
  /\ rx' = [rx EXCEPT !.elems = Tail(@)]
  /\ UNCHANGED <<rx_nxt_inseq, rx_nxt, waiting, rx_data, tx_ack, reader,
                 read_nxt, eof_read, acks>>

\* ... or, when that is over full, the thread blocks, the chunk counted.
AddBlocks ==
  /\ rx.pc = "queue" /\ rx.elems # <<>>
  /\ cur_size > MaxRxWnd
  /\ cur_size' = cur_size + Head(rx.elems).len
  /\ SetRxWnd
  /\ rx' = [rx EXCEPT !.pc = "blocked"]
  /\ UNCHANGED <<rx_nxt_inseq, rx_nxt, waiting, rx_data, tx_ack, q, reader,
                 read_nxt, eof_read, acks>>

\* The item is used up.
RxAgain ==
  /\ rx.pc = "queue" /\ rx.elems = <<>>
  /\ rx' = [pc |-> "take", adv |-> NoAdvance, elems |-> <<>>]
  /\ UNCHANGED <<rx_nxt_inseq, rx_nxt, waiting, rx_data, tx_ack, buffer, acks>>

-----------------------------------------------------------------------------
(* user_buffer.ml, Rx.take_l: the application reads *)

\* Mutant: the window is not told.
ReadKeepsWindow ==
  /\ ~eof_read /\ ~reader /\ q # <<>>
  /\ Got(Head(q))
  /\ cur_size' = cur_size - Head(q).len
  /\ IF cur_size' < MaxRxWnd /\ rx.pc = "blocked"
     THEN /\ q' = Append(Tail(q), Head(rx.elems))
          /\ rx' = [rx EXCEPT !.pc = "queue", !.elems = Tail(@)]
     ELSE q' = Tail(q) /\ UNCHANGED rx
  /\ UNCHANGED <<rx_nxt_inseq, rx_nxt, waiting, rx_data, tx_ack, reader, rx_wnd, acks>>

\* A chunk is there; a thread blocked in add_r goes on if there is room.
Read ==
  /\ ~eof_read /\ ~reader /\ q # <<>>
  /\ Got(Head(q))
  /\ cur_size' = cur_size - Head(q).len
  /\ SetRxWnd
  /\ IF cur_size' < MaxRxWnd /\ rx.pc = "blocked"
     THEN /\ q' = Append(Tail(q), Head(rx.elems))
          /\ rx' = [rx EXCEPT !.pc = "queue", !.elems = Tail(@)]
     ELSE q' = Tail(q) /\ UNCHANGED rx
  /\ UNCHANGED <<rx_nxt_inseq, rx_nxt, waiting, rx_data, tx_ack, reader, acks>>

\* Nothing is there: wait.
ReadWaits ==
  /\ ~eof_read /\ q = <<>> /\ ~reader
  /\ reader' = TRUE
  /\ UNCHANGED <<rx_nxt_inseq, rx_nxt, waiting, rx_data, tx_ack, rx, q, cur_size,
                 read_nxt, eof_read, rx_wnd, acks>>

-----------------------------------------------------------------------------
RxThread ==
  RxTake \/ RxAck \/ RxAcked \/ AddToReader \/ AddToQueue \/ AddBlocks \/ RxAgain

Application == Read \/ ReadWaits

Next ==
  \/ \E seg \in Segments : Input(seg) \/ InputInvalid(seg)
  \/ TxTake
  \/ AckTimer
  \/ SendEmptyAck
  \/ OutputWithAck
  \/ Notify
  \/ RxThread
  \/ Application

Spec == Init /\ [][Next]_vars

(***************************************************************************)
(* The scheduler resumes every thread that can go on, and the application  *)
(* keeps reading; the peer need not send anything.                         *)
(***************************************************************************)
Fairness == WF_vars(RxThread) /\ WF_vars(SendEmptyAck) /\ WF_vars(Application)

FairSpec == Spec /\ Fairness

-----------------------------------------------------------------------------
\* Only the end of the stream is a chunk without data.
Chunk == {c \in [seq : Nat, len : Nat] : c.len = 0 => c.seq = StreamEnd}
Item == [adv : Nat \cup {NoAdvance}, elems : Seq(Chunk)]

TypeOK ==
  /\ rx_nxt_inseq \in StreamStart .. StreamEnd + 1
  /\ rx_nxt \in StreamStart .. StreamEnd + 1
  /\ rx_wnd \in 0 .. MaxRxWnd
  /\ waiting \in SUBSET Segments
  /\ rx_data \in Seq(Item)
  /\ tx_ack \in Seq([told : Nat, win : Nat])
  /\ rx \in [pc : {"take", "got", "ack", "queue", "blocked"},
             adv : Nat \cup {NoAdvance}, elems : Seq(Chunk)]
  /\ q \in Seq(Chunk)
  /\ cur_size \in Nat
  /\ reader \in BOOLEAN
  /\ read_nxt \in StreamStart .. StreamEnd
  /\ eof_read \in BOOLEAN
  /\ delayed \in BOOLEAN /\ pushpending \in BOOLEAN
  /\ delayedack \in Nat
  /\ ack_timer \in [running : BOOLEAN, seq : Nat]
  /\ send_ack \in Nat /\ rx_ack \in Nat

\* What is between the network and the application, in the order it is read.
Pipeline ==
  LET upto[n \in 0 .. Len(rx_data)] ==
        IF n = 0 THEN q \o rx.elems ELSE upto[n - 1] \o rx_data[n].elems
  IN  upto[Len(rx_data)]

SumLen(chunks) ==
  LET sum[n \in 0 .. Len(chunks)] == IF n = 0 THEN 0 ELSE sum[n - 1] + chunks[n].len
  IN  sum[Len(chunks)]

(***************************************************************************)
(* No byte is lost, doubled or reordered between Segment.Rx.input and the  *)
(* application, whatever arrives: what was read, and after it the user     *)
(* buffer, the chunk of a blocked thread, the item in hand and the items   *)
(* put, make up the stream up to rx_nxt_inseq (segment.ml:110-166,         *)
(* pcb.ml:145-170, user_buffer.ml:55-92).                                  *)
(***************************************************************************)
StreamIntact ==
  LET p == Pipeline
      end == Smaller(rx_nxt_inseq, StreamEnd)
  IN  IF p = <<>>
      THEN read_nxt = end
      ELSE /\ p[1].seq = read_nxt
           /\ p[Len(p)].seq + p[Len(p)].len = end
           /\ \A i \in 1 .. Len(p) - 1 : p[i + 1].seq = p[i].seq + p[i].len

(***************************************************************************)
(* The window advertised is what is free in the user buffer, the chunk of  *)
(* a blocked thread counted as in it (user_buffer.ml:44-46, 60-62, 85-92). *)
(***************************************************************************)
WindowIsFreeSpace ==
  rx_wnd = Larger(0, MaxRxWnd - (SumLen(q) + IF rx.pc = "blocked" THEN Head(rx.elems).len ELSE 0))

(***************************************************************************)
(* The segments that wait are ahead of what was received in order: the set *)
(* keeps nothing that will never be ready (segment.ml:120-136).            *)
(***************************************************************************)
WaitingAhead == \A s \in waiting : s.seq > rx_nxt_inseq

(***************************************************************************)
(* A delayed ACK has its timer (ack.ml:93-106, 119-128).                   *)
(***************************************************************************)
DelayedIsTimed == delayed => ack_timer.running

(***************************************************************************)
(* What is put off is not forgotten: segments wait only for what is before *)
(* them, and ACKs only for their timer.                                    *)
(***************************************************************************)
NothingIsForgotten == TypeOK /\ WaitingAhead /\ DelayedIsTimed

(***************************************************************************)
(* An application that keeps reading has, again and again, read all that   *)
(* was received in order: no reader, no blocked thread and no item of an   *)
(* mvar is left waiting for the other (user_buffer.ml:55-92,               *)
(* pcb.ml:145-170).                                                        *)
(***************************************************************************)
ReceivedIsRead == []<>(read_nxt = Smaller(rx_nxt_inseq, StreamEnd))

(***************************************************************************)
(* To the application it is a stream of bytes (module ByteStream): a read  *)
(* gives what comes next of what arrived, and the end of the stream is     *)
(* told once, when it has arrived and after the last byte                  *)
(* (segment.ml:150-166, user_buffer.ml:78-94).                             *)
(***************************************************************************)
Stream == INSTANCE ByteStream WITH
            First <- StreamStart, Last <- StreamEnd,
            arrived <- rx_nxt_inseq, read <- read_nxt, ended <- eof_read
IsByteStream == Stream!Spec

-----------------------------------------------------------------------------
(* What comments of the code promise and the code does not do *)

(***************************************************************************)
(* "Determine the transmit window, from the last segment" (segment.ml:99). *)
(***************************************************************************)
WindowIsOfSegment == \A i \in DOMAIN tx_ack : tx_ack[i].told = tx_ack[i].win

(***************************************************************************)
(* "The receive queue stores out-of-order segments" (segment.ml:28): a     *)
(* segment of the window ahead of the next byte is kept.                   *)
(***************************************************************************)
AheadIsKept ==
  [][\A seg \in Segments :
       Input(seg) /\ seg.seq > rx_nxt_inseq /\ rx_nxt_inseq' < seg.seq
         => \E s \in waiting' : s.seq = seg.seq]_vars

=============================================================================
