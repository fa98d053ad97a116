----------------------------- MODULE TcpTxProofs -----------------------------
(***************************************************************************)
(* Proofs about the transmit half of a connection, for every segment size, *)
(* every advertised window and any number of sequence numbers, ACKs and    *)
(* timeouts.                                                               *)
(***************************************************************************)
EXTENDS TcpTx, SequenceTheorems, TLAPS

Seg == [seq : Int, len : Nat, data : Int]

LEMMA MssType == Mss \in Nat /\ Mss > 0
  BY TxAssumption

LEMMA SingletonSeq ==
  ASSUME NEW S, NEW x \in S
  PROVE  <<x>> \in Seq(S)
  OBVIOUS

LEMMA SegsHead ==
  ASSUME TypeOK, segs # <<>>
  PROVE  /\ Head(segs) \in Seg
         /\ Tail(segs) \in Seq(Seg)
  BY HeadTailProperties DEF TypeOK, Seg

(***************************************************************************)
(* The floor of the congestion window makes the division of tx_ack         *)
(* (window.ml:175) defined; it rests on ssthresh not falling below two     *)
(* segments when fast recovery is entered, whence cwnd is reset on leaving.*)
(***************************************************************************)
Floor == CwndFloor /\ (fast_recovery => ssthresh >= 2 * Mss)

LEMMA CwndIncrementType ==
  ASSUME TypeOK, Floor
  PROVE  CwndIncrement \in Nat
<1>1. cwnd \in Nat /\ cwnd > 0 /\ Mss \in Nat
  BY MssType DEF TypeOK, Floor, CwndFloor
<1>2. Mss * Mss \in Nat
  BY <1>1
<1>3. (Mss * Mss) \div cwnd \in Int
  BY <1>1, <1>2
<1> QED
  BY <1>1, <1>3 DEF CwndIncrement, Larger

LEMMA TxAckType ==
  ASSUME TypeOK, Floor, NEW r \in Int, NEW win \in Nat, TxAck(r, win)
  PROVE  /\ snd_una' \in Int /\ tx_wnd' \in Nat /\ cwnd' \in Nat
         /\ ssthresh' \in Nat /\ fast_recovery' \in BOOLEAN
         /\ backoff_count' \in Nat
         /\ Floor'
<1>1. CwndIncrement \in Nat /\ Mss \in Nat
  BY CwndIncrementType, MssType
<1>2. /\ snd_una \in Int /\ cwnd \in Nat /\ ssthresh \in Nat
      /\ fast_recovery \in BOOLEAN /\ backoff_count \in Nat
      /\ cwnd >= 2 * Mss
      /\ fast_recovery => ssthresh >= 2 * Mss
  BY DEF TypeOK, Floor, CwndFloor
<1>3. snd_una' \in Int /\ tx_wnd' \in Nat /\ ssthresh' = ssthresh
  BY <1>2 DEF TxAck, Larger
<1>4. CASE fast_recovery /\ r > snd_una
  BY <1>1, <1>2, <1>3, <1>4 DEF TxAck, Floor, CwndFloor
<1>5. CASE fast_recovery /\ ~(r > snd_una)
  BY <1>1, <1>2, <1>3, <1>5 DEF TxAck, Floor, CwndFloor
<1>6. CASE ~fast_recovery
  BY <1>1, <1>2, <1>3, <1>6 DEF TxAck, Floor, CwndFloor
<1> QED
  BY <1>2, <1>4, <1>5, <1>6

LEMMA AlertType ==
  ASSUME TypeOK, Floor, AlertFastRexmit
  PROVE  /\ tx_wnd' \in Nat /\ cwnd' \in Nat /\ ssthresh' \in Nat
         /\ fast_recovery' \in BOOLEAN /\ backoff_count' \in Nat
         /\ Floor'
<1> DEFINE n == Larger(Inflight \div 2, 2 * Mss)
<1>1. n \in Nat /\ n >= 2 * Mss
  BY MssType DEF TypeOK, Larger, Inflight
<1>2. ssthresh' = n /\ cwnd' = n + 2 * Mss /\ fast_recovery' = TRUE
      /\ tx_wnd' = tx_wnd /\ backoff_count' = backoff_count
  BY DEF AlertFastRexmit
<1> HIDE DEF n
<1> QED
  BY <1>1, <1>2, MssType DEF TypeOK, Floor, CwndFloor

-----------------------------------------------------------------------------
RtoType == [pc : {"take", "clear", "put"}, ack : Ack, remaining : Int]

LEMMA RtoFields ==
  ASSUME TypeOK
  PROVE  /\ rto \in RtoType
         /\ rto.pc \in {"take", "clear", "put"}
         /\ rto.ack.seq \in Int
         /\ rto.ack.win \in Nat
         /\ rto.remaining \in Int
<1>1. rto \in RtoType
  BY DEF TypeOK, RtoType
<1>2. rto.ack \in Ack /\ rto.remaining \in Int /\ rto.pc \in {"take", "clear", "put"}
  BY <1>1 DEF RtoType
<1> QED
  BY <1>1, <1>2 DEF Ack

LEMMA RtoPutType ==
  ASSUME NEW win \in Nat
  PROVE  Putting(win) \in RtoType /\ Idle \in RtoType
<1>1. [seq |-> 0, win |-> win] \in Ack /\ [seq |-> 0, win |-> 0] \in Ack
  BY DEF Ack
<1> QED
  BY <1>1 DEF Idle, Putting, RtoType

LEMMA EnqueueType ==
  ASSUME TypeOK, Floor, NEW len \in Nat, Enqueue(len), granted' \in Nat
  PROVE  TypeOK' /\ Floor'
  BY DEF Enqueue, TypeOK, Floor, CwndFloor, window

(***************************************************************************)
(* What is sent is a segment that is not empty, whether the window was     *)
(* asked for it, or before, for the whole of the write it belongs to.      *)
(***************************************************************************)
Outputs ==
  \/ \E len \in 1 .. Mss : OutputData(len)
  \/ \E len \in Mss + 1 .. MaxSeq : Write(len)
  \/ OutputGranted
  \/ OutputFin

LEMMA OutputsASegment ==
  ASSUME TypeOK, Outputs
  PROVE  (\E len \in Nat \ {0} : Enqueue(len)) /\ granted' \in Nat
<1>0. Mss \in Nat \ {0} /\ MaxSeq \in Nat /\ granted \in Nat
  BY TxAssumption DEF TypeOK
<1>1. CASE \E len \in 1 .. Mss : OutputData(len)
  <2>1. PICK len \in 1 .. Mss : OutputData(len)
    BY <1>1
  <2>2. len \in Nat \ {0} /\ Enqueue(len) /\ granted' = granted
    BY <1>0, <2>1 DEF OutputData
  <2> QED
    BY <1>0, <2>2
<1>2. CASE \E len \in Mss + 1 .. MaxSeq : Write(len)
  <2>1. PICK len \in Mss + 1 .. MaxSeq : Write(len)
    BY <1>2
  <2>2. Enqueue(Mss) /\ granted' = len - Mss
    BY <2>1 DEF Write
  <2>3. len - Mss \in Nat
    BY <1>0
  <2> QED
    BY <1>0, <2>2, <2>3
<1>3. CASE OutputGranted
  <2> DEFINE n == Smaller(granted, Mss)
  <2>1. Enqueue(n) /\ granted' = granted - n /\ granted > 0
    BY <1>3 DEF OutputGranted
  <2>2. n \in Nat \ {0} /\ granted - n \in Nat
    BY <1>0, <2>1 DEF Smaller
  <2> HIDE DEF n
  <2> QED
    BY <2>1, <2>2
<1>4. CASE OutputFin
  <2>1. Enqueue(1) /\ granted' = granted /\ 1 \in Nat \ {0}
    BY <1>4 DEF OutputFin
  <2> QED
    BY <1>0, <2>1
<1> QED
  BY <1>1, <1>2, <1>3, <1>4 DEF Outputs

LEMMA RecvAckType ==
  ASSUME TypeOK, Floor, NEW seq \in AckNumbers, NEW win \in Windows, RecvAck(seq, win)
  PROVE  TypeOK' /\ Floor'
<1>1. [seq |-> seq, win |-> win] \in Ack
  BY TxAssumption DEF AckNumbers, Ack
<1>2. tx_ack' \in SUBSET Ack
  BY <1>1 DEF RecvAck
<1>3. state' \in RexmitStates \cup {"Closed"}
  BY DEF RecvAck, TickRecvAck, RexmitStates, TypeOK
<1> QED
  BY <1>2, <1>3 DEF RecvAck, TypeOK, Floor, CwndFloor, window

LEMMA RtoTakeType ==
  ASSUME TypeOK, Floor, RtoTake
  PROVE  TypeOK' /\ Floor'
<1>1. PICK ack \in tx_ack : DupAck(ack) \/ NewAck(ack)
  BY DEF RtoTake
<1>2. ack.seq \in Int /\ ack.win \in Nat /\ ack \in Ack /\ snd_una \in Int
  BY DEF TypeOK, Ack
<1>3. /\ UNCHANGED <<state, snd_una, tx_nxt, granted, segs, timer, tx_wnd_update>>
      /\ tx_ack' = {}
  BY DEF RtoTake
<1>4. CASE NewAck(ack)
  <2>1. rto' \in RtoType
    BY <1>2, <1>4 DEF NewAck, RtoType
  <2> QED
    BY <1>3, <1>4, <2>1 DEF NewAck, TypeOK, Floor, CwndFloor, window, RtoType
<1>5. CASE DupAck(ack)
  <2>1. rto' \in RtoType
    BY <1>2, <1>5, RtoPutType DEF DupAck
  <2>2. dup_acks' \in Nat
    BY <1>5 DEF DupAck, TypeOK
  <2>3. wire' \in SUBSET [seq : Int, data : Int]
    <3>1. Head(segs).data \in Int
      BY <1>5, SegsHead DEF DupAck, DupTest, Seg
    <3>2. wire \in SUBSET [seq : Int, data : Int]
      BY DEF TypeOK
    <3> QED
      BY <1>2, <1>5, <3>1, <3>2 DEF DupAck, window
  <2>4. CASE AlertFastRexmit
    BY <1>3, <2>1, <2>2, <2>3, <2>4, AlertType DEF TypeOK, RtoType
  <2>5. CASE UNCHANGED window
    BY <1>3, <2>1, <2>2, <2>3, <2>5 DEF TypeOK, Floor, CwndFloor, window, RtoType
  <2> QED
    BY <1>5, <2>4, <2>5 DEF DupAck
<1> QED
  BY <1>1, <1>4, <1>5

LEMMA ClearSegType ==
  ASSUME TypeOK, Floor, ClearSeg
  PROVE  TypeOK' /\ Floor'
<1>1. Head(segs).len \in Nat /\ segs' \in Seq(Seg)
  BY SegsHead DEF ClearSeg, Covered, Seg
<1>2. rto' \in RtoType
  BY <1>1, RtoFields DEF ClearSeg, RtoType
<1> QED
  BY <1>1, <1>2 DEF ClearSeg, TypeOK, Floor, CwndFloor, window, Seg, RtoType

LEMMA ClearDoneType ==
  ASSUME TypeOK, Floor, ClearDone
  PROVE  TypeOK' /\ Floor'
<1>1. rto.ack.seq \in Int /\ rto.ack.win \in Nat /\ rto.remaining \in Int
  BY RtoFields
<1>2. rto.ack.seq - Larger(rto.remaining, 0) \in Int
  BY <1>1 DEF Larger
<1>3. TxAck(rto.ack.seq - Larger(rto.remaining, 0), rto.ack.win)
  BY DEF ClearDone
<1>4. rto' \in RtoType
  BY <1>1, RtoPutType DEF ClearDone
<1>5. UNCHANGED <<state, tx_nxt, granted, segs, dup_acks, timer, tx_ack, tx_wnd_update,
                  wire>>
  BY DEF ClearDone
<1> QED
  BY <1>1, <1>2, <1>3, <1>4, <1>5, TxAckType DEF TypeOK, RtoType

LEMMA TimerExpireType ==
  ASSUME TypeOK, Floor, TimerExpire
  PROVE  TypeOK' /\ Floor'
<1>1. segs # <<>> => Head(segs).seq \in Int /\ Head(segs).data \in Int
  BY SegsHead DEF Seg
<1>2. /\ timer \in [running : BOOLEAN, seq : Int]
      /\ state \in RexmitStates \cup {"Closed"}
      /\ backoff_count \in Nat
      /\ wire \in SUBSET [seq : Int, data : Int]
  BY DEF TypeOK
<1>3. /\ timer' \in [running : BOOLEAN, seq : Int]
      /\ state' \in RexmitStates \cup {"Closed"}
      /\ backoff_count' \in Nat
      /\ wire' \in SUBSET [seq : Int, data : Int]
  <2>1. CASE ExpireStop
    BY <1>2, <2>1 DEF ExpireStop, StopTimer
  <2>2. CASE ExpireOther
    BY <1>1, <1>2, <2>2 DEF ExpireOther, WatchHead
  <2>3. CASE ExpireGiveUp
    BY <1>2, <2>3 DEF ExpireGiveUp, StopTimer
  <2>4. CASE ExpireRexmit
    BY <1>1, <1>2, <2>4 DEF ExpireRexmit, WatchHead
  <2> QED
    BY <2>1, <2>2, <2>3, <2>4 DEF TimerExpire
<1> QED
  BY <1>3 DEF TimerExpire, TypeOK, Floor, CwndFloor

LEMMA TypedStep ==
  ASSUME TypeOK, Floor, [Next]_vars
  PROVE  TypeOK' /\ Floor'
<1>1. CASE Outputs
  <2>1. PICK len \in Nat \ {0} : Enqueue(len)
    BY <1>1, OutputsASegment
  <2>2. len \in Nat /\ granted' \in Nat
    BY <1>1, OutputsASegment
  <2> QED
    BY <2>1, <2>2, EnqueueType
<1>2. CASE \E seq \in AckNumbers, win \in Windows : RecvAck(seq, win)
  BY <1>2, RecvAckType
<1>3. CASE RecvFin \/ RecvRst
  <2>1. state' \in RexmitStates \cup {"Closed"}
    BY <1>3 DEF RecvFin, RecvRst, RexmitStates
  <2>2. UNCHANGED <<snd_una, tx_nxt, granted, segs, window, dup_acks, timer, tx_ack,
                    rto, tx_wnd_update, wire>>
    BY <1>3 DEF RecvFin, RecvRst
  <2> QED
    BY <2>1, <2>2 DEF window, TypeOK, Floor, CwndFloor
<1>4. CASE RtoPut \/ WndTake
  <2>1. rto' \in RtoType
    BY <1>4, RtoPutType, RtoFields DEF RtoPut, WndTake
  <2>2. tx_wnd_update' \in SUBSET Nat
    BY <1>4, RtoFields DEF RtoPut, WndTake
  <2>3. UNCHANGED <<state, snd_una, tx_nxt, granted, segs, window, dup_acks, timer, wire>>
    BY <1>4 DEF RtoPut, WndTake
  <2>4. tx_ack' = tx_ack
    BY <1>4 DEF RtoPut, WndTake
  <2> QED
    BY <2>1, <2>2, <2>3, <2>4 DEF window, TypeOK, Floor, CwndFloor, RtoType
<1>5. CASE UNCHANGED vars
  BY <1>5 DEF vars, window, TypeOK, Floor, CwndFloor
<1> QED
  BY <1>1, <1>2, <1>3, <1>4, <1>5,
     RtoTakeType, ClearSegType, ClearDoneType, TimerExpireType DEF Next, Outputs

LEMMA TypedInit == Init => TypeOK /\ Floor
<1> SUFFICES ASSUME Init PROVE TypeOK /\ Floor
  OBVIOUS
<1>1. tx_wnd \in Nat /\ cwnd \in Nat /\ ssthresh \in Nat /\ Floor
  BY TxAssumption DEF Init, Floor, CwndFloor
<1>2. rto \in RtoType
  BY RtoPutType DEF Init
<1>3. segs \in Seq(Seg)
  <2> DEFINE syn == [seq |-> 0, len |-> 1, data |-> 0]
  <2>1. syn \in Seg
    BY DEF Seg
  <2>2. segs = <<syn>> \/ segs = <<>>
    BY DEF Init
  <2> HIDE DEF syn
  <2>3. <<syn>> \in Seq(Seg)
    BY <2>1, SingletonSeq
  <2>4. <<>> \in Seq(Seg)
    BY EmptySeq
  <2> QED
    BY <2>2, <2>3, <2>4
<1>4. /\ state \in RexmitStates \cup {"Closed"}
      /\ snd_una \in Int
  BY DEF Init, RexmitStates
<1>6. timer \in [running : BOOLEAN, seq : Int]
  <2>1. timer = [running |-> TRUE, seq |-> 0] \/ timer = [running |-> FALSE, seq |-> 0]
    BY DEF Init
  <2>2. CASE timer = [running |-> TRUE, seq |-> 0]
    BY <2>2
  <2>3. CASE timer = [running |-> FALSE, seq |-> 0]
    BY <2>3
  <2> QED
    BY <2>1, <2>2, <2>3
<1>7. wire \in SUBSET [seq : Int, data : Int]
  <2>1. wire = {[seq |-> 0, data |-> 0]} \/ wire = {}
    BY DEF Init
  <2> QED
    BY <2>1
<1>5. /\ tx_nxt \in Nat /\ granted \in Nat /\ fast_recovery \in BOOLEAN /\ backoff_count \in Nat
      /\ dup_acks \in Nat /\ tx_ack \in SUBSET Ack /\ tx_wnd_update \in SUBSET Nat
  BY DEF Init
<1> QED
  BY <1>1, <1>2, <1>3, <1>4, <1>5, <1>6, <1>7 DEF TypeOK, RtoType, Seg

(***************************************************************************)
(* Every variable of the transmit half keeps its type.                     *)
(***************************************************************************)
THEOREM TypeCorrect == Spec => []TypeOK
<1>1. TypeOK /\ Floor /\ [Next]_vars => TypeOK' /\ Floor'
  BY TypedStep
<1> QED
  BY TypedInit, <1>1, PTL DEF Spec

(***************************************************************************)
(* The congestion window always admits two full segments.                  *)
(***************************************************************************)
THEOREM CwndKeepsFloor == Spec => []CwndFloor
<1>1. TypeOK /\ Floor /\ [Next]_vars => TypeOK' /\ Floor'
  BY TypedStep
<1>2. Floor => CwndFloor
  BY DEF Floor
<1> QED
  BY TypedInit, <1>1, <1>2, PTL DEF Spec

-----------------------------------------------------------------------------
(***************************************************************************)
(* The retransmission queue.  QueueIsInflight alone is not inductive: that *)
(* the end of the queue is not before its beginning, which the acknowledged*)
(* prefix needs, follows from it only by counting segments.  Chain adds the*)
(* order of any two segments, and Mutual what the loop clearsegs relies on:*)
(* what it has cleared is not before snd_una, and it clears nothing for an *)
(* ACK older than snd_una.                                                 *)
(***************************************************************************)
Chain(q, from, to) ==
  /\ from <= to
  /\ q = <<>> => from = to
  /\ q # <<>> => /\ q[1].seq = from
                 /\ q[Len(q)].seq + q[Len(q)].len = to
  /\ \A i \in 1 .. Len(q) - 1 : q[i + 1].seq = q[i].seq + q[i].len
  /\ \A i \in 1 .. Len(q) : /\ q[i].len > 0
                            /\ q[i].data = q[i].seq
                            /\ from <= q[i].seq
                            /\ q[i].seq + q[i].len <= to
  /\ \A i, j \in 1 .. Len(q) : i < j => q[i].seq + q[i].len <= q[j].seq

Mutual ==
  /\ snd_una <= Cut
  /\ rto.pc = "clear" /\ rto.remaining < 0 => Cut = snd_una

IInv == /\ Chain(segs, Cut, tx_nxt)
        /\ Mutual
        /\ WireConsistent
        /\ TimerArmed
        /\ RecoveryHasInflight

LEMMA ChainAppend ==
  ASSUME NEW q \in Seq(Seg), NEW from \in Int, NEW to \in Int, Chain(q, from, to),
         NEW s \in Seg, s.seq = to, s.data = to, s.len > 0
  PROVE  Chain(Append(q, s), from, to + s.len)
<1> DEFINE r == Append(q, s)
<1>1. /\ r \in Seq(Seg) /\ Len(r) = Len(q) + 1 /\ r # <<>> /\ Len(q) \in Nat
      /\ r[Len(q) + 1] = s
      /\ \A i \in 1 .. Len(q) : r[i] = q[i]
  BY AppendProperties, LenProperties
<1>2. \A i \in 1 .. Len(q) : q[i].seq \in Int /\ q[i].len \in Nat
  <2>1. \A i \in 1 .. Len(q) : q[i] \in Seg
    BY ElementOfSeq
  <2> QED
    BY <2>1 DEF Seg
<1>3. s.len \in Nat
  BY DEF Seg
<1> HIDE DEF r
<1>4. from <= to + s.len /\ r[Len(r)].seq + r[Len(r)].len = to + s.len
  BY <1>1, <1>3 DEF Chain
<1>5. r[1].seq = from
  <2>1. CASE q = <<>>
    BY <1>1, <2>1 DEF Chain
  <2>2. CASE q # <<>>
    BY <1>1, <2>2, EmptySeq DEF Chain
  <2> QED
    BY <2>1, <2>2
<1>6. \A i \in 1 .. Len(r) - 1 : r[i + 1].seq = r[i].seq + r[i].len
  <2> SUFFICES ASSUME NEW i \in 1 .. Len(q) PROVE r[i + 1].seq = r[i].seq + r[i].len
    BY <1>1
  <2>1. CASE i = Len(q)
    BY <1>1, <2>1, EmptySeq DEF Chain
  <2>2. CASE i # Len(q)
    BY <1>1, <2>2 DEF Chain
  <2> QED
    BY <2>1, <2>2
<1>7. \A i \in 1 .. Len(r) : /\ r[i].len > 0 /\ r[i].data = r[i].seq
                             /\ from <= r[i].seq /\ r[i].seq + r[i].len <= to + s.len
  <2> SUFFICES ASSUME NEW i \in 1 .. Len(q) + 1
               PROVE  /\ r[i].len > 0 /\ r[i].data = r[i].seq
                      /\ from <= r[i].seq /\ r[i].seq + r[i].len <= to + s.len
    BY <1>1
  <2>1. CASE i = Len(q) + 1
    BY <1>1, <1>3, <2>1 DEF Chain
  <2>2. CASE i \in 1 .. Len(q)
    BY <1>1, <1>2, <1>3, <2>2 DEF Chain
  <2> QED
    BY <1>1, <2>1, <2>2
<1>8. \A i, j \in 1 .. Len(r) : i < j => r[i].seq + r[i].len <= r[j].seq
  <2> SUFFICES ASSUME NEW i \in 1 .. Len(q) + 1, NEW j \in 1 .. Len(q) + 1, i < j
               PROVE  r[i].seq + r[i].len <= r[j].seq
    BY <1>1
  <2>1. i \in 1 .. Len(q)
    BY <1>1
  <2>2. CASE j = Len(q) + 1
    BY <1>1, <2>1, <2>2 DEF Chain
  <2>3. CASE j \in 1 .. Len(q)
    BY <1>1, <2>1, <2>3 DEF Chain
  <2> QED
    BY <1>1, <2>2, <2>3
<1> QED
  BY <1>1, <1>4, <1>5, <1>6, <1>7, <1>8 DEF Chain, r

LEMMA ChainTail ==
  ASSUME NEW q \in Seq(Seg), NEW from \in Int, NEW to \in Int, Chain(q, from, to),
         q # <<>>
  PROVE  Chain(Tail(q), from + Head(q).len, to)
<1> DEFINE r == Tail(q)
<1>1. /\ r \in Seq(Seg) /\ Len(r) = Len(q) - 1 /\ Len(q) \in Nat \ {0}
      /\ \A i \in 1 .. Len(r) : r[i] = q[i + 1]
      /\ Head(q) = q[1]
  BY HeadTailProperties, EmptySeq
<1>2. \A i \in 1 .. Len(q) : q[i].seq \in Int /\ q[i].len \in Nat
  <2>1. \A i \in 1 .. Len(q) : q[i] \in Seg
    BY ElementOfSeq
  <2> QED
    BY <2>1 DEF Seg
<1>3. q[1].seq = from /\ from + q[1].len <= to
  BY <1>1, <1>2 DEF Chain
<1>4. r # <<>> => Len(r) > 0
  BY <1>1, EmptySeq
<1>5. r = <<>> => Len(r) = 0
  BY EmptySeq
<1> HIDE DEF r
<1>6. r = <<>> => from + q[1].len = to
  <2> SUFFICES ASSUME r = <<>> PROVE from + q[1].len = to
    OBVIOUS
  <2>1. Len(q) = 1 /\ q # <<>>
    BY <1>1, <1>5
  <2> QED
    BY <1>3, <2>1 DEF Chain
<1>7. r # <<>> => r[1].seq = from + q[1].len /\ r[Len(r)].seq + r[Len(r)].len = to
  BY <1>1, <1>3, <1>4 DEF Chain
<1>8. \A i \in 1 .. Len(r) - 1 : r[i + 1].seq = r[i].seq + r[i].len
  BY <1>1 DEF Chain
<1>9. \A i \in 1 .. Len(r) : /\ r[i].len > 0 /\ r[i].data = r[i].seq
                             /\ from + q[1].len <= r[i].seq /\ r[i].seq + r[i].len <= to
  BY <1>1, <1>3 DEF Chain
<1>10. \A i, j \in 1 .. Len(r) : i < j => r[i].seq + r[i].len <= r[j].seq
  BY <1>1 DEF Chain
<1> QED
  BY <1>1, <1>3, <1>6, <1>7, <1>8, <1>9, <1>10 DEF Chain, r

LEMMA CutType ==
  ASSUME TypeOK
  PROVE  Cut \in Int /\ snd_una \in Int /\ tx_nxt \in Int /\ segs \in Seq(Seg)
<1>1. rto.ack.seq \in Int /\ rto.remaining \in Int /\ snd_una \in Int
  BY RtoFields DEF TypeOK
<1>2. Cut \in Int
  BY <1>1 DEF Cut
<1> QED
  BY <1>1, <1>2 DEF TypeOK, Seg

\* What a queue that is not empty says of its head.
LEMMA ChainHead ==
  ASSUME TypeOK, Chain(segs, Cut, tx_nxt), segs # <<>>
  PROVE  /\ Head(segs).seq = Cut /\ Head(segs).data = Head(segs).seq
         /\ Head(segs).len \in Nat /\ Head(segs).len > 0
         /\ Cut < tx_nxt
<1>1. segs \in Seq(Seg) /\ Cut \in Int /\ tx_nxt \in Int
  BY CutType
<1>2. Head(segs) = segs[1] /\ Len(segs) \in Nat \ {0} /\ Head(segs) \in Seg
  BY <1>1, HeadTailProperties, EmptySeq
<1>3. Head(segs).len \in Nat /\ Head(segs).seq \in Int
  BY <1>2 DEF Seg
<1>4. /\ segs[1].seq = Cut
      /\ segs[1].len > 0 /\ segs[1].data = segs[1].seq
      /\ segs[1].seq + segs[1].len <= tx_nxt
  BY <1>2 DEF Chain
<1> QED
  BY <1>1, <1>2, <1>3, <1>4

LEMMA EnqueueInv ==
  ASSUME TypeOK, IInv, NEW len \in Nat \ {0}, Enqueue(len)
  PROVE  IInv' /\ snd_una <= snd_una' /\ snd_una' <= tx_nxt'
<1> DEFINE s == [seq |-> tx_nxt, len |-> len, data |-> tx_nxt]
<1>1. /\ segs \in Seq(Seg) /\ Cut \in Int /\ tx_nxt \in Int /\ snd_una \in Int
      /\ rto.pc # "clear" /\ Cut = snd_una
  BY CutType DEF Enqueue, Cut
<1>2. /\ tx_nxt' = tx_nxt + len
      /\ segs' = Append(segs, s)
      /\ wire' = wire \cup {[seq |-> tx_nxt, data |-> tx_nxt]}
      /\ timer' = IF timer.running THEN timer ELSE [running |-> TRUE, seq |-> tx_nxt]
      /\ UNCHANGED <<state, snd_una, window, rto>>
  BY DEF Enqueue
<1>3. s \in Seg /\ s.seq = tx_nxt /\ s.data = tx_nxt /\ s.len = len
  BY <1>1 DEF Seg
<1> HIDE DEF s
<1>4. Cut' = Cut
  BY <1>1, <1>2 DEF Cut
<1>5. Chain(segs', Cut', tx_nxt')
  <2>1. Chain(Append(segs, s), Cut, tx_nxt + s.len)
    BY <1>1, <1>3, ChainAppend DEF IInv
  <2> QED
    BY <1>2, <1>3, <1>4, <2>1
<1>6. Mutual'
  BY <1>1, <1>2, <1>4 DEF Mutual
<1>7. WireConsistent'
  BY <1>2 DEF WireConsistent, IInv
<1>8. TimerArmed'
  BY <1>2 DEF TimerArmed
<1>9. RecoveryHasInflight' /\ snd_una <= snd_una' /\ snd_una' <= tx_nxt'
  BY <1>1, <1>2 DEF RecoveryHasInflight, IInv, window, Chain
<1> QED
  BY <1>2, <1>4, <1>5, <1>6, <1>7, <1>8, <1>9 DEF IInv

\* A step that touches neither the queue, nor the window, nor the timer.
LEMMA AsideInv ==
  ASSUME TypeOK, IInv,
         UNCHANGED <<snd_una, tx_nxt, segs, timer, wire, fast_recovery>>,
         Cut' = Cut, rto'.pc # "clear" \/ rto' = rto,
         rto'.pc # "clear" => rto.pc # "clear",
         state' \in RexmitStates => state \in RexmitStates
  PROVE  IInv' /\ snd_una <= snd_una' /\ snd_una' <= tx_nxt'
<1>1. snd_una \in Int /\ tx_nxt \in Int /\ Cut \in Int
  BY CutType
<1>2. snd_una <= Cut /\ Cut <= tx_nxt
  BY DEF IInv, Mutual, Chain
<1>3. Mutual'
  BY DEF IInv, Mutual
<1>4. Chain(segs, Cut, tx_nxt)'
  BY DEF IInv
<1>5. WireConsistent' /\ TimerArmed' /\ RecoveryHasInflight'
  BY DEF IInv, WireConsistent, TimerArmed, RecoveryHasInflight
<1> QED
  BY <1>1, <1>2, <1>3, <1>4, <1>5 DEF IInv

LEMMA RtoTakeInv ==
  ASSUME TypeOK, IInv, RtoTake
  PROVE  IInv' /\ snd_una <= snd_una' /\ snd_una' <= tx_nxt'
<1>1. PICK ack \in tx_ack : DupAck(ack) \/ NewAck(ack)
  BY DEF RtoTake
<1>2. /\ rto.pc = "take"
      /\ UNCHANGED <<state, snd_una, tx_nxt, segs, timer>>
      /\ ack.seq \in Int
  BY DEF RtoTake, TypeOK, Ack
<1>3. /\ Cut = snd_una /\ Cut \in Int /\ snd_una \in Int /\ tx_nxt \in Int
      /\ snd_una <= tx_nxt
  BY <1>2, CutType DEF Cut, IInv, Chain
<1>4. Cut' = Cut /\ Mutual'
  <2>1. CASE NewAck(ack)
    <3>1. /\ rto'.pc = "clear" /\ rto'.ack.seq = ack.seq
          /\ rto'.remaining = ack.seq - snd_una
      BY <2>1 DEF NewAck
    <3> QED
      BY <1>2, <1>3, <3>1 DEF Cut, Mutual
  <2>2. CASE DupAck(ack)
    <3>1. rto'.pc = "put"
      BY <2>2 DEF DupAck, Putting
    <3> QED
      BY <1>2, <1>3, <3>1 DEF Cut, Mutual
  <2> QED
    BY <1>1, <2>1, <2>2
<1>5. Chain(segs, Cut, tx_nxt)' /\ TimerArmed'
  BY <1>2, <1>4 DEF IInv, TimerArmed
<1>6. WireConsistent' /\ RecoveryHasInflight'
  <2>1. CASE UNCHANGED <<wire, window>>
    BY <1>2, <2>1 DEF IInv, WireConsistent, RecoveryHasInflight, window
  <2>2. CASE DupAck(ack) /\ ~UNCHANGED <<wire, window>>
    <3>1. /\ ack.seq = snd_una /\ segs # <<>>
          /\ wire' = wire \cup {[seq |-> ack.seq, data |-> Head(segs).data]}
      BY <2>2 DEF DupAck, DupTest
    <3>2. Head(segs).data = ack.seq /\ snd_una < tx_nxt
      BY <1>3, <3>1, ChainHead DEF IInv
    <3> QED
      BY <1>2, <3>1, <3>2 DEF IInv, WireConsistent, RecoveryHasInflight
  <2> QED
    BY <1>1, <2>1, <2>2 DEF NewAck
<1> QED
  BY <1>2, <1>3, <1>4, <1>5, <1>6 DEF IInv

LEMMA ClearSegInv ==
  ASSUME TypeOK, IInv, ClearSeg
  PROVE  IInv' /\ snd_una <= snd_una' /\ snd_una' <= tx_nxt'
<1> DEFINE n == Head(segs).len
<1>1. /\ rto.pc = "clear" /\ rto.remaining > 0 /\ segs # <<>>
      /\ n <= rto.remaining
      /\ segs' = Tail(segs)
      /\ rto' = [rto EXCEPT !.remaining = rto.remaining - n]
      /\ UNCHANGED <<state, snd_una, tx_nxt, window, timer, wire>>
  BY DEF ClearSeg, Covered
<1>2. n \in Nat /\ Cut < tx_nxt
  BY <1>1, ChainHead DEF IInv
<1>3. /\ Cut \in Int /\ snd_una \in Int /\ tx_nxt \in Int /\ segs \in Seq(Seg)
      /\ rto.remaining \in Int /\ rto.ack.seq \in Int /\ rto \in RtoType
  BY CutType, RtoFields
<1>4. Chain(Tail(segs), Cut + n, tx_nxt)
  BY <1>1, <1>3, ChainTail DEF IInv
<1> HIDE DEF n
<1>5. rto'.pc = "clear" /\ rto'.remaining = rto.remaining - n /\ rto'.ack = rto.ack
  BY <1>1, <1>3 DEF RtoType
<1>6. Cut' = Cut + n
  BY <1>1, <1>2, <1>3, <1>5 DEF Cut
<1>7. Mutual'
  BY <1>1, <1>2, <1>3, <1>5, <1>6 DEF IInv, Mutual
<1>8. TimerArmed' /\ WireConsistent' /\ RecoveryHasInflight'
  BY <1>1 DEF IInv, TimerArmed, WireConsistent, RecoveryHasInflight, window
<1>9. snd_una <= snd_una' /\ snd_una' <= tx_nxt'
  BY <1>1, <1>2, <1>3 DEF IInv, Mutual
<1> QED
  BY <1>1, <1>4, <1>6, <1>7, <1>8, <1>9 DEF IInv

LEMMA ClearDoneInv ==
  ASSUME TypeOK, IInv, ClearDone
  PROVE  IInv' /\ snd_una <= snd_una' /\ snd_una' <= tx_nxt'
<1> DEFINE r == rto.ack.seq - Larger(rto.remaining, 0)
<1>1. /\ rto.pc = "clear"
      /\ TxAck(r, rto.ack.win)
      /\ rto' = Putting(rto.ack.win)
      /\ UNCHANGED <<state, tx_nxt, segs, timer, wire>>
  BY DEF ClearDone
<1>2. /\ rto.ack.seq \in Int /\ rto.remaining \in Int /\ snd_una \in Int
      /\ tx_nxt \in Int
  BY RtoFields, CutType
<1>3. /\ Cut = rto.ack.seq - rto.remaining
      /\ snd_una <= Cut /\ Cut <= tx_nxt
      /\ rto.remaining < 0 => Cut = snd_una
  BY <1>1 DEF Cut, IInv, Mutual, Chain
<1>4. r \in Int /\ Larger(r, snd_una) = Cut
  BY <1>2, <1>3 DEF Larger
<1>5. snd_una' = Cut /\ (fast_recovery' => fast_recovery /\ ~(r > snd_una))
  BY <1>1, <1>4 DEF TxAck
<1> HIDE DEF r
<1>6. Cut' = Cut /\ rto'.pc # "clear"
  BY <1>1, <1>5 DEF Cut, Putting
<1>7. Mutual' /\ snd_una <= snd_una' /\ snd_una' <= tx_nxt'
  BY <1>1, <1>2, <1>3, <1>5, <1>6 DEF Mutual
<1>8. TimerArmed' /\ WireConsistent'
  BY <1>1 DEF IInv, TimerArmed, WireConsistent
<1>9. RecoveryHasInflight'
  BY <1>1, <1>2, <1>3, <1>4, <1>5 DEF IInv, RecoveryHasInflight, Larger
<1> QED
  BY <1>1, <1>6, <1>7, <1>8, <1>9 DEF IInv

LEMMA TimerExpireInv ==
  ASSUME TypeOK, IInv, TimerExpire
  PROVE  IInv' /\ snd_una <= snd_una' /\ snd_una' <= tx_nxt'
<1>1. /\ rto.pc # "clear"
      /\ UNCHANGED <<snd_una, tx_nxt, segs, fast_recovery, rto>>
      /\ Cut = snd_una /\ Cut \in Int /\ snd_una \in Int /\ tx_nxt \in Int
  BY CutType DEF TimerExpire, Cut
<1>2. Cut' = Cut
  BY <1>1 DEF Cut
<1>3. /\ Chain(segs, Cut, tx_nxt)' /\ Mutual' /\ RecoveryHasInflight'
      /\ snd_una <= snd_una' /\ snd_una' <= tx_nxt'
  BY <1>1, <1>2 DEF IInv, Mutual, RecoveryHasInflight, Chain
<1>4. timer \in [running : BOOLEAN, seq : Int]
  BY DEF TypeOK
<1>5. WireConsistent' /\ TimerArmed'
  <2>1. CASE ExpireStop
    BY <1>1, <2>1 DEF ExpireStop, IInv, WireConsistent, TimerArmed
  <2>2. CASE ExpireOther
    <3>1. timer'.running = timer.running
      BY <1>4, <2>2 DEF ExpireOther, WatchHead
    <3> QED
      BY <1>1, <2>2, <3>1 DEF ExpireOther, IInv, WireConsistent, TimerArmed
  <2>3. CASE ExpireGiveUp
    BY <1>1, <2>3 DEF ExpireGiveUp, IInv, WireConsistent, TimerArmed, RexmitStates
  <2>4. CASE ExpireRexmit
    <3>1. /\ segs # <<>> /\ Head(segs).seq = timer.seq
          /\ wire' = wire \cup {[seq |-> timer.seq, data |-> Head(segs).data]}
      BY <2>4 DEF ExpireRexmit
    <3>2. Head(segs).data = timer.seq
      BY <3>1, ChainHead DEF IInv
    <3>3. timer'.running = timer.running /\ UNCHANGED state
      BY <1>4, <2>4 DEF ExpireRexmit, WatchHead
    <3> QED
      BY <1>1, <3>1, <3>2, <3>3 DEF IInv, WireConsistent, TimerArmed
  <2> QED
    BY <2>1, <2>2, <2>3, <2>4 DEF TimerExpire
<1> QED
  BY <1>3, <1>5 DEF IInv

\* The remaining actions leave queue, window and timer alone.
LEMMA OtherInv ==
  ASSUME TypeOK, IInv,
         \/ \E seq \in AckNumbers, win \in Windows : RecvAck(seq, win)
         \/ RecvFin \/ RecvRst \/ RtoPut \/ WndTake \/ UNCHANGED vars
  PROVE  IInv' /\ snd_una <= snd_una' /\ snd_una' <= tx_nxt'
<1>1. UNCHANGED <<snd_una, tx_nxt, segs, timer, wire, fast_recovery>>
  BY DEF RecvAck, RecvFin, RecvRst, RtoPut, WndTake, vars, window
<1>2. rto' = rto \/ (rto.pc # "clear" /\ rto' = Idle)
  BY DEF RecvAck, RecvFin, RecvRst, RtoPut, WndTake, vars
<1>3. Idle.pc # "clear"
  BY DEF Idle
<1>4. Cut' = Cut
  BY <1>1, <1>2, <1>3 DEF Cut
<1>5. state' \in RexmitStates => state \in RexmitStates
  BY DEF RecvAck, TickRecvAck, RecvFin, RecvRst, RtoPut, WndTake, vars, RexmitStates
<1> QED
  BY <1>1, <1>2, <1>3, <1>4, <1>5, AsideInv

LEMMA InvStep ==
  ASSUME TypeOK, IInv, [Next]_vars
  PROVE  IInv' /\ snd_una <= snd_una' /\ snd_una' <= tx_nxt'
<1>1. CASE Outputs
  <2>1. PICK len \in Nat \ {0} : Enqueue(len)
    BY <1>1, OutputsASegment
  <2> QED
    BY <2>1, EnqueueInv
<1> QED
  BY <1>1, RtoTakeInv, ClearSegInv, ClearDoneInv, TimerExpireInv, OtherInv DEF Next, Outputs

LEMMA InvInit == Init => IInv
<1> SUFFICES ASSUME Init PROVE IInv
  OBVIOUS
<1>1. Cut = snd_una
  BY DEF Init, Cut, Idle
<1>2. rto.pc # "clear" /\ fast_recovery = FALSE /\ tx_nxt = 1
  BY DEF Init, Idle
<1>3. CASE segs = <<>> /\ snd_una = 1 /\ wire = {}
  BY <1>1, <1>2, <1>3 DEF IInv, Chain, Mutual, WireConsistent, TimerArmed, RecoveryHasInflight
<1>4. CASE /\ segs = <<[seq |-> 0, len |-> 1, data |-> 0]>>
           /\ snd_una = 0 /\ wire = {[seq |-> 0, data |-> 0]}
           /\ timer = [running |-> TRUE, seq |-> 0]
  <2>1. /\ Len(segs) = 1 /\ segs # <<>>
        /\ segs[1].seq = 0 /\ segs[1].len = 1 /\ segs[1].data = 0
    BY <1>4
  <2>2. Chain(segs, Cut, tx_nxt)
    BY <1>1, <1>2, <1>4, <2>1 DEF Chain
  <2> QED
    BY <1>1, <1>2, <1>4, <2>2 DEF IInv, Mutual, WireConsistent, TimerArmed, RecoveryHasInflight
<1> QED
  BY <1>3, <1>4 DEF Init

LEMMA Inductive == Spec => [](TypeOK /\ IInv)
<1> DEFINE I == TypeOK /\ Floor /\ IInv
<1>1. Init => I
  BY TypedInit, InvInit
<1>2. I /\ [Next]_vars => I'
  BY TypedStep, InvStep
<1>3. I => TypeOK /\ IInv
  OBVIOUS
<1> HIDE DEF I
<1> QED
  BY <1>1, <1>2, <1>3, PTL DEF Spec

(***************************************************************************)
(* The retransmission queue is exactly what is in flight, and is so in     *)
(* every state of the loop clearsegs too.                                  *)
(***************************************************************************)
THEOREM QueueStaysInflight == Spec => []QueueIsInflight
<1>1. IInv => QueueIsInflight
  BY DEF IInv, Chain, QueueIsInflight
<1> QED
  BY Inductive, <1>1, PTL

(***************************************************************************)
(* No byte is transmitted or retransmitted under a sequence number that is *)
(* not its own.                                                            *)
(***************************************************************************)
THEOREM WireStaysConsistent == Spec => []WireConsistent
<1>1. IInv => WireConsistent
  BY DEF IInv
<1> QED
  BY Inductive, <1>1, PTL

(***************************************************************************)
(* Unacknowledged data in a state that retransmits has a running timer.    *)
(***************************************************************************)
THEOREM TimerStaysArmed == Spec => []TimerArmed
<1>1. IInv => TimerArmed
  BY DEF IInv
<1> QED
  BY Inductive, <1>1, PTL

(***************************************************************************)
(* Fast recovery is never on with nothing in flight.                       *)
(***************************************************************************)
THEOREM RecoveryOnlyInflight == Spec => []RecoveryHasInflight
<1>1. IInv => RecoveryHasInflight
  BY DEF IInv
<1> QED
  BY Inductive, <1>1, PTL

(***************************************************************************)
(* The acknowledged prefix grows and stays within what was sent, for any   *)
(* ACK number that arrives.                                                *)
(***************************************************************************)
THEOREM AckedPrefixOnlyGrows == Spec => AckedPrefixGrows
<1>1. TypeOK /\ IInv /\ [Next]_vars => [snd_una <= snd_una' /\ snd_una' <= tx_nxt']_vars
  BY InvStep
<1>2. Spec => [][Next]_vars
  BY PTL DEF Spec
<1> QED
  BY Inductive, <1>1, <1>2, PTL DEF AckedPrefixGrows

=============================================================================
