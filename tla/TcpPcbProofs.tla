---------------------------- MODULE TcpPcbProofs ----------------------------
(* What the connection tables of TcpPcb keep for any number of connections,*)
(* listeners and callers.                                                  *)
EXTENDS TcpPcb, SequenceTheorems, TLAPS

Rows == {<< >>} \cup {<<p>> : p \in Pcbs}

Typed ==
  /\ channels \in [Ids -> Rows]
  /\ listens \in [Ids -> HalfOpen \cup {None}]
  /\ listeners \in [Ports -> Streams \cup {None}]
  /\ pcb \in [Pcbs -> NewPcb \cup {None}]

\* A row of the active table, and a handshake, hold a connection of that id.
ChannelIds ==
  \A id \in Ids, p \in Pcbs : channels[id] = <<p>> => pcb[p] # None /\ pcb[p].id = id

HandshakeIds ==
  \A id \in Ids :
    listens[id] # None => pcb[listens[id].pcb] # None /\ pcb[listens[id].pcb].id = id

Inv == Typed /\ ChannelIds /\ HandshakeIds

\* A step that makes connections or changes them, but not their ids.
KeepsIds ==
  /\ pcb' \in [Pcbs -> NewPcb \cup {None}]
  /\ \A p \in Pcbs : pcb[p] # None => pcb'[p] # None /\ pcb'[p].id = pcb[p].id

-----------------------------------------------------------------------------
(* Rows of the active table and records of a connection *)

LEMMA Row ==
  ASSUME NEW p
  PROVE  /\ <<p>> # << >>
         /\ Head(<<p>>) = p
         /\ Tail(<<p>>) = << >>
         /\ <<p>> \o << >> = <<p>>
  OBVIOUS

LEMMA RowsEqual ==
  ASSUME NEW p, NEW q, <<p>> = <<q>>
  PROVE  p = q
  OBVIOUS

LEMMA SetInflight ==
  ASSUME NEW c \in NewPcb, NEW b \in BOOLEAN
  PROVE  [c EXCEPT !.inflight = b] \in NewPcb /\ [c EXCEPT !.inflight = b].id = c.id
  BY DEF NewPcb

LEMMA SetOwned ==
  ASSUME NEW c \in NewPcb, NEW b \in BOOLEAN
  PROVE  [c EXCEPT !.owned = b] \in NewPcb /\ [c EXCEPT !.owned = b].id = c.id
  BY DEF NewPcb

LEMMA SetState ==
  ASSUME NEW c \in NewPcb, NEW st \in {"Syn_rcvd", "Established", "Close_wait", "Closed"}
  PROVE  [c EXCEPT !.state = st] \in NewPcb /\ [c EXCEPT !.state = st].id = c.id
  BY DEF NewPcb

(***************************************************************************)
(* A connection replaced by one of the same id.                            *)
(***************************************************************************)
LEMMA Replace ==
  ASSUME Typed, NEW p \in Pcbs, pcb[p] # None, NEW c \in NewPcb, c.id = pcb[p].id,
         pcb' = [pcb EXCEPT ![p] = c]
  PROVE  KeepsIds
  <1>1. pcb \in [Pcbs -> NewPcb \cup {None}]
    BY DEF Typed
  <1>2. pcb'[p] = c /\ \A q \in Pcbs \ {p} : pcb'[q] = pcb[q]
    BY <1>1
  <1>3. c # None
    BY PcbAssumption
  <1> QED
    BY <1>1, <1>2, <1>3 DEF KeepsIds

(***************************************************************************)
(* A connection made where there was none.                                 *)
(***************************************************************************)
LEMMA Make ==
  ASSUME Typed, Unused(pcb) # {}, NEW c \in NewPcb,
         pcb' = [pcb EXCEPT ![Next1(pcb)] = c]
  PROVE  KeepsIds /\ Next1(pcb) \in Pcbs /\ pcb'[Next1(pcb)] = c /\ c # None
  <1>1. pcb \in [Pcbs -> NewPcb \cup {None}]
    BY DEF Typed
  <1>2. Next1(pcb) \in Pcbs /\ pcb[Next1(pcb)] = None
    BY <1>1 DEF Next1, Unused
  <1>3. c # None
    BY PcbAssumption
  <1>4. pcb'[Next1(pcb)] = c /\ \A q \in Pcbs \ {Next1(pcb)} : pcb'[q] = pcb[q]
    BY <1>1, <1>2
  <1> QED
    BY <1>1, <1>2, <1>3, <1>4 DEF KeepsIds

(***************************************************************************)
(* A segment for a connection does not change its id (segment.ml, Rx.input *)
(* and state.ml, tick).                                                    *)
(***************************************************************************)
LEMMA RxInputKeeps ==
  ASSUME Typed, NEW p \in Pcbs, pcb[p] # None, RxInput(p)
  PROVE  KeepsIds
  <1>1. CASE UNCHANGED pcb
    BY <1>1 DEF KeepsIds, Typed
  <1>2. ASSUME NEW a \in Acks, NEW all \in BOOLEAN,
               pcb' = [pcb EXCEPT ![p] = Acked(TickAck(pcb[p], a), all)]
        PROVE  KeepsIds
    <2> DEFINE c == TickAck(pcb[p], a)
    <2>1. pcb[p] \in NewPcb
      BY DEF Typed
    <2>2. c \in NewPcb /\ c.id = pcb[p].id
      BY <2>1, SetState DEF TickAck
    <2>3. Acked(c, all) \in NewPcb /\ Acked(c, all).id = c.id
      <3> HIDE DEF c
      <3> QED
        BY <2>2, SetInflight DEF Acked
    <2> QED
      BY <1>2, <2>2, <2>3, Replace
  <1> QED
    BY <1>1, <1>2 DEF RxInput

(***************************************************************************)
(* With the ids kept, what the tables hold may go but not come.            *)
(***************************************************************************)
LEMMA Shrink ==
  ASSUME Inv, KeepsIds, UNCHANGED listeners,
         channels' \in [Ids -> Rows], listens' \in [Ids -> HalfOpen \cup {None}],
         \A id \in Ids : channels'[id] = channels[id] \/ channels'[id] = << >>,
         \A id \in Ids : listens'[id] = listens[id] \/ listens'[id] = None
  PROVE  Inv'
  <1>1. Typed'
    BY DEF Inv, Typed, KeepsIds
  <1>2. ChannelIds'
    BY Row DEF Inv, ChannelIds, KeepsIds
  <1>3. HandshakeIds'
    BY DEF Inv, Typed, HandshakeIds, KeepsIds, HalfOpen
  <1> QED
    BY <1>1, <1>2, <1>3 DEF Inv

LEMMA Same ==
  ASSUME Inv, KeepsIds, UNCHANGED <<channels, listens, listeners>>
  PROVE  Inv'
  BY Shrink DEF Inv, Typed

LEMMA SameAll ==
  ASSUME Inv, UNCHANGED <<channels, listens, pcb>>,
         listeners' \in [Ports -> Streams \cup {None}]
  PROVE  Inv'
  BY DEF Inv, Typed, ChannelIds, HandshakeIds

(***************************************************************************)
(* The row of one id filled with a connection of that id.                  *)
(***************************************************************************)
LEMMA Fill ==
  ASSUME Inv, KeepsIds, UNCHANGED listeners, NEW id \in Ids, NEW p \in Pcbs,
         pcb'[p] # None, pcb'[p].id = id, NoPcb(id),
         channels' = [channels EXCEPT ![id] = <<p>> \o @],
         listens' \in [Ids -> HalfOpen \cup {None}],
         \A i \in Ids : listens'[i] = listens[i] \/ listens'[i] = None
  PROVE  Inv'
  <1>1. channels \in [Ids -> Rows]
    BY DEF Inv, Typed
  <1>2. channels' = [channels EXCEPT ![id] = <<p>>]
    BY <1>1, Row DEF NoPcb
  <1>3. channels' \in [Ids -> Rows]
    <2>1. <<p>> \in Rows
      BY DEF Rows
    <2> QED
      BY <1>1, <1>2, <2>1
  <1>4. Typed'
    BY <1>3 DEF Inv, Typed, KeepsIds
  <1>5. ChannelIds'
    <2> SUFFICES ASSUME NEW i \in Ids, NEW q \in Pcbs, channels'[i] = <<q>>
                 PROVE  pcb'[q] # None /\ pcb'[q].id = i
      BY DEF ChannelIds
    <2>1. CASE i = id
      <3>1. q = p
        <4>1. channels'[id] = <<p>>
          BY <1>1, <1>2
        <4>2. <<q>> = <<p>>
          BY <2>1, <4>1
        <4> QED
          BY <4>2, RowsEqual
      <3> QED
        BY <2>1, <3>1
    <2>2. CASE i # id
      <3>1. channels[i] = <<q>>
        BY <1>1, <1>2, <2>2
      <3> QED
        BY <3>1 DEF Inv, ChannelIds, KeepsIds
    <2> QED
      BY <2>1, <2>2
  <1>6. HandshakeIds'
    BY DEF Inv, Typed, HandshakeIds, KeepsIds, HalfOpen
  <1> QED
    BY <1>4, <1>5, <1>6 DEF Inv

-----------------------------------------------------------------------------
LEMMA InitInv == Init => Inv
  BY Row DEF Init, Inv, Typed, Rows, ChannelIds, HandshakeIds

(***************************************************************************)
(* SYN-ACK: new_client_connection.                                         *)
(***************************************************************************)
LEMMA SynAckInv ==
  ASSUME Inv, NEW id \in Ids, NEW a \in ClientIsns, SynAck(id, a)
  PROVE  Inv'
  <1> DEFINE p == Next1(pcb)
             c == [id |-> id, isn |-> a, inflight |-> FALSE, owned |-> FALSE,
                   state |-> "Established"]
  <1>1. /\ NoPcb(id) /\ Unused(pcb) # {}
        /\ pcb' = [pcb EXCEPT ![p] = c]
        /\ channels' = [channels EXCEPT ![id] = <<p>> \o @]
        /\ UNCHANGED <<listens, listeners>>
    BY DEF SynAck
  <1>2. c \in NewPcb /\ c.id = id
    BY DEF NewPcb, Isns
  <1>3. KeepsIds /\ p \in Pcbs /\ pcb'[p] = c /\ c # None
    <2> HIDE DEF c
    <2> QED
      BY <1>1, <1>2, Make DEF Inv
  <1> HIDE DEF c, p
  <1>4. listens' \in [Ids -> HalfOpen \cup {None}]
    BY <1>1 DEF Inv, Typed
  <1> QED
    BY <1>1, <1>2, <1>3, <1>4, Fill

(***************************************************************************)
(* SYN: new_server_connection.                                             *)
(***************************************************************************)
LEMMA SynInv ==
  ASSUME Inv, NEW id \in Ids, NEW isn \in ServerIsns, Syn(id, isn)
  PROVE  Inv'
  <1> DEFINE p == Next1(pcb)
             c == [id |-> id, isn |-> isn, inflight |-> TRUE, owned |-> FALSE,
                   state |-> "Syn_rcvd"]
             h == [isn |-> isn, stream |-> listeners[Port(id)], pcb |-> p]
  <1>1. /\ Unused(pcb) # {} /\ listeners[Port(id)] # None
        /\ pcb' = [pcb EXCEPT ![p] = c]
        /\ listens' = [listens EXCEPT ![id] = h]
        /\ UNCHANGED <<channels, listeners>>
    BY DEF Syn
  <1>2. c \in NewPcb /\ c.id = id
    BY DEF NewPcb, Isns
  <1>3. KeepsIds /\ p \in Pcbs /\ pcb'[p] = c /\ c # None
    <2> HIDE DEF c
    <2> QED
      BY <1>1, <1>2, Make DEF Inv
  <1>4. h \in HalfOpen /\ h.pcb = p
    <2>1. Port(id) \in Ports
      BY DEF Ids, Port
    <2>2. listeners[Port(id)] \in Streams
      BY <1>1, <2>1 DEF Inv, Typed
    <2> HIDE DEF p
    <2> QED
      BY <1>3, <2>2 DEF HalfOpen
  <1> HIDE DEF c, h, p
  <1>5. Typed'
    BY <1>1, <1>3, <1>4 DEF Inv, Typed, KeepsIds
  <1>6. ChannelIds'
    BY <1>1, <1>3 DEF Inv, ChannelIds, KeepsIds
  <1>7. HandshakeIds'
    <2> SUFFICES ASSUME NEW i \in Ids, listens'[i] # None
                 PROVE  pcb'[listens'[i].pcb] # None /\ pcb'[listens'[i].pcb].id = i
      BY DEF HandshakeIds
    <2>1. CASE i = id
      <3>1. listens'[i] = h
        BY <1>1, <2>1 DEF Inv, Typed
      <3> QED
        BY <1>2, <1>3, <1>4, <2>1, <3>1
    <2>2. CASE i # id
      <3>1. listens'[i] = listens[i] /\ listens[i] \in HalfOpen
        BY <1>1, <2>2 DEF Inv, Typed
      <3> QED
        BY <1>3, <3>1 DEF Inv, HandshakeIds, KeepsIds, HalfOpen
    <2> QED
      BY <2>1, <2>2
  <1> QED
    BY <1>5, <1>6, <1>7 DEF Inv

(***************************************************************************)
(* The ACK that ends a handshake moves its connection to the active table. *)
(***************************************************************************)
LEMMA AckInv ==
  ASSUME Inv, NEW id \in Ids, NEW a \in ServerIsns, Ack(id, a)
  PROVE  Inv'
  <1> DEFINE p == listens[id].pcb
  <1>1. /\ NoPcb(id) /\ listens[id] # None
        /\ channels' = [channels EXCEPT ![id] = <<p>> \o @]
        /\ listens' = [listens EXCEPT ![id] = None]
        /\ UNCHANGED listeners
        /\ RxInput(p) \/ UNCHANGED pcb
    BY DEF Ack
  <1>2. p \in Pcbs /\ pcb[p] # None /\ pcb[p].id = id
    BY <1>1 DEF Inv, Typed, HandshakeIds, HalfOpen
  <1> HIDE DEF p
  <1>3. KeepsIds
    <2>1. CASE UNCHANGED pcb
      BY <2>1 DEF KeepsIds, Inv, Typed
    <2> QED
      BY <1>1, <1>2, <2>1, RxInputKeeps DEF Inv
  <1>4. pcb'[p] # None /\ pcb'[p].id = id
    BY <1>2, <1>3 DEF KeepsIds
  <1>5. /\ listens' \in [Ids -> HalfOpen \cup {None}]
        /\ \A i \in Ids : listens'[i] = listens[i] \/ listens'[i] = None
    BY <1>1 DEF Inv, Typed
  <1> QED
    BY <1>1, <1>2, <1>3, <1>4, <1>5, Fill

(***************************************************************************)
(* The retransmission timer gives up: clearpcb empties a row of one table. *)
(***************************************************************************)
LEMMA TimeoutInv ==
  ASSUME Inv, NEW p \in Pcbs, Timeout(p)
  PROVE  Inv'
  <1> DEFINE id == pcb[p].id
  <1>1. /\ pcb[p] # None /\ pcb' = [pcb EXCEPT ![p].state = "Closed"]
        /\ ClearPcb(id, pcb[p].isn)
        /\ UNCHANGED listeners
    BY DEF Timeout
  <1>2. pcb[p] \in NewPcb /\ id \in Ids
    BY <1>1 DEF Inv, Typed, NewPcb
  <1>3. KeepsIds
    <2>1. [pcb[p] EXCEPT !.state = "Closed"] \in NewPcb
          /\ [pcb[p] EXCEPT !.state = "Closed"].id = pcb[p].id
      BY <1>2, SetState
    <2>2. pcb' = [pcb EXCEPT ![p] = [pcb[p] EXCEPT !.state = "Closed"]]
      BY <1>1 DEF Inv, Typed
    <2> QED
      BY <1>1, <2>1, <2>2, Replace DEF Inv
  <1> HIDE DEF id
  <1>4. channels \in [Ids -> Rows] /\ listens \in [Ids -> HalfOpen \cup {None}]
    BY DEF Inv, Typed
  <1>5. CASE channels[id] # << >>
    <2>1. channels' = [channels EXCEPT ![id] = Tail(@)] /\ UNCHANGED listens
      BY <1>1, <1>5 DEF ClearPcb
    <2>2. Tail(channels[id]) = << >>
      BY <1>2, <1>4, <1>5, Row DEF Rows
    <2>3. channels' \in [Ids -> Rows]
          /\ \A i \in Ids : channels'[i] = channels[i] \/ channels'[i] = << >>
      <3>1. << >> \in Rows
        BY DEF Rows
      <3> QED
        BY <1>4, <2>1, <2>2, <3>1
    <2> QED
      BY <1>1, <1>3, <1>4, <2>1, <2>3, Shrink
  <1>6. CASE channels[id] = << >>
    <2>1. /\ UNCHANGED channels
          /\ \/ listens' = [listens EXCEPT ![id] = None]
             \/ UNCHANGED listens
      BY <1>1, <1>4, <1>6 DEF ClearPcb
    <2>2. listens' \in [Ids -> HalfOpen \cup {None}]
          /\ \A i \in Ids : listens'[i] = listens[i] \/ listens'[i] = None
      BY <1>4, <2>1
    <2> QED
      BY <1>1, <1>3, <1>4, <2>1, <2>2, Shrink
  <1> QED
    BY <1>5, <1>6

(***************************************************************************)
(* The application makes no connection and changes no id.                  *)
(***************************************************************************)
LEMMA OwnerInv ==
  ASSUME Inv, NEW p \in Pcbs, pcb[p] # None, NEW c \in NewPcb, c.id = pcb[p].id,
         pcb' = [pcb EXCEPT ![p] = c], UNCHANGED <<channels, listens, listeners>>
  PROVE  Inv'
  BY Replace, Same DEF Inv

LEMMA RstListensInv ==
  ASSUME Inv, NEW id \in Ids, RstListens(id)
  PROVE  Inv'
  <1> DEFINE p == listens[id].pcb
  <1>1. /\ listens[id] # None
        /\ listens' = [listens EXCEPT ![id] = None]
        /\ pcb' = [pcb EXCEPT ![p].state = "Closed"]
        /\ UNCHANGED <<channels, listeners>>
    BY DEF RstListens
  <1>2. p \in Pcbs /\ pcb[p] # None /\ pcb[p] \in NewPcb
    BY <1>1 DEF Inv, Typed, HandshakeIds, HalfOpen
  <1> HIDE DEF p
  <1>3. KeepsIds
    <2>1. [pcb[p] EXCEPT !.state = "Closed"] \in NewPcb
          /\ [pcb[p] EXCEPT !.state = "Closed"].id = pcb[p].id
      BY <1>2, SetState
    <2>2. pcb' = [pcb EXCEPT ![p] = [pcb[p] EXCEPT !.state = "Closed"]]
      BY <1>1 DEF Inv, Typed
    <2> QED
      BY <1>2, <2>1, <2>2, Replace DEF Inv
  <1>4. /\ channels' \in [Ids -> Rows]
        /\ listens' \in [Ids -> HalfOpen \cup {None}]
        /\ \A i \in Ids : listens'[i] = listens[i] \/ listens'[i] = None
    BY <1>1 DEF Inv, Typed
  <1> QED
    BY <1>1, <1>3, <1>4, Shrink

LEMMA InputPcbInv ==
  ASSUME Inv, NEW id \in Ids, InputPcb(id)
  PROVE  Inv'
  <1>1. channels[id] \in Rows /\ channels[id] # << >>
    BY DEF InputPcb, Inv, Typed
  <1>2. PICK p \in Pcbs : channels[id] = <<p>>
    BY <1>1 DEF Rows
  <1>3. RxInput(p) /\ UNCHANGED <<channels, listens, listeners>>
    BY <1>2, Row DEF InputPcb, tables
  <1>4. pcb[p] # None
    BY <1>2 DEF Inv, ChannelIds
  <1> QED
    BY <1>3, <1>4, RxInputKeeps, Same DEF Inv

\* The streams are always those of listen.
StreamDomain == DOMAIN stream = Streams

LEMMA StreamInv ==
  ASSUME StreamDomain, [Next]_vars
  PROVE  StreamDomain'
  <1>1. \/ UNCHANGED stream
        \/ \E s, x : stream' = [stream EXCEPT ![s].queue = x]
        \/ \E s : stream' = [stream EXCEPT ![s].open = FALSE]
        \/ DOMAIN stream' = Streams
    <2>1. CASE UNCHANGED vars
      BY <2>1 DEF vars
    <2>2. ASSUME NEW id \in Ids, NEW isn \in ClientIsns, Connect(id, isn) \/ SynAck(id, isn)
          PROVE  UNCHANGED stream
      BY <2>2 DEF Connect, SynAck
    <2>3. ASSUME NEW id \in Ids, NEW isn \in ServerIsns, Syn(id, isn)
          PROVE  UNCHANGED stream
      BY <2>3 DEF Syn
    <2>4. ASSUME NEW id \in Ids, NEW isn \in ServerIsns, Ack(id, isn)
          PROVE  UNCHANGED stream \/ \E s, x : stream' = [stream EXCEPT ![s].queue = x]
      BY <2>4 DEF Ack
    <2>5. ASSUME NEW id \in Ids, InputPcb(id) \/ RstConnects(id) \/ RstListens(id)
          PROVE  UNCHANGED stream
      BY <2>5 DEF InputPcb, RstConnects, RstListens
    <2>6. ASSUME NEW c \in Calls,
                 SynOut(c) \/ ConnectTimer(c) \/ SynResent(c) \/ \E p \in Pcbs : AckOut(c, p)
          PROVE  UNCHANGED stream
      BY <2>6
         DEF SynOut, ConnectTimer, ConnectTimerStale, ConnectTimerGiveUp, ConnectTimerRexmit,
             SynResent, AckOut
    <2>7. ASSUME NEW p \in Pcbs, RecvFin(p) \/ Timeout(p) \/ AppOutput(p)
          PROVE  UNCHANGED stream
      BY <2>7 DEF RecvFin, Timeout, AppOutput
    <2>8. ASSUME NEW s \in Streams, CloseListener(s)
          PROVE  \E r : stream' = [stream EXCEPT ![r].open = FALSE]
      BY <2>8 DEF CloseListener, ClosePort
    <2>9. ASSUME NEW s \in Streams, NEW p \in Pcbs, Accept(s, p)
          PROVE  \E r, x : stream' = [stream EXCEPT ![r].queue = x]
      BY <2>9 DEF Accept
    <2>10. ASSUME NEW port \in ListenPorts, Listen(port)
           PROVE  DOMAIN stream' = Streams
      BY <2>10 DEF Listen
    <2> QED
      BY <2>1, <2>2, <2>3, <2>4, <2>5, <2>6, <2>7, <2>8, <2>9, <2>10 DEF Next
  <1> QED
    BY <1>1 DEF StreamDomain

-----------------------------------------------------------------------------
LEMMA NextInv == Inv /\ StreamDomain /\ [Next]_vars => Inv'
  <1> SUFFICES ASSUME Inv, StreamDomain, [Next]_vars PROVE Inv'
    OBVIOUS
  <1>1. CASE UNCHANGED vars
    BY <1>1, SameAll DEF vars, tables, Inv, Typed
  <1>2. ASSUME NEW id \in Ids, NEW isn \in ClientIsns, Connect(id, isn) PROVE Inv'
    BY <1>2, SameAll DEF Connect, Inv, Typed
  <1>3. ASSUME NEW id \in Ids, NEW isn \in ClientIsns, SynAck(id, isn) PROVE Inv'
    BY <1>3, SynAckInv
  <1>4. ASSUME NEW id \in Ids, NEW isn \in ServerIsns, Syn(id, isn) PROVE Inv'
    BY <1>4, SynInv
  <1>5. ASSUME NEW id \in Ids, NEW isn \in ServerIsns, Ack(id, isn) PROVE Inv'
    BY <1>5, AckInv
  <1>6. ASSUME NEW id \in Ids, InputPcb(id) PROVE Inv'
    BY <1>6, InputPcbInv
  <1>7. ASSUME NEW id \in Ids, RstConnects(id) PROVE Inv'
    BY <1>7, SameAll DEF RstConnects, Inv, Typed
  <1>8. ASSUME NEW id \in Ids, RstListens(id) PROVE Inv'
    BY <1>8, RstListensInv
  <1>9. ASSUME NEW c \in Calls, SynOut(c) \/ ConnectTimer(c) \/ SynResent(c) PROVE Inv'
    <2>1. UNCHANGED <<channels, listens, listeners, pcb>>
      BY <1>9
         DEF SynOut, ConnectTimer, ConnectTimerStale, ConnectTimerGiveUp, ConnectTimerRexmit,
             SynResent, tables
    <2> QED
      BY <2>1, SameAll DEF Inv, Typed
  <1>10. ASSUME NEW p \in Pcbs, RecvFin(p) PROVE Inv'
    <2> DEFINE c == [pcb[p] EXCEPT !.state = "Close_wait"]
    <2>1. pcb[p] # None /\ pcb[p] \in NewPcb
      BY <1>10 DEF RecvFin, Inv, Typed
    <2>2. c \in NewPcb /\ c.id = pcb[p].id
      BY <2>1, SetState
    <2>3. pcb' = [pcb EXCEPT ![p] = c] /\ UNCHANGED <<channels, listens, listeners>>
      BY <1>10 DEF RecvFin, tables
    <2> QED
      BY <2>1, <2>2, <2>3, OwnerInv
  <1>11. ASSUME NEW p \in Pcbs, Timeout(p) PROVE Inv'
    BY <1>11, TimeoutInv
  <1>12. ASSUME NEW p \in Pcbs, AppOutput(p) PROVE Inv'
    <2> DEFINE c == [pcb[p] EXCEPT !.inflight = TRUE]
    <2>1. pcb[p] # None /\ pcb[p] \in NewPcb
      BY <1>12 DEF AppOutput, Inv, Typed
    <2>2. c \in NewPcb /\ c.id = pcb[p].id
      BY <2>1, SetInflight
    <2>3. pcb' = [pcb EXCEPT ![p] = c] /\ UNCHANGED <<channels, listens, listeners>>
      BY <1>12 DEF AppOutput, tables
    <2> QED
      BY <2>1, <2>2, <2>3, OwnerInv
  <1>13. ASSUME NEW s \in Streams, CloseListener(s) PROVE Inv'
    BY <1>13, SameAll DEF CloseListener, Inv, Typed
  <1>14. ASSUME NEW s \in Streams, NEW p \in Pcbs, Accept(s, p) PROVE Inv'
    <2> DEFINE c == [pcb[p] EXCEPT !.owned = TRUE]
    <2>1. CASE pcb[p] # None
      <3>1. pcb[p] \in NewPcb
        BY <2>1 DEF Inv, Typed
      <3>2. c \in NewPcb /\ c.id = pcb[p].id
        BY <3>1, SetOwned
      <3>3. pcb' = [pcb EXCEPT ![p] = c] /\ UNCHANGED <<channels, listens, listeners>>
        BY <1>14 DEF Accept, tables
      <3> QED
        BY <2>1, <3>2, <3>3, OwnerInv
    <2> QED
      BY <1>14, <2>1 DEF Accept
  <1>15. ASSUME NEW port \in ListenPorts, Listen(port) PROVE Inv'
    <2>1. Next1(stream) \in Streams
      BY <1>15 DEF Listen, Next1, Unused, StreamDomain
    <2>2. /\ listeners' = [listeners EXCEPT ![port] = Next1(stream)]
          /\ UNCHANGED <<channels, listens, pcb>>
      BY <1>15 DEF Listen
    <2> QED
      BY <2>1, <2>2, SameAll DEF Inv, Typed
  <1>16. ASSUME NEW k \in Calls, NEW p \in Pcbs, AckOut(k, p) PROVE Inv'
    <2> DEFINE c == [pcb[p] EXCEPT !.owned = TRUE]
    <2>1. pcb[p] # None /\ pcb[p] \in NewPcb
      BY <1>16 DEF AckOut, Inv, Typed
    <2>2. c \in NewPcb /\ c.id = pcb[p].id
      BY <2>1, SetOwned
    <2>3. pcb' = [pcb EXCEPT ![p] = c] /\ UNCHANGED <<channels, listens, listeners>>
      BY <1>16 DEF AckOut, tables
    <2> QED
      BY <2>1, <2>2, <2>3, OwnerInv
  <1> QED
    BY <1>1, <1>2, <1>3, <1>4, <1>5, <1>6, <1>7, <1>8, <1>9, <1>10, <1>11, <1>12, <1>13,
       <1>14, <1>15, <1>16 DEF Next

(***************************************************************************)
(* A connection id names one connection in the active table: input finds   *)
(* that or none (pcb.ml, input, input_no_pcb and clearpcb).                *)
(***************************************************************************)
THEOREM SpecOneChannelPerId == Spec => []OneChannelPerId
  <1>1. Init => StreamDomain
    BY DEF Init, StreamDomain
  <1>2. Inv /\ StreamDomain /\ [Next]_vars => (Inv /\ StreamDomain)'
    BY NextInv, StreamInv
  <1>3. Inv => OneChannelPerId
    BY DEF Inv, Typed, Rows, ChannelIds, OneChannelPerId
  <1> QED
    BY InitInv, <1>1, <1>2, <1>3, PTL DEF Spec

-----------------------------------------------------------------------------
(* The hand-over. From its first segment to the application, a connection  *)
(* is in the hands of somebody who goes on with it: the parts of           *)
(* HandoverIsSound, for any number of connections, calls of connect and    *)
(* listeners.                                                              *)

(* The callers of connect *)

\* A timer runs for a call that was made, and counts no further than it may.
TimersAreCalls ==
  \A c \in Calls :
    /\ timer[c] # None => call[c] # None
    /\ call[c] # None /\ call[c].sending => timer[c] \in 0 .. MaxSynRexmits

\* The handler of a SYN-ACK has made a connection.
AckedHaveConn ==
  \A c \in Calls : call[c] # None /\ call[c].res = "acked" => call[c].conn \in Pcbs

CallInv ==
  /\ connects \in [Ids -> Connecting \cup {None}]
  /\ call \in [Calls -> NewCall \cup {None}]
  /\ timer \in [Calls -> 0 .. MaxSynRexmits + 1 \cup {None}]
  /\ PendingAreRegistered
  /\ TimersAreCalls
  /\ AckedHaveConn

\* One call changes, but not in its id, its result and its connection.
Alike(k, m) == m \in NewCall /\ m.id = k.id /\ m.res = k.res /\ m.conn = k.conn

LEMMA SetPc ==
  ASSUME NEW k \in NewCall
  PROVE  Alike(k, [k EXCEPT !.pc = "wait"]) /\ [k EXCEPT !.pc = "wait"].sending = k.sending
  BY DEF NewCall, Alike

LEMMA SetSending ==
  ASSUME NEW k \in NewCall, NEW b \in BOOLEAN
  PROVE  Alike(k, [k EXCEPT !.sending = b]) /\ [k EXCEPT !.sending = b].sending = b
  BY DEF NewCall, Alike

(***************************************************************************)
(* An entry of connects is removed when its caller fails, or when its      *)
(* SYN-ACK is answered, so that nobody is woken twice (pcb.ml:312, 340,    *)
(* 489).                                                                   *)
(***************************************************************************)
LEMMA ResolveInv ==
  ASSUME CallInv, NEW id \in Ids, connects[id] # None,
         NEW res \in {"failed", "acked"}, NEW p \in Pcbs \cup {None},
         res = "acked" => p \in Pcbs, Resolve(id, res, p),
         NEW d, timer' = timer \/ (~call[d].sending /\ timer' = [timer EXCEPT ![d] = None])
  PROVE  CallInv'
  <1> DEFINE c == connects[id].call
             k == [call[c] EXCEPT !.res = res, !.conn = p]
  <1>1. c \in Calls
    BY DEF CallInv, Connecting
  <1>2. call[c] # None /\ call[c].id = id
    BY <1>1 DEF CallInv, PendingAreRegistered
  <1>3. call[c] \in NewCall
    BY <1>1, <1>2 DEF CallInv
  <1>4. /\ k \in NewCall /\ k.id = id /\ k.res = res /\ k # None
        /\ k.conn = p /\ k.sending = call[c].sending
    <2>1. k \in NewCall /\ k.id = call[c].id /\ k.res = res /\ k.conn = p /\ k.sending = call[c].sending
      <3>1. PICK m \in NewCall : m = call[c]
        BY <1>3
      <3> HIDE DEF c
      <3>2. res \in {"pending", "acked", "failed", "connected"}
        OBVIOUS
      <3>3. /\ [m EXCEPT !.res = res, !.conn = p] \in NewCall
            /\ [m EXCEPT !.res = res, !.conn = p].id = m.id
            /\ [m EXCEPT !.res = res, !.conn = p].res = res
            /\ [m EXCEPT !.res = res, !.conn = p].conn = p
            /\ [m EXCEPT !.res = res, !.conn = p].sending = m.sending
        BY <3>2 DEF NewCall
      <3>4. k = [m EXCEPT !.res = res, !.conn = p]
        BY <3>1
      <3> QED
        BY <3>1, <3>3, <3>4
    <2> HIDE DEF k
    <2> QED
      BY <1>2, <2>1, PcbAssumption
  <1>5. /\ connects' = [connects EXCEPT ![id] = None]
        /\ call' = [call EXCEPT ![c] = k]
    BY <1>1 DEF Resolve, CallInv
  <1> HIDE DEF c, k
  <1>6. /\ connects' \in [Ids -> Connecting \cup {None}]
        /\ call' \in [Calls -> NewCall \cup {None}]
    BY <1>1, <1>4, <1>5 DEF CallInv
  <1>7. timer' \in [Calls -> 0 .. MaxSynRexmits + 1 \cup {None}]
    BY DEF CallInv
  <1>8. TimersAreCalls' /\ AckedHaveConn'
    BY <1>1, <1>2, <1>4, <1>5 DEF CallInv, TimersAreCalls, AckedHaveConn
  <1>9. PendingAreRegistered'
    <2> SUFFICES ASSUME NEW e \in Calls, NEW i \in Ids
                 PROVE  (call'[e] # None /\ call'[e].id = i /\ call'[e].res = "pending")
                          <=> (connects'[i] # None /\ connects'[i].call = e)
      BY DEF PendingAreRegistered
    <2>1. CASE i = id
      <3>1. connects'[i] = None
        BY <2>1, <1>5 DEF CallInv
      <3>2. CASE e = c
        BY <3>1, <3>2, <1>1, <1>4, <1>5 DEF CallInv
      <3>3. CASE e # c
        <4>1. call'[e] = call[e]
          BY <3>3, <1>1, <1>5 DEF CallInv
        <4> QED
          BY <2>1, <3>1, <3>3, <4>1 DEF CallInv, PendingAreRegistered, c
      <3> QED
        BY <3>2, <3>3
    <2>2. CASE i # id
      <3>1. connects'[i] = connects[i]
        BY <2>2, <1>5 DEF CallInv
      <3>2. CASE e = c
        <4>1. call'[e] = k
          BY <3>2, <1>1, <1>5 DEF CallInv
        <4>2. ~(connects[i] # None /\ connects[i].call = e)
          BY <2>2, <3>2, <1>1, <1>2 DEF CallInv, PendingAreRegistered
        <4> QED
          BY <2>2, <3>1, <4>1, <4>2, <1>4
      <3>3. CASE e # c
        <4>1. call'[e] = call[e]
          BY <3>3, <1>1, <1>5 DEF CallInv
        <4> QED
          BY <3>1, <4>1 DEF CallInv, PendingAreRegistered
      <3> QED
        BY <3>2, <3>3
    <2> QED
      BY <2>1, <2>2
  <1> QED
    BY <1>6, <1>7, <1>8, <1>9 DEF CallInv

(***************************************************************************)
(* connect takes an id that no call has, and a call that has none.         *)
(***************************************************************************)
LEMMA ConnectInv ==
  ASSUME CallInv, NEW id \in Ids, NEW isn \in ClientIsns, Connect(id, isn)
  PROVE  CallInv'
  <1> DEFINE c == Next1(call)
             k == [id |-> id, isn |-> isn, pc |-> "output", sending |-> FALSE,
                   res |-> "pending", conn |-> None]
             e == [call |-> c, isn |-> isn]
  <1>1. /\ Unused(call) # {} /\ connects[id] = None
        /\ call' = [call EXCEPT ![c] = k]
        /\ connects' = [connects EXCEPT ![id] = e]
        /\ timer' = timer
    BY DEF Connect, InUse
  <1>2. c \in Calls /\ call[c] = None
    BY <1>1 DEF CallInv, Next1, Unused
  <1>3. k \in NewCall /\ k.id = id /\ k.res = "pending" /\ k # None /\ ~k.sending
    <2>1. k \in NewCall
      BY DEF NewCall
    <2> QED
      BY <2>1, PcbAssumption
  <1> HIDE DEF c, k
  <1>4. e \in Connecting /\ e.call = c /\ e # None
    <2>1. e \in Connecting
      BY <1>2 DEF Connecting
    <2> QED
      BY <2>1, PcbAssumption
  <1> HIDE DEF e
  <1>5. /\ connects' \in [Ids -> Connecting \cup {None}]
        /\ call' \in [Calls -> NewCall \cup {None}]
    BY <1>1, <1>2, <1>3, <1>4 DEF CallInv
  <1>6. TimersAreCalls' /\ AckedHaveConn'
    BY <1>1, <1>2, <1>3 DEF CallInv, TimersAreCalls, AckedHaveConn
  <1>7. PendingAreRegistered'
    <2> SUFFICES ASSUME NEW d \in Calls, NEW i \in Ids
                 PROVE  (call'[d] # None /\ call'[d].id = i /\ call'[d].res = "pending")
                          <=> (connects'[i] # None /\ connects'[i].call = d)
      BY DEF PendingAreRegistered
    <2>1. call'[d] = (IF d = c THEN k ELSE call[d]) /\ connects'[i] = (IF i = id THEN e ELSE connects[i])
      BY <1>1, <1>2 DEF CallInv
    <2>2. (call[d] # None /\ call[d].id = i /\ call[d].res = "pending")
            <=> (connects[i] # None /\ connects[i].call = d)
      BY DEF CallInv, PendingAreRegistered
    <2> QED
      BY <2>1, <2>2, <1>1, <1>2, <1>3, <1>4
  <1> QED
    BY <1>1, <1>5, <1>6, <1>7 DEF CallInv

(***************************************************************************)
(* A call changes without a change of its result: the tables agree.        *)
(***************************************************************************)
LEMMA AlikeInv ==
  ASSUME CallInv, NEW c \in Calls, call[c] # None, NEW k, Alike(call[c], k),
         call' = [call EXCEPT ![c] = k], connects' = connects
  PROVE  call' \in [Calls -> NewCall \cup {None}] /\ PendingAreRegistered' /\ AckedHaveConn'
  <1>1. k \in NewCall /\ k # None /\ k.id = call[c].id /\ k.res = call[c].res /\ k.conn = call[c].conn
    BY PcbAssumption DEF Alike
  <1>2. \A d \in Calls : call'[d] = IF d = c THEN k ELSE call[d]
    BY DEF CallInv
  <1> QED
    BY <1>1, <1>2 DEF CallInv, PendingAreRegistered, AckedHaveConn

(***************************************************************************)
(* The steps of the timer of a connect (pcb.ml:484-500).                   *)
(***************************************************************************)
LEMMA ConnectTimerInv ==
  ASSUME CallInv, NEW c \in Calls, ConnectTimer(c)
  PROVE  CallInv'
  <1>0. call \in [Calls -> NewCall \cup {None}] /\ timer \in [Calls -> 0 .. MaxSynRexmits + 1 \cup {None}]
    BY DEF CallInv
  <1>1. CASE ConnectTimerStale(c)
    <2>1. /\ ~call[c].sending /\ timer' = [timer EXCEPT ![c] = None]
          /\ UNCHANGED <<connects, call>>
      BY <1>1 DEF ConnectTimerStale, Sleeping, tables
    <2>2. TimersAreCalls'
      BY <1>0, <2>1 DEF CallInv, TimersAreCalls
    <2> QED
      BY <1>0, <2>1, <2>2 DEF CallInv, PendingAreRegistered, AckedHaveConn
  <1>2. CASE ConnectTimerRexmit(c)
    <2> DEFINE k == [call[c] EXCEPT !.sending = TRUE]
    <2>1. /\ timer[c] # None /\ timer[c] <= MaxSynRexmits /\ call[c] # None
          /\ call' = [call EXCEPT ![c] = k]
          /\ UNCHANGED <<connects, timer>>
      BY <1>0, <1>2 DEF ConnectTimerRexmit, Sleeping, tables, CallInv, TimersAreCalls
    <2>2. call[c] \in NewCall
      BY <1>0, <2>1
    <2>3. Alike(call[c], k)
      BY <2>2, SetSending
    <2> HIDE DEF k
    <2>4. call' \in [Calls -> NewCall \cup {None}] /\ PendingAreRegistered' /\ AckedHaveConn'
      BY <2>1, <2>3, AlikeInv
    <2>5. timer[c] \in 0 .. MaxSynRexmits
      BY <1>0, <2>1, PcbAssumption
    <2>6. TimersAreCalls'
      <3>1. \A d \in Calls : d # c => call'[d] = call[d]
        BY <1>0, <2>1
      <3>2. call'[c] # None
        BY <1>0, <2>1, <2>3, PcbAssumption DEF Alike
      <3> QED
        BY <2>1, <2>5, <3>1, <3>2 DEF CallInv, TimersAreCalls
    <2> QED
      BY <1>0, <2>1, <2>4, <2>6 DEF CallInv
  <1>3. CASE ConnectTimerGiveUp(c)
    <2>1. /\ timer[c] # None /\ connects[call[c].id] # None /\ ~call[c].sending
          /\ Resolve(call[c].id, "failed", None) /\ timer' = [timer EXCEPT ![c] = None]
      BY <1>3 DEF ConnectTimerGiveUp, StillConnecting, Sleeping
    <2>2. call[c].id \in Ids
      BY <2>1 DEF CallInv, TimersAreCalls, NewCall
    <2> QED
      BY <2>1, <2>2, ResolveInv
  <1> QED
    BY <1>1, <1>2, <1>3 DEF ConnectTimer

(***************************************************************************)
(* An output of connect is done: of its SYN, or of its SYN once more       *)
(* (pcb.ml:492, 513).                                                      *)
(***************************************************************************)
LEMMA OutputInv ==
  ASSUME CallInv, NEW c \in Calls, SynOut(c) \/ SynResent(c)
  PROVE  CallInv'
  <1>0. call \in [Calls -> NewCall \cup {None}] /\ timer \in [Calls -> 0 .. MaxSynRexmits + 1 \cup {None}]
    BY DEF CallInv
  <1>1. PICK k \in NewCall, n \in 0 .. MaxSynRexmits + 1 :
          /\ Alike(call[c], k) /\ (k.sending => n \in 0 .. MaxSynRexmits)
          /\ call' = [call EXCEPT ![c] = k]
          /\ timer' = [timer EXCEPT ![c] = n]
    <2>1. call[c] # None /\ call[c] \in NewCall
      BY <1>0 DEF SynOut, SynResent
    <2>2. CASE SynOut(c)
      <3> DEFINE k == [call[c] EXCEPT !.pc = "wait"]
      <3>1. call' = [call EXCEPT ![c] = k] /\ timer' = [timer EXCEPT ![c] = 0]
        BY <2>2 DEF SynOut
      <3>2. Alike(call[c], k)
        BY <2>1, SetPc
      <3>3. 0 \in 0 .. MaxSynRexmits /\ 0 \in 0 .. MaxSynRexmits + 1
        BY PcbAssumption
      <3> HIDE DEF k
      <3>4. k \in NewCall
        BY <3>2 DEF Alike
      <3> QED
        BY <3>1, <3>2, <3>3, <3>4
    <2>3. CASE SynResent(c)
      <3> DEFINE k == [call[c] EXCEPT !.sending = FALSE]
      <3>1. call' = [call EXCEPT ![c] = k] /\ timer' = [timer EXCEPT ![c] = timer[c] + 1]
        BY <1>0, <2>3 DEF SynResent
      <3>2. Alike(call[c], k) /\ k.sending = FALSE
        BY <2>1, SetSending
      <3>3. timer[c] + 1 \in 0 .. MaxSynRexmits + 1
        BY <2>1, <2>3, PcbAssumption DEF SynResent, CallInv, TimersAreCalls
      <3> HIDE DEF k
      <3>4. k \in NewCall
        BY <3>2 DEF Alike
      <3> QED
        BY <3>1, <3>2, <3>3, <3>4
    <2> QED
      BY <2>2, <2>3
  <1>2. call[c] # None /\ connects' = connects
    BY DEF SynOut, SynResent, tables
  <1>3. call' \in [Calls -> NewCall \cup {None}] /\ PendingAreRegistered' /\ AckedHaveConn'
    BY <1>1, <1>2, AlikeInv
  <1>4. /\ \A d \in Calls : d # c => call'[d] = call[d] /\ timer'[d] = timer[d]
        /\ call'[c] = k /\ timer'[c] = n
    BY <1>0, <1>1
  <1>5. k # None
    BY PcbAssumption
  <1>6. TimersAreCalls'
    <2> SUFFICES ASSUME NEW d \in Calls
                 PROVE  /\ timer'[d] # None => call'[d] # None
                        /\ call'[d] # None /\ call'[d].sending => timer'[d] \in 0 .. MaxSynRexmits
      BY DEF TimersAreCalls
    <2>1. CASE d = c
      BY <2>1, <1>1, <1>4, <1>5
    <2>2. CASE d # c
      BY <2>2, <1>4 DEF CallInv, TimersAreCalls
    <2> QED
      BY <2>1, <2>2
  <1>7. timer' \in [Calls -> 0 .. MaxSynRexmits + 1 \cup {None}]
    BY <1>0, <1>1
  <1> QED
    BY <1>2, <1>3, <1>6, <1>7 DEF CallInv

(***************************************************************************)
(* The handler of the SYN-ACK wakes the caller (pcb.ml:347).               *)
(***************************************************************************)
LEMMA AckOutInv ==
  ASSUME CallInv, NEW c \in Calls, NEW p \in Pcbs, AckOut(c, p)
  PROVE  CallInv'
  <1> DEFINE k == [call[c] EXCEPT !.res = "connected", !.conn = None]
  <1>1. /\ call[c] # None /\ call[c].res = "acked"
        /\ call' = [call EXCEPT ![c] = k] /\ timer' = timer /\ connects' = connects
    BY DEF AckOut, Handed, tables
  <1>2. call[c] \in NewCall
    BY <1>1 DEF CallInv
  <1>3. k \in NewCall /\ k.id = call[c].id /\ k.res = "connected" /\ k.sending = call[c].sending
    BY <1>2 DEF NewCall
  <1> HIDE DEF k
  <1>4. k # None
    BY <1>3, PcbAssumption
  <1>5. \A d \in Calls : call'[d] = IF d = c THEN k ELSE call[d]
    BY <1>1 DEF CallInv
  <1>6. call' \in [Calls -> NewCall \cup {None}]
    BY <1>1, <1>3 DEF CallInv
  <1>7. TimersAreCalls' /\ AckedHaveConn'
    BY <1>1, <1>3, <1>4, <1>5 DEF CallInv, TimersAreCalls, AckedHaveConn
  <1>8. PendingAreRegistered'
    BY <1>1, <1>3, <1>4, <1>5 DEF CallInv, PendingAreRegistered
  <1> QED
    BY <1>1, <1>6, <1>7, <1>8 DEF CallInv

LEMMA CallStep ==
  ASSUME Inv, CallInv, [Next]_vars
  PROVE  CallInv'
  <1>1. CASE UNCHANGED <<connects, call, timer>>
    BY <1>1 DEF CallInv, PendingAreRegistered, TimersAreCalls, AckedHaveConn
  <1>2. ASSUME NEW id \in Ids, NEW isn \in ClientIsns, Connect(id, isn) PROVE CallInv'
    BY <1>2, ConnectInv
  <1>3. ASSUME NEW id \in Ids, NEW isn \in ClientIsns, SynAck(id, isn) PROVE CallInv'
    <2>1. connects[id] # None /\ Resolve(id, "acked", Next1(pcb)) /\ timer' = timer
      BY <1>3 DEF SynAck
    <2>2. Next1(pcb) \in Pcbs
      BY <1>3 DEF SynAck, Next1, Unused, Inv, Typed
    <2> QED
      BY <2>1, <2>2, ResolveInv
  <1>4. ASSUME NEW id \in Ids, RstConnects(id) PROVE CallInv'
    <2>1. connects[id] # None /\ Resolve(id, "failed", None) /\ timer' = timer
      BY <1>4 DEF RstConnects
    <2> QED
      BY <2>1, ResolveInv
  <1>5. ASSUME NEW c \in Calls,
               SynOut(c) \/ ConnectTimer(c) \/ SynResent(c) \/ \E p \in Pcbs : AckOut(c, p)
        PROVE  CallInv'
    BY <1>5, OutputInv, ConnectTimerInv, AckOutInv
  <1>6. ASSUME NEW id \in Ids, NEW isn \in ServerIsns, Syn(id, isn) \/ Ack(id, isn)
        PROVE  UNCHANGED <<connects, call, timer>>
    BY <1>6 DEF Syn, Ack
  <1>7. ASSUME NEW id \in Ids, InputPcb(id) \/ RstListens(id)
        PROVE  UNCHANGED <<connects, call, timer>>
    BY <1>7 DEF InputPcb, RstListens, tables
  <1>8. ASSUME NEW p \in Pcbs, RecvFin(p) \/ Timeout(p) \/ AppOutput(p)
        PROVE  UNCHANGED <<connects, call, timer>>
    BY <1>8 DEF RecvFin, Timeout, AppOutput, tables
  <1>9. ASSUME NEW s \in Streams, CloseListener(s) \/ \E p \in Pcbs : Accept(s, p)
        PROVE  UNCHANGED <<connects, call, timer>>
    BY <1>9 DEF CloseListener, Accept, tables
  <1>10. ASSUME NEW port \in ListenPorts, Listen(port)
         PROVE  UNCHANGED <<connects, call, timer>>
    BY <1>10 DEF Listen
  <1>11. UNCHANGED vars => UNCHANGED <<connects, call, timer>>
    BY DEF vars, tables
  <1> QED
    BY <1>1, <1>2, <1>3, <1>4, <1>5, <1>6, <1>7, <1>8, <1>9, <1>10, <1>11 DEF Next

-----------------------------------------------------------------------------
(* The streams of listeners *)

\* A listener has a stream that was opened for its port, and the handshakes
\* of a listener have one too.
ListenersHaveStreams ==
  \A port \in Ports : listeners[port] # None =>
    /\ port \in ListenPorts
    /\ stream[listeners[port]] # None /\ stream[listeners[port]].port = port

HandshakesHaveStreams ==
  \A id \in Ids : listens[id] # None => stream[listens[id].stream] # None

StreamTyped ==
  /\ stream \in [Streams -> NewStream \cup {None}]
  /\ ListenersHaveStreams
  /\ HandshakesHaveStreams
  /\ OpenStreamListens

LEMMA SetQueue ==
  ASSUME NEW t \in NewStream, NEW x \in SUBSET Pcbs
  PROVE  /\ [t EXCEPT !.queue = x] \in NewStream /\ [t EXCEPT !.queue = x].queue = x
         /\ [t EXCEPT !.queue = x].port = t.port /\ [t EXCEPT !.queue = x].open = t.open
  BY DEF NewStream

LEMMA SetOpen ==
  ASSUME NEW t \in NewStream, NEW b \in BOOLEAN
  PROVE  /\ [t EXCEPT !.open = b] \in NewStream /\ [t EXCEPT !.open = b].open = b
         /\ [t EXCEPT !.open = b].port = t.port /\ [t EXCEPT !.open = b].queue = t.queue
  BY DEF NewStream

(***************************************************************************)
(* A connection joins or leaves a stream.                                  *)
(***************************************************************************)
LEMMA QueueInv ==
  ASSUME Inv, StreamTyped, NEW s \in Streams, stream[s] # None, NEW x \in SUBSET Pcbs,
         stream' = [stream EXCEPT ![s].queue = x], UNCHANGED listeners,
         \A id \in Ids : listens'[id] = listens[id] \/ listens'[id] = None
  PROVE  StreamTyped'
  <1> DEFINE t == [stream[s] EXCEPT !.queue = x]
  <1>1. stream[s] \in NewStream
    BY DEF StreamTyped
  <1>2. t \in NewStream /\ t.port = stream[s].port /\ t.open = stream[s].open
    BY <1>1, SetQueue
  <1>3. stream' = [stream EXCEPT ![s] = t]
    BY DEF StreamTyped
  <1> HIDE DEF t
  <1>4. t # None
    BY <1>2, PcbAssumption
  <1>5. /\ stream' \in [Streams -> NewStream \cup {None}]
        /\ \A r \in Streams : stream'[r] = IF r = s THEN t ELSE stream[r]
    BY <1>2, <1>3 DEF StreamTyped
  <1>6. ListenersHaveStreams'
    <2>1. \A port \in Ports : listeners[port] # None => listeners[port] \in Streams
      BY DEF Inv, Typed
    <2> QED
      BY <2>1, <1>2, <1>4, <1>5 DEF StreamTyped, ListenersHaveStreams
  <1>7. HandshakesHaveStreams'
    <2>1. \A id \in Ids : listens[id] # None => listens[id].stream \in Streams
      BY DEF Inv, Typed, HalfOpen
    <2> QED
      BY <2>1, <1>4, <1>5 DEF StreamTyped, HandshakesHaveStreams
  <1>8. OpenStreamListens'
    BY <1>2, <1>4, <1>5 DEF StreamTyped, OpenStreamListens
  <1> QED
    BY <1>5, <1>6, <1>7, <1>8 DEF StreamTyped

LEMMA CloseListenerInv ==
  ASSUME Inv, StreamTyped, NEW s \in Streams, CloseListener(s)
  PROVE  StreamTyped'
  <1> DEFINE port == stream[s].port
             r == listeners[port]
             t == [stream[r] EXCEPT !.open = FALSE]
  <1>1. /\ stream[s] # None /\ r # None
        /\ stream' = [stream EXCEPT ![r].open = FALSE]
        /\ listeners' = [listeners EXCEPT ![port] = None]
        /\ UNCHANGED listens
    BY DEF CloseListener, ClosePort
  <1>2. port \in Ports
    BY <1>1 DEF StreamTyped, NewStream
  <1>3. r \in Streams /\ stream[r] # None /\ stream[r].port = port
    BY <1>1, <1>2 DEF Inv, Typed, StreamTyped, ListenersHaveStreams
  <1>4. stream[r] \in NewStream
    BY <1>3 DEF StreamTyped
  <1>5. t \in NewStream /\ t.open = FALSE
    BY <1>4, SetOpen
  <1>6. stream' = [stream EXCEPT ![r] = t]
    BY <1>1 DEF StreamTyped
  <1> HIDE DEF t
  <1>7. t # None
    BY <1>5, PcbAssumption
  <1>8. /\ stream' \in [Streams -> NewStream \cup {None}]
        /\ \A u \in Streams : stream'[u] = IF u = r THEN t ELSE stream[u]
    BY <1>3, <1>5, <1>6 DEF StreamTyped
  <1>9. \A q \in Ports : listeners'[q] = IF q = port THEN None ELSE listeners[q]
    BY <1>1, <1>2 DEF Inv, Typed
  <1>10. \A q \in Ports : listeners[q] = r => q = port
    BY <1>1, <1>3 DEF StreamTyped, ListenersHaveStreams
  <1>11. r # None
    BY <1>1
  <1> HIDE DEF r, port
  <1>12. ListenersHaveStreams'
    <2>1. \A q \in Ports : listeners[q] # None => listeners[q] \in Streams
      BY DEF Inv, Typed
    <2> QED
      BY <2>1, <1>8, <1>9, <1>10 DEF StreamTyped, ListenersHaveStreams
  <1>13. HandshakesHaveStreams'
    <2>1. \A id \in Ids : listens[id] # None => listens[id].stream \in Streams
      BY DEF Inv, Typed, HalfOpen
    <2> QED
      BY <2>1, <1>1, <1>7, <1>8 DEF StreamTyped, HandshakesHaveStreams
  <1>14. OpenStreamListens'
    <2> SUFFICES ASSUME NEW u \in Streams
                 PROVE  stream'[u] # None /\ stream'[u].open <=> \E q \in Ports : listeners'[q] = u
      BY DEF OpenStreamListens
    <2>1. u # None
      BY PcbAssumption
    <2>2. CASE u = r
      BY <2>1, <2>2, <1>5, <1>8, <1>9, <1>10
    <2>3. CASE u # r
      <3>1. stream'[u] = stream[u]
        BY <2>3, <1>8
      <3>2. (\E q \in Ports : listeners'[q] = u) <=> (\E q \in Ports : listeners[q] = u)
        <4>1. listeners[port] # u
          BY <2>3 DEF r
        <4> QED
          BY <4>1, <2>1, <1>9
      <3> QED
        BY <3>1, <3>2 DEF StreamTyped, OpenStreamListens
    <2> QED
      BY <2>2, <2>3
  <1> QED
    BY <1>8, <1>12, <1>13, <1>14 DEF StreamTyped

(***************************************************************************)
(* listen takes a port over from the listener it has (pcb.ml:521-526).     *)
(***************************************************************************)
LEMMA ListenInv ==
  ASSUME Inv, StreamTyped, NEW port \in ListenPorts, Listen(port)
  PROVE  StreamTyped'
  <1> DEFINE s == Next1(stream)
             old == listeners[port]
             new == [port |-> port, open |-> TRUE, queue |-> {}]
             closed(t) == [stream[t] EXCEPT !.open = FALSE]
  <1>1. /\ Unused(stream) # {}
        /\ stream' = [t \in Streams |-> IF t = s THEN new
                                        ELSE IF t = old THEN closed(t) ELSE stream[t]]
        /\ listeners' = [listeners EXCEPT ![port] = s]
        /\ UNCHANGED listens
    BY DEF Listen
  <1>2. s \in Streams /\ stream[s] = None
    BY <1>1 DEF StreamTyped, Next1, Unused
  <1>3. port \in Ports
    BY DEF Ports
  <1>4. new \in NewStream /\ new.port = port /\ new.open = TRUE
    BY <1>3 DEF NewStream
  <1>5. new # None /\ s # None
    <2> HIDE DEF new, s
    <2> QED
      BY <1>2, <1>4, PcbAssumption
  <1>6. old # None => old \in Streams /\ stream[old] # None /\ stream[old].port = port
    BY <1>3 DEF Inv, Typed, StreamTyped, ListenersHaveStreams
  <1>7. \A t \in Streams : t = old => /\ closed(t) \in NewStream /\ closed(t) # None
                                      /\ closed(t).port = port /\ closed(t).open = FALSE
    <2> SUFFICES ASSUME NEW t \in Streams, t = old
                 PROVE  /\ closed(t) \in NewStream /\ closed(t) # None
                        /\ closed(t).port = port /\ closed(t).open = FALSE
      OBVIOUS
    <2>1. t # None
      BY PcbAssumption
    <2>2. stream[t] \in NewStream /\ stream[t].port = port
      BY <2>1, <1>6 DEF StreamTyped
    <2>3. closed(t) \in NewStream /\ closed(t).port = port /\ closed(t).open = FALSE
      BY <2>2, SetOpen
    <2> HIDE DEF closed
    <2> QED
      BY <2>3, PcbAssumption
  <1> HIDE DEF s, new, closed
  <1>8. /\ stream' \in [Streams -> NewStream \cup {None}]
        /\ \A t \in Streams : stream'[t] = IF t = s THEN new
                                           ELSE IF t = old THEN closed(t) ELSE stream[t]
    BY <1>1, <1>4, <1>7 DEF StreamTyped
  <1>9. \A q \in Ports : listeners'[q] = IF q = port THEN s ELSE listeners[q]
    BY <1>1, <1>3 DEF Inv, Typed
  <1>10. \A q \in Ports : listeners[q] # s
    BY <1>2, <1>5 DEF StreamTyped, ListenersHaveStreams
  <1>11. \A q \in Ports : old # None /\ listeners[q] = old => q = port
    BY <1>6 DEF StreamTyped, ListenersHaveStreams
  <1>12. ListenersHaveStreams'
    <2>1. \A q \in Ports : listeners[q] # None => listeners[q] \in Streams
      BY DEF Inv, Typed
    <2> QED
      BY <2>1, <1>2, <1>4, <1>5, <1>7, <1>8, <1>9, <1>10, <1>11 DEF StreamTyped, ListenersHaveStreams
  <1>13. HandshakesHaveStreams'
    <2>1. \A id \in Ids : listens[id] # None => listens[id].stream \in Streams
      BY DEF Inv, Typed, HalfOpen
    <2> QED
      BY <2>1, <1>1, <1>5, <1>7, <1>8 DEF StreamTyped, HandshakesHaveStreams
  <1>14. OpenStreamListens'
    <2> SUFFICES ASSUME NEW u \in Streams
                 PROVE  stream'[u] # None /\ stream'[u].open <=> \E q \in Ports : listeners'[q] = u
      BY DEF OpenStreamListens
    <2>1. u # None
      BY PcbAssumption
    <2>2. CASE u = s
      BY <2>2, <1>3, <1>4, <1>5, <1>8, <1>9
    <2>3. CASE u # s /\ u = old
      BY <2>1, <2>3, <1>7, <1>8, <1>9, <1>11
    <2>4. CASE u # s /\ u # old
      <3>1. stream'[u] = stream[u]
        BY <2>4, <1>8
      <3>2. (\E q \in Ports : listeners'[q] = u) <=> (\E q \in Ports : listeners[q] = u)
        BY <2>4, <1>9
      <3> QED
        BY <3>1, <3>2 DEF StreamTyped, OpenStreamListens
    <2> QED
      BY <2>2, <2>3, <2>4
  <1> QED
    BY <1>8, <1>12, <1>13, <1>14 DEF StreamTyped

(***************************************************************************)
(* A SYN makes a handshake of the stream that listens.                     *)
(***************************************************************************)
LEMMA SynStreamInv ==
  ASSUME Inv, StreamTyped, NEW id \in Ids, NEW isn \in ServerIsns, Syn(id, isn)
  PROVE  StreamTyped'
  <1> DEFINE h == [isn |-> isn, stream |-> listeners[Port(id)], pcb |-> Next1(pcb)]
  <1>1. /\ listeners[Port(id)] # None
        /\ listens' = [listens EXCEPT ![id] = h]
        /\ UNCHANGED <<listeners, stream>>
    BY DEF Syn
  <1>2. Port(id) \in Ports
    BY DEF Ids, Port
  <1>3. h.stream = listeners[Port(id)]
    OBVIOUS
  <1>4. stream[h.stream] # None
    BY <1>1, <1>2, <1>3 DEF StreamTyped, ListenersHaveStreams
  <1> HIDE DEF h
  <1>5. \A i \in Ids : listens'[i] = IF i = id THEN h ELSE listens[i]
    BY <1>1 DEF Inv, Typed
  <1>6. HandshakesHaveStreams'
    BY <1>1, <1>4, <1>5 DEF StreamTyped, HandshakesHaveStreams
  <1> QED
    BY <1>1, <1>6 DEF StreamTyped, ListenersHaveStreams, OpenStreamListens

LEMMA StreamStep ==
  ASSUME Inv, StreamTyped, [Next]_vars
  PROVE  StreamTyped'
  <1>1. ASSUME UNCHANGED <<listeners, stream>>,
               \A id \in Ids : listens'[id] = listens[id] \/ listens'[id] = None
        PROVE  StreamTyped'
    BY <1>1 DEF StreamTyped, ListenersHaveStreams, HandshakesHaveStreams, OpenStreamListens
  <1>2. ASSUME NEW id \in Ids, NEW isn \in ServerIsns, Syn(id, isn) PROVE StreamTyped'
    BY <1>2, SynStreamInv
  <1>3. ASSUME NEW id \in Ids, NEW isn \in ServerIsns, Ack(id, isn) PROVE StreamTyped'
    <2> DEFINE s == listens[id].stream
               x == stream[s].queue \cup {listens[id].pcb}
    <2>1. /\ listens[id] # None /\ UNCHANGED listeners
          /\ listens' = [listens EXCEPT ![id] = None]
          /\ UNCHANGED stream \/ stream' = [stream EXCEPT ![s].queue = @ \cup {listens[id].pcb}]
      BY <1>3 DEF Ack
    <2>2. s \in Streams /\ listens[id].pcb \in Pcbs /\ stream[s] # None
      BY <2>1 DEF Inv, Typed, HalfOpen, StreamTyped, HandshakesHaveStreams
    <2>3. x \in SUBSET Pcbs
      BY <2>2 DEF StreamTyped, NewStream
    <2>4. \A i \in Ids : listens'[i] = listens[i] \/ listens'[i] = None
      BY <2>1 DEF Inv, Typed
    <2>5. CASE stream' = [stream EXCEPT ![s].queue = @ \cup {listens[id].pcb}]
      <3>1. stream' = [stream EXCEPT ![s].queue = x]
        BY <2>5
      <3> QED
        BY <3>1, <2>1, <2>2, <2>3, <2>4, QueueInv
    <2> QED
      BY <1>1, <2>1, <2>4, <2>5
  <1>4. ASSUME NEW s \in Streams, NEW p \in Pcbs, Accept(s, p) PROVE StreamTyped'
    <2> DEFINE x == stream[s].queue \ {p}
    <2>1. /\ stream[s] # None /\ stream' = [stream EXCEPT ![s].queue = x]
          /\ UNCHANGED <<listeners, listens>>
      BY <1>4 DEF Accept, tables
    <2>2. x \in SUBSET Pcbs
      BY <2>1 DEF StreamTyped, NewStream
    <2> HIDE DEF x
    <2> QED
      BY <2>1, <2>2, QueueInv
  <1>5. ASSUME NEW s \in Streams, CloseListener(s) PROVE StreamTyped'
    BY <1>5, CloseListenerInv
  <1>6. ASSUME NEW port \in ListenPorts, Listen(port) PROVE StreamTyped'
    BY <1>6, ListenInv
  <1>7. ASSUME NEW id \in Ids, NEW isn \in ClientIsns, Connect(id, isn) \/ SynAck(id, isn)
        PROVE  UNCHANGED <<listens, listeners, stream>>
    BY <1>7 DEF Connect, SynAck
  <1>8. ASSUME NEW id \in Ids, InputPcb(id) \/ RstConnects(id)
        PROVE  UNCHANGED <<listens, listeners, stream>>
    BY <1>8 DEF InputPcb, RstConnects, tables
  <1>9. ASSUME NEW id \in Ids, RstListens(id) PROVE StreamTyped'
    <2>1. UNCHANGED <<listeners, stream>> /\ listens' = [listens EXCEPT ![id] = None]
      BY <1>9 DEF RstListens
    <2> QED
      BY <2>1, <1>1 DEF Inv, Typed
  <1>10. ASSUME NEW c \in Calls,
                SynOut(c) \/ ConnectTimer(c) \/ SynResent(c) \/ \E p \in Pcbs : AckOut(c, p)
         PROVE  UNCHANGED <<listens, listeners, stream>>
    BY <1>10
       DEF SynOut, ConnectTimer, ConnectTimerStale, ConnectTimerGiveUp, ConnectTimerRexmit,
           SynResent, AckOut, tables
  <1>11. ASSUME NEW p \in Pcbs, RecvFin(p) \/ AppOutput(p)
         PROVE  UNCHANGED <<listens, listeners, stream>>
    BY <1>11 DEF RecvFin, AppOutput, tables
  <1>12. ASSUME NEW p \in Pcbs, Timeout(p) PROVE StreamTyped'
    <2>1. UNCHANGED <<listeners, stream>> /\ ClearPcb(pcb[p].id, pcb[p].isn)
      BY <1>12 DEF Timeout
    <2>2. \A id \in Ids : listens'[id] = listens[id] \/ listens'[id] = None
      BY <2>1 DEF ClearPcb, Inv, Typed
    <2> QED
      BY <2>1, <2>2, <1>1
  <1>13. UNCHANGED vars => UNCHANGED <<listens, listeners, stream>>
    BY DEF vars, tables
  <1> QED
    BY <1>1, <1>2, <1>3, <1>4, <1>5, <1>6, <1>7, <1>8, <1>9, <1>10, <1>11, <1>12, <1>13 DEF Next

-----------------------------------------------------------------------------
(* Who holds a connection *)

Queued(s, p) == stream[s] # None /\ p \in stream[s].queue
InHandshake(p) == \E id \in Ids : listens[id] # None /\ listens[id].pcb = p

\* On a port that connect does not use, a connection of the active table has
\* no handshake of the same id beside it: clearpcb finds what it is to clear.
Sides ==
  \A id \in Ids : Port(id) \notin ConnectPorts =>
    connects[id] = None /\ (listens[id] # None => channels[id] = << >>)

Holders ==
  /\ \A s \in Streams, p \in Pcbs : Queued(s, p) => pcb[p] # None /\ ~pcb[p].owned
  /\ \A s, t \in Streams, p \in Pcbs : Queued(s, p) /\ Queued(t, p) => s = t
  /\ \A p \in Pcbs : InHandshake(p) => ~pcb[p].owned /\ \A s \in Streams : ~Queued(s, p)
  /\ \A c \in Calls, p \in Pcbs : Handed(c, p) =>
       /\ pcb[p] # None /\ ~pcb[p].owned /\ pcb[p].id = call[c].id
       /\ ~InHandshake(p) /\ \A s \in Streams : ~Queued(s, p)
  /\ \A c, d \in Calls, p \in Pcbs : Handed(c, p) /\ Handed(d, p) => c = d

HandInv == Sides /\ HalfOpenTimed /\ Holders

LEMMA HoldersAreOne == Holders => OneHolder
  <1> SUFFICES ASSUME Holders, NEW p \in Pcbs
               PROVE  LET inListens == \E id \in Ids : listens[id] # None /\ listens[id].pcb = p
                          handed == {c \in Calls : Handed(c, p)}
                          queued == {s \in Streams : stream[s] # None /\ p \in stream[s].queue}
                      IN  /\ \A s, t \in queued : s = t
                          /\ \A c, d \in handed : c = d
                          /\ inListens => queued = {} /\ ~pcb[p].owned
                          /\ queued # {} => ~pcb[p].owned
                          /\ handed # {} => ~inListens /\ queued = {} /\ ~pcb[p].owned
    BY DEF OneHolder
  <1> QED
    BY DEF Holders, Queued, InHandshake

\* Who waits for a SYN-ACK that is being answered has a connection of its id.
LEMMA HandedHaveTheirs == CallInv /\ Holders => HandedAreTheirs
  BY DEF CallInv, AckedHaveConn, Holders, HandedAreTheirs, Handed

\* Ids tell the connections of handshakes apart.
LEMMA HandshakeOf ==
  ASSUME Inv, NEW id \in Ids, listens[id] # None
  PROVE  /\ listens[id].pcb \in Pcbs /\ pcb[listens[id].pcb] # None
         /\ pcb[listens[id].pcb] \in NewPcb
         /\ \A i \in Ids : listens[i] # None /\ listens[i].pcb = listens[id].pcb => i = id
  BY DEF Inv, Typed, HandshakeIds, HalfOpen

(***************************************************************************)
(* Handshakes go on or end, and connections change hands only by leaving a *)
(* stream.                                                                 *)
(***************************************************************************)
\* A connection keeps its owner and its id.
Kept(p) == pcb'[p] # None /\ pcb'[p].owned = pcb[p].owned /\ pcb'[p].id = pcb[p].id

LEMMA HandKept ==
  ASSUME Inv, HandInv,
         \A id \in Ids : listens'[id] # None =>
           listens'[id] = listens[id] /\ pcb'[listens[id].pcb].owned = pcb[listens[id].pcb].owned,
         \A id \in Ids : listens'[id] # None /\ Port(id) \notin ConnectPorts =>
           channels'[id] = channels[id] /\ pcb'[listens[id].pcb] = pcb[listens[id].pcb],
         \A id \in Ids : connects'[id] # None => connects[id] # None \/ Port(id) \in ConnectPorts,
         \A s \in Streams, p \in Pcbs : Queued(s, p)' => Queued(s, p) /\ Kept(p),
         \A c \in Calls, p \in Pcbs : Handed(c, p)' =>
           Handed(c, p) /\ call'[c].id = call[c].id /\ Kept(p)
  PROVE  HandInv'
  <1>1. Sides'
    BY DEF HandInv, Sides
  <1>2. HalfOpenTimed'
    BY DEF HandInv, HalfOpenTimed
  <1>3. Holders'
    <2>1. \A p \in Pcbs : InHandshake(p)' => InHandshake(p) /\ pcb'[p].owned = pcb[p].owned
      BY DEF InHandshake
    <2> QED
      BY <2>1 DEF HandInv, Holders, Kept
  <1> QED
    BY <1>1, <1>2, <1>3 DEF HandInv

\* A call goes on as it was, or has no connection from the handler.
CallKept(c) ==
  call'[c] # None /\ call'[c].res = "acked" =>
    call[c] # None /\ Alike(call[c], call'[c])

LEMMA HandedKept ==
  ASSUME HandInv, \A c \in Calls : CallKept(c), \A p \in Pcbs : pcb[p] # None => Kept(p)
  PROVE  \A c \in Calls, p \in Pcbs : Handed(c, p)' =>
           Handed(c, p) /\ call'[c].id = call[c].id /\ Kept(p)
  <1> SUFFICES ASSUME NEW c \in Calls, NEW p \in Pcbs, Handed(c, p)'
               PROVE  Handed(c, p) /\ call'[c].id = call[c].id /\ Kept(p)
    OBVIOUS
  <1>1. Handed(c, p) /\ call'[c].id = call[c].id
    BY DEF CallKept, Alike, Handed
  <1> QED
    BY <1>1 DEF HandInv, Holders

LEMMA CallsSame ==
  ASSUME CallInv, UNCHANGED call
  PROVE  \A c \in Calls : CallKept(c)
  BY DEF CallInv, CallKept, Alike

(***************************************************************************)
(* One connection changes, its owner and its id excepted, and if it is a   *)
(* handshake, it is one on a port of connect.                              *)
(***************************************************************************)
LEMMA OtherChanges ==
  ASSUME Inv, CallInv, HandInv, NEW p \in Pcbs, pcb[p] # None,
         ~InHandshake(p) \/ Port(pcb[p].id) \in ConnectPorts,
         NEW c \in NewPcb, c.owned = pcb[p].owned, c.id = pcb[p].id,
         pcb' = [pcb EXCEPT ![p] = c],
         UNCHANGED <<channels, listens, connects, stream, call>>
  PROVE  HandInv'
  <1>1. c # None
    BY PcbAssumption
  <1>2. \A q \in Pcbs : pcb'[q] = IF q = p THEN c ELSE pcb[q]
    BY DEF Inv, Typed
  <1>3. \A q \in Pcbs : pcb[q] # None => Kept(q)
    BY <1>1, <1>2 DEF Kept
  <1>4. \A id \in Ids : listens'[id] # None =>
          listens'[id] = listens[id] /\ pcb'[listens[id].pcb].owned = pcb[listens[id].pcb].owned
    BY <1>3, HandshakeOf DEF Kept
  <1>5. \A id \in Ids : listens'[id] # None /\ Port(id) \notin ConnectPorts =>
          channels'[id] = channels[id] /\ pcb'[listens[id].pcb] = pcb[listens[id].pcb]
    BY <1>2, HandshakeOf DEF InHandshake, Inv, HandshakeIds
  <1>6. \A s \in Streams, q \in Pcbs : Queued(s, q)' => Queued(s, q) /\ Kept(q)
    BY <1>3 DEF Queued, HandInv, Holders
  <1>7. \A k \in Calls, q \in Pcbs : Handed(k, q)' =>
          Handed(k, q) /\ call'[k].id = call[k].id /\ Kept(q)
    BY <1>3, CallsSame, HandedKept
  <1> QED
    BY <1>4, <1>5, <1>6, <1>7, HandKept

LEMMA RxInputRecord ==
  ASSUME Typed, NEW p \in Pcbs, pcb[p] # None, RxInput(p)
  PROVE  \E c \in NewPcb : c.owned = pcb[p].owned /\ c.id = pcb[p].id /\ pcb' = [pcb EXCEPT ![p] = c]
  <1>1. pcb[p] \in NewPcb
    BY DEF Typed
  <1>2. CASE UNCHANGED pcb
    <2>1. pcb' = [pcb EXCEPT ![p] = pcb[p]]
      BY <1>2 DEF Typed
    <2> QED
      BY <1>1, <2>1
  <1>3. ASSUME NEW a \in Acks, NEW all \in BOOLEAN,
               pcb' = [pcb EXCEPT ![p] = Acked(TickAck(pcb[p], a), all)]
        PROVE  \E c \in NewPcb : c.owned = pcb[p].owned /\ c.id = pcb[p].id /\ pcb' = [pcb EXCEPT ![p] = c]
    <2> DEFINE c == TickAck(pcb[p], a)
    <2>1. c \in NewPcb /\ c.owned = pcb[p].owned /\ c.id = pcb[p].id
      BY <1>1 DEF TickAck, NewPcb
    <2>2. Acked(c, all) \in NewPcb /\ Acked(c, all).owned = c.owned /\ Acked(c, all).id = c.id
      <3> HIDE DEF c
      <3> QED
        BY <2>1 DEF Acked, NewPcb
    <2> QED
      BY <1>3, <2>1, <2>2
  <1> QED
    BY <1>2, <1>3 DEF RxInput

-----------------------------------------------------------------------------
(***************************************************************************)
(* The connection that answers a SYN-ACK is new: it is in no handshake and *)
(* no stream, and the caller that waits for it had none (pcb.ml:340).      *)
(***************************************************************************)
LEMMA SynAckHand ==
  ASSUME Inv, CallInv, HandInv, NEW id \in Ids, NEW a \in ClientIsns, SynAck(id, a)
  PROVE  HandInv'
  <1> DEFINE p == Next1(pcb)
             c == [id |-> id, isn |-> a, inflight |-> FALSE, owned |-> FALSE, state |-> "Established"]
             k == connects[id].call
             m == [call[k] EXCEPT !.res = "acked", !.conn = p]
  <1>1. /\ connects[id] # None /\ Unused(pcb) # {}
        /\ pcb' = [pcb EXCEPT ![p] = c]
        /\ channels' = [channels EXCEPT ![id] = <<p>> \o @]
        /\ UNCHANGED <<listens, stream>>
        /\ connects' = [connects EXCEPT ![id] = None]
    BY DEF SynAck, Resolve
  <1>2. p \in Pcbs /\ pcb[p] = None
    BY <1>1 DEF Inv, Typed, Next1, Unused
  <1>3. k \in Calls /\ call[k] \in NewCall /\ call[k].id = id
    <2>1. k \in Calls
      BY <1>1 DEF CallInv, Connecting
    <2> QED
      BY <1>1, <2>1 DEF CallInv, PendingAreRegistered
  <1>4. call' = [call EXCEPT ![k] = m]
    BY DEF SynAck, Resolve
  <1>5. c.id = id /\ c.owned = FALSE /\ c \in NewPcb
    BY DEF NewPcb, Isns
  <1>6. m.id = id /\ m.conn = p
    <2>1. PICK n \in NewCall : n = call[k]
      BY <1>3
    <2> HIDE DEF p, k
    <2> QED
      BY <1>3, <2>1 DEF NewCall
  <1> HIDE DEF p, c, k, m
  <1>7. c # None
    BY <1>5, PcbAssumption
  <1>8. \A q \in Pcbs : pcb'[q] = IF q = p THEN c ELSE pcb[q]
    BY <1>1, <1>2 DEF Inv, Typed
  <1>9. Port(id) \in ConnectPorts
    BY <1>1 DEF HandInv, Sides
  <1>10. Sides'
    BY <1>1, <1>9 DEF HandInv, Sides, Inv, Typed
  <1>11. \A i \in Ids : listens[i] # None => listens[i].pcb # p
    BY <1>2, HandshakeOf
  <1>12. HalfOpenTimed'
    <2>1. \A i \in Ids : listens[i] # None => pcb'[listens[i].pcb] = pcb[listens[i].pcb]
      BY <1>8, <1>11, HandshakeOf
    <2> QED
      BY <1>1, <2>1 DEF HandInv, HalfOpenTimed
  <1>13. Holders'
    <2>1. \A s \in Streams, q \in Pcbs : Queued(s, q)' => Queued(s, q) /\ q # p
      BY <1>1, <1>2 DEF Queued, HandInv, Holders
    <2>2. \A q \in Pcbs : InHandshake(q)' => InHandshake(q) /\ q # p
      BY <1>1, <1>11 DEF InHandshake
    <2>3. \A d \in Calls, q \in Pcbs : Handed(d, q)' =>
            \/ d = k /\ q = p /\ call'[d].id = id
            \/ d # k /\ q # p /\ Handed(d, q) /\ call'[d].id = call[d].id
      <3> SUFFICES ASSUME NEW d \in Calls, NEW q \in Pcbs, Handed(d, q)'
                   PROVE  \/ d = k /\ q = p /\ call'[d].id = id
                          \/ d # k /\ q # p /\ Handed(d, q) /\ call'[d].id = call[d].id
        OBVIOUS
      <3>1. CASE d = k
        <4>1. call'[d] = m
          BY <3>1, <1>3, <1>4 DEF CallInv
        <4> QED
          BY <3>1, <4>1, <1>6 DEF Handed
      <3>2. CASE d # k
        <4>1. call'[d] = call[d]
          BY <3>2, <1>4 DEF CallInv
        <4>2. Handed(d, q)
          BY <4>1 DEF Handed
        <4>3. q # p
          BY <4>2, <1>2 DEF HandInv, Holders
        <4> QED
          BY <3>2, <4>1, <4>2, <4>3
      <3> QED
        BY <3>1, <3>2
    <2> QED
      BY <2>1, <2>2, <2>3, <1>2, <1>5, <1>7, <1>8 DEF HandInv, Holders
  <1> QED
    BY <1>10, <1>12, <1>13 DEF HandInv

(***************************************************************************)
(* The ACK is out: the connection is the caller's (pcb.ml:347).            *)
(***************************************************************************)
LEMMA AckOutHand ==
  ASSUME Inv, CallInv, HandInv, NEW c \in Calls, NEW p \in Pcbs, AckOut(c, p)
  PROVE  HandInv'
  <1> DEFINE b == [pcb[p] EXCEPT !.owned = TRUE]
             k == [call[c] EXCEPT !.res = "connected", !.conn = None]
  <1>1. /\ Handed(c, p)
        /\ pcb' = [pcb EXCEPT ![p] = b]
        /\ call' = [call EXCEPT ![c] = k]
        /\ UNCHANGED <<channels, listens, connects, stream>>
    BY DEF AckOut, tables, Inv, Typed
  <1>2. call[c] \in NewCall
    BY <1>1 DEF Handed, CallInv
  <1>3. k.res = "connected"
    BY <1>2 DEF NewCall
  <1> HIDE DEF b, k
  <1>4. \A q \in Pcbs : q # p => pcb'[q] = pcb[q]
    BY <1>1 DEF Inv, Typed
  <1>5. \A d \in Calls : call'[d] = IF d = c THEN k ELSE call[d]
    BY <1>1 DEF CallInv
  <1>6. \A i \in Ids : listens[i] # None => pcb'[listens[i].pcb] = pcb[listens[i].pcb]
    BY <1>1, <1>4, HandshakeOf DEF HandInv, Holders, InHandshake
  <1>7. \A q \in Pcbs : q # p /\ pcb[q] # None => Kept(q)
    BY <1>4 DEF Kept
  <1>8. \A s \in Streams, q \in Pcbs : Queued(s, q)' => Queued(s, q) /\ Kept(q)
    BY <1>1, <1>7 DEF Queued, HandInv, Holders
  <1>9. \A d \in Calls, q \in Pcbs : Handed(d, q)' =>
          Handed(d, q) /\ call'[d].id = call[d].id /\ Kept(q)
    <2> SUFFICES ASSUME NEW d \in Calls, NEW q \in Pcbs, Handed(d, q)'
                 PROVE  Handed(d, q) /\ call'[d].id = call[d].id /\ Kept(q)
      OBVIOUS
    <2>1. d # c
      BY <1>3, <1>5 DEF Handed
    <2>2. Handed(d, q) /\ call'[d] = call[d]
      BY <2>1, <1>5 DEF Handed
    <2>3. q # p /\ pcb[q] # None
      BY <2>1, <2>2, <1>1 DEF HandInv, Holders
    <2> QED
      BY <2>2, <2>3, <1>7
  <1> QED
    BY <1>1, <1>6, <1>8, <1>9, HandKept

(***************************************************************************)
(* A SYN makes a handshake of a new connection (pcb.ml:281).               *)
(***************************************************************************)
LEMMA SynHand ==
  ASSUME Inv, CallInv, HandInv, NEW id \in Ids, NEW isn \in ServerIsns, Syn(id, isn)
  PROVE  HandInv'
  <1> DEFINE p == Next1(pcb)
             c == [id |-> id, isn |-> isn, inflight |-> TRUE, owned |-> FALSE, state |-> "Syn_rcvd"]
             h == [isn |-> isn, stream |-> listeners[Port(id)], pcb |-> p]
  <1>1. /\ NoPcb(id) /\ Unused(pcb) # {}
        /\ pcb' = [pcb EXCEPT ![p] = c]
        /\ listens' = [listens EXCEPT ![id] = h]
        /\ UNCHANGED <<channels, connects, stream, call>>
    BY DEF Syn
  <1>2. p \in Pcbs /\ pcb[p] = None
    BY <1>1 DEF Inv, Typed, Next1, Unused
  <1>3. c \in NewPcb /\ c.id = id /\ c.isn = isn /\ c.inflight = TRUE /\ c.owned = FALSE /\ c.state = "Syn_rcvd"
    BY DEF NewPcb, Isns
  <1>4. h.isn = isn /\ h.pcb = p
    OBVIOUS
  <1> HIDE DEF p, c, h
  <1>5. c # None
    BY <1>3, PcbAssumption
  <1>6. \A q \in Pcbs : pcb'[q] = IF q = p THEN c ELSE pcb[q]
    BY <1>1, <1>2 DEF Inv, Typed
  <1>7. \A i \in Ids : listens'[i] = IF i = id THEN h ELSE listens[i]
    BY <1>1 DEF Inv, Typed
  <1>8. Sides'
    BY <1>1, <1>7 DEF HandInv, Sides, NoPcb
  <1>9. HalfOpenTimed'
    <2> SUFFICES ASSUME NEW i \in Ids, listens'[i] # None, Port(i) \notin ConnectPorts
                 PROVE  LET d == pcb'[listens'[i].pcb]
                        IN  /\ d # None /\ d.id = i /\ d.isn = listens'[i].isn
                            /\ d.state = "Syn_rcvd" /\ d.inflight
      BY DEF HalfOpenTimed
    <2>1. CASE i = id
      BY <2>1, <1>2, <1>3, <1>4, <1>5, <1>6, <1>7
    <2>2. CASE i # id
      <3>1. listens'[i] = listens[i] /\ pcb'[listens[i].pcb] = pcb[listens[i].pcb]
        BY <2>2, <1>2, <1>6, <1>7, HandshakeOf
      <3> QED
        BY <3>1 DEF HandInv, HalfOpenTimed
    <2> QED
      BY <2>1, <2>2
  <1>10. Holders'
    <2>1. \A s \in Streams, q \in Pcbs : Queued(s, q)' => Queued(s, q) /\ q # p
      BY <1>1, <1>2 DEF Queued, HandInv, Holders
    <2>2. \A d \in Calls, q \in Pcbs : Handed(d, q)' => Handed(d, q) /\ q # p /\ call'[d] = call[d]
      BY <1>1, <1>2 DEF Handed, HandInv, Holders
    <2>3. \A q \in Pcbs : InHandshake(q)' => InHandshake(q) \/ q = p
      BY <1>4, <1>7 DEF InHandshake
    <2> QED
      BY <2>1, <2>2, <2>3, <1>2, <1>3, <1>6 DEF HandInv, Holders
  <1> QED
    BY <1>8, <1>9, <1>10 DEF HandInv

(***************************************************************************)
(* The ACK of a handshake takes it off listens, and hands its connection   *)
(* to the stream, unless that is closed (pcb.ml:384-387).                  *)
(***************************************************************************)
LEMMA AckHand ==
  ASSUME Inv, CallInv, HandInv, StreamTyped, NEW id \in Ids, NEW a \in ServerIsns, Ack(id, a)
  PROVE  HandInv'
  <1> DEFINE p == listens[id].pcb
             s == listens[id].stream
  <1>1. /\ listens[id] # None
        /\ channels' = [channels EXCEPT ![id] = <<p>> \o @]
        /\ listens' = [listens EXCEPT ![id] = None]
        /\ UNCHANGED <<connects, call>>
        /\ \/ /\ stream' = [stream EXCEPT ![s].queue = @ \cup {p}]
              /\ RxInput(p)
           \/ UNCHANGED <<stream, pcb>>
    BY DEF Ack
  <1>2. /\ p \in Pcbs /\ pcb[p] # None /\ s \in Streams /\ stream[s] # None
        /\ \A i \in Ids : listens[i] # None /\ listens[i].pcb = p => i = id
    BY <1>1, HandshakeOf DEF Inv, Typed, HalfOpen, StreamTyped, HandshakesHaveStreams
  <1>3. /\ ~pcb[p].owned /\ \A t \in Streams : ~Queued(t, p)
        /\ \A c \in Calls : ~Handed(c, p)
    BY <1>1, <1>2 DEF HandInv, Holders, InHandshake
  <1> HIDE DEF p, s
  <1>4. PICK new \in NewPcb \cup {None} :
          new # None /\ new.owned = pcb[p].owned /\ pcb' = [pcb EXCEPT ![p] = new]
    <2>1. CASE RxInput(p)
      BY <2>1, <1>2, RxInputRecord, PcbAssumption DEF Inv
    <2>2. CASE UNCHANGED pcb
      <3>1. pcb' = [pcb EXCEPT ![p] = pcb[p]] /\ pcb[p] \in NewPcb
        BY <2>2, <1>2 DEF Inv, Typed
      <3> QED
        BY <3>1, <1>2
    <2> QED
      BY <1>1, <2>1, <2>2
  <1>5. \A q \in Pcbs : pcb'[q] = IF q = p THEN new ELSE pcb[q]
    BY <1>2, <1>4 DEF Inv, Typed
  <1>6. \A i \in Ids : listens'[i] = IF i = id THEN None ELSE listens[i]
    BY <1>1 DEF Inv, Typed
  <1>7. \A i \in Ids : listens'[i] # None =>
          /\ listens'[i] = listens[i] /\ channels'[i] = channels[i]
          /\ pcb'[listens[i].pcb] = pcb[listens[i].pcb]
    <2> SUFFICES ASSUME NEW i \in Ids, listens'[i] # None
                 PROVE  /\ listens'[i] = listens[i] /\ channels'[i] = channels[i]
                        /\ pcb'[listens[i].pcb] = pcb[listens[i].pcb]
      OBVIOUS
    <2>1. i # id /\ listens'[i] = listens[i]
      BY <1>6
    <2>2. channels'[i] = channels[i]
      BY <2>1, <1>1 DEF Inv, Typed
    <2>3. listens[i].pcb \in Pcbs /\ listens[i].pcb # p
      BY <2>1, <1>2, HandshakeOf
    <2> QED
      BY <2>1, <2>2, <2>3, <1>5
  <1>8. Sides'
    BY <1>1, <1>7 DEF HandInv, Sides
  <1>9. HalfOpenTimed'
    BY <1>7 DEF HandInv, HalfOpenTimed
  <1>10. Holders'
    <2>1. \A t \in Streams, q \in Pcbs : Queued(t, q)' => Queued(t, q) \/ (t = s /\ q = p)
      <3>1. CASE UNCHANGED stream
        BY <3>1 DEF Queued
      <3>2. CASE stream' = [stream EXCEPT ![s].queue = @ \cup {p}]
        <4>1. stream[s] \in NewStream
          BY <1>2 DEF StreamTyped
        <4>2. /\ stream'[s].queue = stream[s].queue \cup {p}
              /\ \A t \in Streams : t # s => stream'[t] = stream[t]
          BY <3>2, <4>1, <1>2 DEF StreamTyped, NewStream
        <4> QED
          BY <4>2, <1>2 DEF Queued
      <3> QED
        BY <1>1, <3>1, <3>2
    <2>2. \A q \in Pcbs : InHandshake(q)' => InHandshake(q) /\ q # p
      BY <1>2, <1>6 DEF InHandshake
    <2>3. \A c \in Calls, q \in Pcbs : Handed(c, q)' => Handed(c, q) /\ q # p /\ call'[c] = call[c]
      BY <1>1, <1>3 DEF Handed
    <2> QED
      BY <2>1, <2>2, <2>3, <1>2, <1>3, <1>4, <1>5 DEF HandInv, Holders
  <1> QED
    BY <1>8, <1>9, <1>10 DEF HandInv

(***************************************************************************)
(* The retransmission timer of a handshake ends it, on a port that connect *)
(* does not use: clearpcb finds it in listens, as nothing is in the active *)
(* table under its id.  The timer of a connection that was replaced may    *)
(* end the handshake that replaced it (pcb.ml:204-209).                    *)
(***************************************************************************)
LEMMA TimeoutHand ==
  ASSUME Inv, CallInv, HandInv, NEW p \in Pcbs, Timeout(p)
  PROVE  HandInv'
  <1> DEFINE id == pcb[p].id
             isn == pcb[p].isn
             c == [pcb[p] EXCEPT !.state = "Closed"]
  <1>1. /\ pcb[p] # None /\ pcb' = [pcb EXCEPT ![p] = c]
        /\ UNCHANGED <<connects, stream, call>>
        /\ ClearPcb(id, isn)
    BY DEF Timeout, Inv, Typed
  <1>2. pcb[p] \in NewPcb /\ id \in Ids
    BY <1>1 DEF Inv, Typed, NewPcb
  <1>3. c \in NewPcb /\ c.owned = pcb[p].owned /\ c.id = pcb[p].id
    BY <1>2 DEF NewPcb
  <1>4. \A i \in Ids : listens[i] # None /\ listens[i].pcb = p => i = id
    BY DEF Inv, HandshakeIds
  <1>5. listens[id] # None /\ listens[id].pcb = p /\ Port(id) \notin ConnectPorts =>
          channels[id] = << >> /\ listens[id].isn = isn
    BY <1>2 DEF HandInv, Sides, HalfOpenTimed
  <1> HIDE DEF id, isn, c
  <1>6. c # None
    BY <1>3, PcbAssumption
  <1>7. \A q \in Pcbs : pcb'[q] = IF q = p THEN c ELSE pcb[q]
    BY <1>1 DEF Inv, Typed
  <1>8. \A q \in Pcbs : pcb[q] # None => Kept(q)
    BY <1>3, <1>6, <1>7 DEF Kept
  <1>9. \A i \in Ids : listens'[i] = listens[i] \/ listens'[i] = None
    BY <1>1, <1>2 DEF ClearPcb, Inv, Typed
  <1>10. \A i \in Ids : listens'[i] # None =>
           listens'[i] = listens[i] /\ pcb'[listens[i].pcb].owned = pcb[listens[i].pcb].owned
    BY <1>8, <1>9, HandshakeOf DEF Kept
  <1>11. \A i \in Ids : listens'[i] # None /\ Port(i) \notin ConnectPorts =>
           channels'[i] = channels[i] /\ pcb'[listens[i].pcb] = pcb[listens[i].pcb]
    <2> SUFFICES ASSUME NEW i \in Ids, listens'[i] # None, Port(i) \notin ConnectPorts
                 PROVE  channels'[i] = channels[i] /\ listens[i].pcb # p
      BY <1>7, <1>9, HandshakeOf
    <2>1. listens[i] # None
      BY <1>9
    <2>2. CASE channels[id] # << >>
      <3>1. channels' = [channels EXCEPT ![id] = Tail(@)]
        BY <1>1, <2>2 DEF ClearPcb
      <3>2. i # id
        BY <2>1, <2>2 DEF HandInv, Sides
      <3> QED
        BY <2>1, <3>1, <3>2, <1>4 DEF Inv, Typed
    <2>3. CASE channels[id] = << >>
      <3>1. /\ UNCHANGED channels
            /\ listens[id] # None /\ listens[id].isn = isn => listens'[id] = None
        BY <1>1, <1>2, <2>3 DEF ClearPcb, Inv, Typed
      <3> QED
        BY <2>1, <3>1, <1>4, <1>5
    <2> QED
      BY <2>2, <2>3
  <1>12. \A s \in Streams, q \in Pcbs : Queued(s, q)' => Queued(s, q) /\ Kept(q)
    BY <1>1, <1>8 DEF Queued, HandInv, Holders
  <1>13. \A k \in Calls, q \in Pcbs : Handed(k, q)' =>
           Handed(k, q) /\ call'[k].id = call[k].id /\ Kept(q)
    BY <1>1, <1>8, CallsSame, HandedKept
  <1> QED
    BY <1>1, <1>10, <1>11, <1>12, <1>13, HandKept

(***************************************************************************)
(* A RST ends a handshake: its connection is closed (pcb.ml:317-320).      *)
(***************************************************************************)
LEMMA RstListensHand ==
  ASSUME Inv, CallInv, HandInv, NEW id \in Ids, RstListens(id)
  PROVE  HandInv'
  <1> DEFINE p == listens[id].pcb
             c == [pcb[p] EXCEPT !.state = "Closed"]
  <1>1. /\ listens[id] # None
        /\ listens' = [listens EXCEPT ![id] = None]
        /\ pcb' = [pcb EXCEPT ![p] = c]
        /\ UNCHANGED <<channels, connects, stream, call>>
    BY DEF RstListens, Inv, Typed
  <1>2. /\ p \in Pcbs /\ pcb[p] # None /\ pcb[p] \in NewPcb
        /\ \A i \in Ids : listens[i] # None /\ listens[i].pcb = p => i = id
    BY <1>1, HandshakeOf
  <1>3. c \in NewPcb /\ c.owned = pcb[p].owned /\ c.id = pcb[p].id
    <2> HIDE DEF p
    <2> QED
      BY <1>2 DEF NewPcb
  <1> HIDE DEF p, c
  <1>4. c # None
    BY <1>3, PcbAssumption
  <1>5. \A q \in Pcbs : pcb'[q] = IF q = p THEN c ELSE pcb[q]
    BY <1>1 DEF Inv, Typed
  <1>6. \A i \in Ids : listens'[i] # None => i # id /\ listens'[i] = listens[i]
    BY <1>1 DEF Inv, Typed
  <1>7. \A q \in Pcbs : pcb[q] # None => Kept(q)
    BY <1>3, <1>4, <1>5 DEF Kept
  <1>8. \A i \in Ids : listens'[i] # None =>
          listens'[i] = listens[i] /\ pcb'[listens[i].pcb].owned = pcb[listens[i].pcb].owned
    BY <1>6, <1>7, HandshakeOf DEF Kept
  <1>9. \A i \in Ids : listens'[i] # None /\ Port(i) \notin ConnectPorts =>
          channels'[i] = channels[i] /\ pcb'[listens[i].pcb] = pcb[listens[i].pcb]
    BY <1>1, <1>2, <1>5, <1>6, HandshakeOf
  <1>10. \A s \in Streams, q \in Pcbs : Queued(s, q)' => Queued(s, q) /\ Kept(q)
    BY <1>1, <1>7 DEF Queued, HandInv, Holders
  <1>11. \A k \in Calls, q \in Pcbs : Handed(k, q)' =>
           Handed(k, q) /\ call'[k].id = call[k].id /\ Kept(q)
    BY <1>1, <1>7, CallsSame, HandedKept
  <1> QED
    BY <1>1, <1>8, <1>9, <1>10, <1>11, HandKept

(***************************************************************************)
(* A segment finds the one connection of the active table, which on a port *)
(* that connect does not use no handshake has (pcb.ml:415-420).            *)
(***************************************************************************)
LEMMA InputPcbHand ==
  ASSUME Inv, CallInv, HandInv, NEW id \in Ids, InputPcb(id)
  PROVE  HandInv'
  <1>1. channels[id] \in Rows /\ channels[id] # << >>
    BY DEF InputPcb, Inv, Typed
  <1>2. PICK p \in Pcbs : channels[id] = <<p>>
    BY <1>1 DEF Rows
  <1>3. RxInput(p) /\ UNCHANGED <<channels, listens, connects, stream, call>>
    BY <1>2, Row DEF InputPcb, tables
  <1>4. pcb[p] # None /\ pcb[p].id = id
    BY <1>2 DEF Inv, ChannelIds
  <1>5. ~InHandshake(p) \/ Port(pcb[p].id) \in ConnectPorts
    <2> SUFFICES ASSUME NEW i \in Ids, listens[i] # None, listens[i].pcb = p
                 PROVE  Port(pcb[p].id) \in ConnectPorts
      BY DEF InHandshake
    <2>1. i = id
      BY <1>4 DEF Inv, HandshakeIds
    <2> QED
      BY <2>1, <1>1, <1>4 DEF HandInv, Sides
  <1>6. PICK c \in NewPcb :
          c.owned = pcb[p].owned /\ c.id = pcb[p].id /\ pcb' = [pcb EXCEPT ![p] = c]
    BY <1>3, <1>4, RxInputRecord DEF Inv
  <1> QED
    BY <1>3, <1>4, <1>5, <1>6, OtherChanges

LEMMA RecvFinHand ==
  ASSUME Inv, CallInv, HandInv, NEW p \in Pcbs, RecvFin(p)
  PROVE  HandInv'
  <1> DEFINE c == [pcb[p] EXCEPT !.state = "Close_wait"]
  <1>1. /\ pcb[p] # None /\ pcb[p].state = "Established"
        /\ pcb' = [pcb EXCEPT ![p] = c]
        /\ UNCHANGED <<channels, listens, connects, stream, call>>
    BY DEF RecvFin, tables, Inv, Typed
  <1>2. c \in NewPcb /\ c.owned = pcb[p].owned /\ c.id = pcb[p].id
    BY <1>1 DEF Inv, Typed, NewPcb
  <1>3. ~InHandshake(p) \/ Port(pcb[p].id) \in ConnectPorts
    BY <1>1 DEF InHandshake, HandInv, HalfOpenTimed, Inv, HandshakeIds
  <1> HIDE DEF c
  <1> QED
    BY <1>1, <1>2, <1>3, OtherChanges

LEMMA AppOutputHand ==
  ASSUME Inv, CallInv, HandInv, NEW p \in Pcbs, AppOutput(p)
  PROVE  HandInv'
  <1> DEFINE c == [pcb[p] EXCEPT !.inflight = TRUE]
  <1>1. /\ pcb[p] # None /\ pcb[p].owned
        /\ pcb' = [pcb EXCEPT ![p] = c]
        /\ UNCHANGED <<channels, listens, connects, stream, call>>
    BY DEF AppOutput, tables, Inv, Typed
  <1>2. c \in NewPcb /\ c.owned = pcb[p].owned /\ c.id = pcb[p].id
    BY <1>1 DEF Inv, Typed, NewPcb
  <1>3. ~InHandshake(p)
    BY <1>1 DEF HandInv, Holders
  <1> HIDE DEF c
  <1> QED
    BY <1>1, <1>2, <1>3, OtherChanges

(***************************************************************************)
(* Flow's accept loop takes a connection off the only stream that has it.  *)
(***************************************************************************)
LEMMA AcceptHand ==
  ASSUME Inv, CallInv, HandInv, StreamTyped, NEW s \in Streams, NEW p \in Pcbs, Accept(s, p)
  PROVE  HandInv'
  <1> DEFINE c == [pcb[p] EXCEPT !.owned = TRUE]
  <1>1. /\ Queued(s, p)
        /\ stream' = [stream EXCEPT ![s].queue = @ \ {p}]
        /\ pcb' = [pcb EXCEPT ![p] = c]
        /\ UNCHANGED <<channels, listens, connects, call>>
    BY DEF Accept, Queued, tables, Inv, Typed
  <1> HIDE DEF c
  <1>2. \A q \in Pcbs : q # p => pcb'[q] = pcb[q]
    BY <1>1 DEF Inv, Typed
  <1>3. stream[s] \in NewStream
    BY <1>1 DEF StreamTyped, Queued
  <1>4. /\ stream'[s].queue = stream[s].queue \ {p}
        /\ \A t \in Streams : t # s => stream'[t] = stream[t]
    BY <1>1, <1>3 DEF StreamTyped, NewStream
  <1>5. \A t \in Streams, q \in Pcbs : Queued(t, q)' => Queued(t, q) /\ q # p
    <2> SUFFICES ASSUME NEW t \in Streams, NEW q \in Pcbs, Queued(t, q)'
                 PROVE  Queued(t, q) /\ q # p
      OBVIOUS
    <2>1. CASE t = s
      BY <2>1, <1>1, <1>4 DEF Queued
    <2>2. CASE t # s
      <3>1. Queued(t, q)
        BY <2>2, <1>4 DEF Queued
      <3>2. q # p
        BY <2>2, <3>1, <1>1 DEF HandInv, Holders
      <3> QED
        BY <3>1, <3>2
    <2> QED
      BY <2>1, <2>2
  <1>6. \A i \in Ids : listens[i] # None => pcb'[listens[i].pcb] = pcb[listens[i].pcb]
    BY <1>1, <1>2, HandshakeOf DEF HandInv, Holders, InHandshake
  <1>7. \A q \in Pcbs : q # p /\ pcb[q] # None => Kept(q)
    BY <1>2 DEF Kept
  <1>8. \A t \in Streams, q \in Pcbs : Queued(t, q)' => Queued(t, q) /\ Kept(q)
    BY <1>5, <1>7 DEF HandInv, Holders
  <1>9. \A d \in Calls, q \in Pcbs : Handed(d, q)' =>
          Handed(d, q) /\ call'[d].id = call[d].id /\ Kept(q)
    <2>1. \A d \in Calls, q \in Pcbs : Handed(d, q)' => Handed(d, q) /\ call'[d] = call[d]
      BY <1>1 DEF Handed
    <2>2. \A d \in Calls, q \in Pcbs : Handed(d, q) => q # p /\ pcb[q] # None
      BY <1>1 DEF HandInv, Holders
    <2> QED
      BY <2>1, <2>2, <1>7
  <1> QED
    BY <1>1, <1>6, <1>8, <1>9, HandKept

(***************************************************************************)
(* Streams are opened and closed, with the connections they hold.          *)
(***************************************************************************)
LEMMA StreamsHand ==
  ASSUME Inv, CallInv, HandInv,
         UNCHANGED <<channels, listens, connects, pcb, call>>,
         \A s \in Streams, p \in Pcbs : Queued(s, p)' => Queued(s, p)
  PROVE  HandInv'
  <1>1. \A p \in Pcbs : pcb[p] # None => Kept(p)
    BY DEF Kept
  <1>2. \A s \in Streams, p \in Pcbs : Queued(s, p)' => Queued(s, p) /\ Kept(p)
    BY <1>1 DEF HandInv, Holders
  <1>3. \A c \in Calls, p \in Pcbs : Handed(c, p)' =>
          Handed(c, p) /\ call'[c].id = call[c].id /\ Kept(p)
    BY <1>1, CallsSame, HandedKept
  <1> QED
    BY <1>2, <1>3, HandKept

LEMMA CloseListenerHand ==
  ASSUME Inv, CallInv, HandInv, StreamTyped, NEW s \in Streams, CloseListener(s)
  PROVE  HandInv'
  <1> DEFINE r == listeners[stream[s].port]
  <1>1. /\ stream[s] # None /\ r # None
        /\ stream' = [stream EXCEPT ![r].open = FALSE]
        /\ UNCHANGED <<channels, listens, connects, pcb, call>>
    BY DEF CloseListener, ClosePort
  <1>2. stream[s].port \in Ports
    BY <1>1 DEF StreamTyped, NewStream
  <1>3. r \in Streams /\ stream[r] # None
    BY <1>1, <1>2 DEF Inv, Typed, StreamTyped, ListenersHaveStreams
  <1> HIDE DEF r
  <1>4. stream[r] \in NewStream
    BY <1>3 DEF StreamTyped
  <1>5. /\ stream'[r].queue = stream[r].queue
        /\ \A t \in Streams : t # r => stream'[t] = stream[t]
    BY <1>1, <1>3, <1>4 DEF StreamTyped, NewStream
  <1>6. \A t \in Streams, p \in Pcbs : Queued(t, p)' => Queued(t, p)
    BY <1>3, <1>5 DEF Queued
  <1> QED
    BY <1>1, <1>6, StreamsHand

LEMMA ListenHand ==
  ASSUME Inv, CallInv, HandInv, StreamTyped, NEW port \in ListenPorts, Listen(port)
  PROVE  HandInv'
  <1> DEFINE s == Next1(stream)
             new == [port |-> port, open |-> TRUE, queue |-> {}]
  <1>1. /\ stream' = [t \in Streams |->
                        IF t = s THEN new
                        ELSE IF t = listeners[port] THEN [stream[t] EXCEPT !.open = FALSE]
                        ELSE stream[t]]
        /\ UNCHANGED <<channels, listens, connects, pcb, call>>
    BY DEF Listen
  <1>2. new.queue = {}
    OBVIOUS
  <1> HIDE DEF s, new
  <1>3. listeners[port] # None => stream[listeners[port]] # None
    BY DEF StreamTyped, ListenersHaveStreams, Ports
  <1>4. \A t \in Streams, p \in Pcbs : Queued(t, p)' => Queued(t, p)
    <2> SUFFICES ASSUME NEW t \in Streams, NEW p \in Pcbs, Queued(t, p)'
                 PROVE  Queued(t, p)
      OBVIOUS
    <2>1. t # s
      BY <1>1, <1>2 DEF Queued
    <2>2. CASE t = listeners[port]
      <3>1. stream[t] # None /\ stream[t] \in NewStream
        BY <2>2, <1>3, PcbAssumption DEF StreamTyped
      <3>2. stream'[t] = [stream[t] EXCEPT !.open = FALSE]
        BY <2>1, <2>2, <1>1
      <3>3. stream'[t].queue = stream[t].queue
        BY <3>1, <3>2, SetOpen
      <3> QED
        BY <3>1, <3>3 DEF Queued
    <2>3. CASE t # listeners[port]
      <3>1. stream'[t] = stream[t]
        BY <2>1, <2>3, <1>1
      <3> QED
        BY <3>1 DEF Queued
    <2> QED
      BY <2>2, <2>3
  <1> QED
    BY <1>1, <1>4, StreamsHand

(***************************************************************************)
(* A step of connect or of its timer leaves the connections as they are.   *)
(***************************************************************************)
LEMMA ConnectsHand ==
  ASSUME Inv, HandInv, UNCHANGED <<channels, listens, pcb, stream>>,
         \A id \in Ids : connects'[id] # None => connects[id] # None \/ Port(id) \in ConnectPorts,
         \A c \in Calls : CallKept(c)
  PROVE  HandInv'
  <1>1. \A p \in Pcbs : pcb[p] # None => Kept(p)
    BY DEF Kept
  <1>2. \A s \in Streams, p \in Pcbs : Queued(s, p)' => Queued(s, p) /\ Kept(p)
    BY <1>1 DEF Queued, HandInv, Holders
  <1>3. \A c \in Calls, p \in Pcbs : Handed(c, p)' =>
          Handed(c, p) /\ call'[c].id = call[c].id /\ Kept(p)
    BY <1>1, HandedKept
  <1> QED
    BY <1>2, <1>3, HandKept

LEMMA OneCall ==
  ASSUME CallInv, NEW c \in Calls, NEW k, call' = [call EXCEPT ![c] = k],
         k # None /\ k.res = "acked" => call[c] # None /\ Alike(call[c], k)
  PROVE  \A d \in Calls : CallKept(d)
  <1>1. \A d \in Calls : call'[d] = IF d = c THEN k ELSE call[d]
    BY DEF CallInv
  <1> QED
    BY <1>1 DEF CallKept, Alike, CallInv

LEMMA ConnectHand ==
  ASSUME Inv, CallInv, HandInv, NEW id \in Ids, NEW isn \in ClientIsns, Connect(id, isn)
  PROVE  HandInv'
  <1> DEFINE c == Next1(call)
             k == [id |-> id, isn |-> isn, pc |-> "output", sending |-> FALSE,
                   res |-> "pending", conn |-> None]
  <1>1. /\ Port(id) \in ConnectPorts /\ Unused(call) # {}
        /\ \A i \in Ids : i # id => connects'[i] = connects[i]
        /\ call' = [call EXCEPT ![c] = k]
        /\ UNCHANGED <<channels, listens, pcb, stream>>
    BY DEF Connect
  <1>2. c \in Calls
    BY <1>1 DEF CallInv, Next1, Unused
  <1>3. k.res = "pending"
    OBVIOUS
  <1> HIDE DEF c, k
  <1> QED
    BY <1>1, <1>2, <1>3, OneCall, ConnectsHand

\* A caller that fails gets no connection.
LEMMA FailedHand ==
  ASSUME Inv, CallInv, HandInv, NEW id \in Ids, connects[id] # None,
         Resolve(id, "failed", None), UNCHANGED <<channels, listens, pcb, stream>>
  PROVE  HandInv'
  <1> DEFINE c == connects[id].call
             k == [call[c] EXCEPT !.res = "failed", !.conn = None]
  <1>1. c \in Calls
    BY DEF CallInv, Connecting
  <1>2. call[c] \in NewCall
    BY <1>1 DEF CallInv, PendingAreRegistered
  <1>3. k.res = "failed"
    <2> HIDE DEF c
    <2> QED
      BY <1>2 DEF NewCall
  <1>4. call' = [call EXCEPT ![c] = k] /\ connects' = [connects EXCEPT ![id] = None]
    BY DEF Resolve
  <1> HIDE DEF c, k
  <1> QED
    BY <1>1, <1>3, <1>4, OneCall, ConnectsHand DEF CallInv

\* The SYN of a call is out, or is to be sent once more.
LEMMA CallHand ==
  ASSUME Inv, CallInv, HandInv, NEW c \in Calls,
         SynOut(c) \/ SynResent(c) \/ ConnectTimerRexmit(c)
  PROVE  HandInv'
  <1>1. call[c] \in NewCall /\ call[c] # None
    BY DEF SynOut, SynResent, ConnectTimerRexmit, Sleeping, CallInv, TimersAreCalls
  <1>2. \E k : Alike(call[c], k) /\ call' = [call EXCEPT ![c] = k]
    <2>1. CASE SynOut(c)
      BY <2>1, <1>1, SetPc DEF SynOut
    <2>2. CASE SynResent(c) \/ ConnectTimerRexmit(c)
      <3>1. PICK b \in BOOLEAN : call' = [call EXCEPT ![c] = [call[c] EXCEPT !.sending = b]]
        BY <2>2 DEF SynResent, ConnectTimerRexmit, CallInv
      <3> QED
        BY <3>1, <1>1, SetSending
    <2> QED
      BY <2>1, <2>2
  <1>3. \A d \in Calls : CallKept(d)
    BY <1>1, <1>2, OneCall
  <1>4. UNCHANGED <<channels, listens, connects, pcb, stream>>
    BY DEF SynOut, SynResent, ConnectTimerRexmit, tables
  <1> QED
    BY <1>3, <1>4, ConnectsHand

LEMMA TimerHand ==
  ASSUME Inv, CallInv, HandInv, NEW c \in Calls, ConnectTimer(c)
  PROVE  HandInv'
  <1>1. CASE ConnectTimerStale(c)
    <2>1. UNCHANGED <<channels, listens, connects, pcb, stream, call>>
      BY <1>1 DEF ConnectTimerStale, tables
    <2> QED
      BY <2>1, CallsSame, ConnectsHand
  <1>2. CASE ConnectTimerGiveUp(c)
    <2>1. /\ connects[call[c].id] # None /\ Resolve(call[c].id, "failed", None)
          /\ timer[c] # None
          /\ UNCHANGED <<channels, listens, pcb, stream>>
      BY <1>2 DEF ConnectTimerGiveUp, StillConnecting, Sleeping
    <2>2. call[c].id \in Ids
      BY <2>1 DEF CallInv, TimersAreCalls, NewCall
    <2> QED
      BY <2>1, <2>2, FailedHand
  <1>3. CASE ConnectTimerRexmit(c)
    BY <1>3, CallHand
  <1> QED
    BY <1>1, <1>2, <1>3 DEF ConnectTimer

LEMMA HandStep ==
  ASSUME Inv, HandInv, CallInv, StreamTyped, [Next]_vars
  PROVE  HandInv'
  <1>1. CASE UNCHANGED vars
    BY <1>1, CallsSame, ConnectsHand DEF vars, tables
  <1>2. ASSUME NEW id \in Ids, NEW isn \in ClientIsns, Connect(id, isn) \/ SynAck(id, isn)
        PROVE  HandInv'
    BY <1>2, ConnectHand, SynAckHand
  <1>3. ASSUME NEW id \in Ids, NEW isn \in ServerIsns, Syn(id, isn) \/ Ack(id, isn)
        PROVE  HandInv'
    BY <1>3, SynHand, AckHand
  <1>4. ASSUME NEW id \in Ids, InputPcb(id) \/ RstListens(id) PROVE HandInv'
    BY <1>4, InputPcbHand, RstListensHand
  <1>5. ASSUME NEW id \in Ids, RstConnects(id) PROVE HandInv'
    BY <1>5, FailedHand DEF RstConnects
  <1>6. ASSUME NEW c \in Calls,
               SynOut(c) \/ ConnectTimer(c) \/ SynResent(c) \/ \E p \in Pcbs : AckOut(c, p)
        PROVE  HandInv'
    BY <1>6, CallHand, TimerHand, AckOutHand
  <1>7. ASSUME NEW p \in Pcbs, RecvFin(p) \/ Timeout(p) \/ AppOutput(p) PROVE HandInv'
    BY <1>7, RecvFinHand, TimeoutHand, AppOutputHand
  <1>8. ASSUME NEW s \in Streams, CloseListener(s) PROVE HandInv'
    BY <1>8, CloseListenerHand
  <1>9. ASSUME NEW s \in Streams, NEW p \in Pcbs, Accept(s, p) PROVE HandInv'
    BY <1>9, AcceptHand
  <1>10. ASSUME NEW port \in ListenPorts, Listen(port) PROVE HandInv'
    BY <1>10, ListenHand
  <1> QED
    BY <1>1, <1>2, <1>3, <1>4, <1>5, <1>6, <1>7, <1>8, <1>9, <1>10 DEF Next

-----------------------------------------------------------------------------
HandoverInv == Inv /\ CallInv /\ StreamTyped /\ HandInv

LEMMA InitHandover == Init => HandoverInv
  <1> SUFFICES ASSUME Init PROVE HandoverInv
    OBVIOUS
  <1>1. CallInv
    BY DEF Init, CallInv, PendingAreRegistered, TimersAreCalls, AckedHaveConn
  <1>2. StreamTyped
    BY PcbAssumption
       DEF Init, StreamTyped, ListenersHaveStreams, HandshakesHaveStreams, OpenStreamListens
  <1>3. HandInv
    BY DEF Init, HandInv, Sides, HalfOpenTimed, Holders, Handed, Queued, InHandshake
  <1> QED
    BY <1>1, <1>2, <1>3, InitInv DEF HandoverInv

LEMMA NextHandover == HandoverInv /\ [Next]_vars => HandoverInv'
  <1> SUFFICES ASSUME HandoverInv, [Next]_vars PROVE HandoverInv'
    OBVIOUS
  <1>1. Inv /\ CallInv /\ StreamTyped /\ HandInv /\ StreamDomain
    BY DEF HandoverInv, StreamTyped, StreamDomain
  <1>2. Inv'
    BY <1>1, NextInv
  <1>3. CallInv'
    BY <1>1, CallStep
  <1>4. StreamTyped'
    BY <1>1, StreamStep
  <1>5. HandInv'
    BY <1>1, HandStep
  <1> QED
    BY <1>2, <1>3, <1>4, <1>5 DEF HandoverInv

LEMMA HandoverTypes == Inv /\ CallInv /\ StreamTyped => TypeOK
  <1>1. Rows \subseteq Seq(Pcbs)
    <2>1. \A p \in Pcbs : <<p>> \in Seq(Pcbs)
      OBVIOUS
    <2>2. << >> \in Seq(Pcbs)
      OBVIOUS
    <2> QED
      BY <2>1, <2>2 DEF Rows
  <1> QED
    BY <1>1 DEF Inv, Typed, CallInv, StreamTyped, TypeOK

(***************************************************************************)
(* Whatever ports the application listens on, every connection is at any   *)
(* time in the hands of one that goes on with it, and a caller of connect  *)
(* is in the table or waits for the handler that has its connection.  The  *)
(* timer of a handshake is part of it for the ports that connect does not  *)
(* use (pcb.ml, input_no_pcb, connect, clearpcb, listen, closelistener).   *)
(***************************************************************************)
THEOREM SpecHandoverIsSound == Spec => []HandoverIsSound
  <1>1. Init => HandoverInv
    BY InitHandover
  <1>2. HandoverInv /\ [Next]_vars => HandoverInv'
    BY NextHandover
  <1>3. HandoverInv => HandoverIsSound
    BY HandoverTypes, HoldersAreOne, HandedHaveTheirs
       DEF HandoverInv, HandInv, CallInv, StreamTyped, CallersAreRegistered, HandoverIsSound
  <1> QED
    BY <1>1, <1>2, <1>3, PTL DEF Spec

=============================================================================
