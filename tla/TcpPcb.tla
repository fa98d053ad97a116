------------------------------- MODULE TcpPcb -------------------------------
(***************************************************************************)
(* The connection tables of mirage-net/lib/tcp/pcb.ml and everything that  *)
(* changes them: segments for a connection and for none, the SYN timer of  *)
(* connect, the retransmission timer that gives a connection up (on_close, *)
(* clearpcb), listeners opened, replaced and closed, the application.      *)
(*                                                                         *)
(* The queues of a connection are TcpTx and TcpRx; here a connection is    *)
(* its state, its initial sequence number and whether something is left to *)
(* retransmit.  A handler runs to its end without another thread coming in *)
(* between, except where it waits.  Every output may have to wait for a    *)
(* MAC, and for ever: Connect and SynOut are the two halves of connect,    *)
(* which sends its SYN before it starts the timer, ConnectTimerRexmit and  *)
(* SynResent those of a round of that timer, and SynAck and AckOut those   *)
(* of the handler of a SYN-ACK, which wakes the caller after its ACK.      *)
(***************************************************************************)
EXTENDS Naturals, Sequences

CONSTANTS
  ListenPorts,    \* local ports the application listens on, any of them
  ConnectPorts,   \* local ports getid hands out (10000 .. 65535)
  Peers,          \* remote addresses with their port
  ServerIsns,     \* initial sequence numbers of the server side (0xCAFE0000 ..)
  ClientIsns,     \* and of the client side (0xABCD0000 ..)
  Pcbs,           \* connections, each made once
  Calls,          \* calls of connect
  Streams,        \* calls of listen, each with its stream of connections
  None,
  MaxSynRexmits   \* 3 in the code (connecttimer)

VARIABLES
  channels,    \* t.channels: a Hashtbl, whose add hides an earlier binding
  listens,     \* t.listens: handshakes of the server side
  connects,    \* t.connects: handshakes of the client side
  listeners,   \* t.listeners
  pcb,         \* the connections
  call,        \* the calls of connect
  timer,       \* connecttimer of each call: None or its count
  stream       \* the streams of listen

tables == <<channels, listens, connects, listeners>>
vars == <<tables, pcb, call, timer, stream>>

\* A connection as its segments name it.
Ports == ListenPorts \cup ConnectPorts
Ids == Ports \X Peers
Port(id) == id[1]

\* What an ACK acknowledges: the SYN with this number, or something else.
Isns == ServerIsns \cup ClientIsns
Acks == Isns \cup {None}

NewPcb == [id : Ids, isn : Isns, inflight : BOOLEAN, owned : BOOLEAN,
           state : {"Syn_rcvd", "Established", "Close_wait", "Closed"}]
HalfOpen == [isn : ServerIsns, stream : Streams, pcb : Pcbs]
Connecting == [call : Calls, isn : ClientIsns]
NewCall == [id : Ids, isn : ClientIsns, pc : {"output", "wait"}, sending : BOOLEAN,
            res : {"pending", "acked", "failed", "connected"}, conn : Pcbs \cup {None}]
NewStream == [port : Ports, open : BOOLEAN, queue : SUBSET Pcbs]

ASSUME PcbAssumption ==
  /\ None \notin Pcbs \cup Calls \cup Streams \cup ServerIsns \cup ClientIsns
  /\ None \notin NewPcb \cup HalfOpen \cup Connecting \cup NewCall
  /\ None \notin NewStream
  /\ ServerIsns \cap ClientIsns = {}
  /\ MaxSynRexmits \in Nat

Unused(f) == {x \in DOMAIN f : f[x] = None}
Next1(f) == CHOOSE x \in Unused(f) : TRUE

Init ==
  /\ channels = [id \in Ids |-> << >>]
  /\ listens = [id \in Ids |-> None]
  /\ connects = [id \in Ids |-> None]
  /\ listeners = [port \in Ports |-> None]
  /\ pcb = [p \in Pcbs |-> None]
  /\ call = [c \in Calls |-> None]
  /\ timer = [c \in Calls |-> None]
  /\ stream = [s \in Streams |-> None]

-----------------------------------------------------------------------------
(* state.ml, tick: what the segments and timers of this module cause *)

RexmitStates == {"Syn_rcvd", "Established", "Close_wait"}

\* Recv_ack
TickAck(c, a) ==
  IF c.state = "Syn_rcvd" /\ a = c.isn
  THEN [c EXCEPT !.state = "Established"]
  ELSE c

\* The ACK takes all that is in flight off the retransmission queue.
Acked(c, all) == IF all THEN [c EXCEPT !.inflight = FALSE] ELSE c

\* Rx.input of a segment that may lie outside the window, may carry an ACK,
\* and may acknowledge all that is in flight.
RxInput(p) ==
  \/ UNCHANGED pcb
  \/ \E a \in Acks, all \in BOOLEAN :
       pcb' = [pcb EXCEPT ![p] = Acked(TickAck(pcb[p], a), all)]

-----------------------------------------------------------------------------
(* connect *)

\* getid: a local port with no listener, and an id that is in no table.
InUse(id) ==
  \/ listeners[Port(id)] # None
  \/ channels[id] # << >> \/ connects[id] # None \/ listens[id] # None

\* connect up to the output of the SYN, which may have to wait for a MAC.
Connect(id, isn) ==
  /\ Unused(call) # {} /\ Port(id) \in ConnectPorts
  /\ ~InUse(id)
  /\ LET c == Next1(call)
     IN  /\ call' = [call EXCEPT ![c] =
                       [id |-> id, isn |-> isn, pc |-> "output", sending |-> FALSE,
                        res |-> "pending", conn |-> None]]
         /\ connects' = [connects EXCEPT ![id] = [call |-> c, isn |-> isn]]
  /\ UNCHANGED <<channels, listens, listeners, pcb, timer, stream>>

\* The SYN is out: the timer starts, the caller waits.
SynOut(c) ==
  /\ call[c] # None /\ call[c].pc = "output"
  /\ call' = [call EXCEPT ![c].pc = "wait"]
  /\ timer' = [timer EXCEPT ![c] = 0]
  /\ UNCHANGED <<tables, pcb, stream>>

\* Remove a connects entry: its caller has failed, or gets a connection.
Resolve(id, res, p) ==
  /\ connects' = [connects EXCEPT ![id] = None]
  /\ call' = [call EXCEPT ![connects[id].call] = [@ EXCEPT !.res = res, !.conn = p]]

\* What connecttimer finds in the table is the SYN it is to repeat.
StillConnecting(c) ==
  LET id == call[c].id
  IN  connects[id] # None /\ connects[id].isn = call[c].isn

\* connecttimer is asleep, and may wake up.
Sleeping(c) == timer[c] # None /\ ~call[c].sending

\* connecttimer expires: nothing of this call is left to be connected ...
ConnectTimerStale(c) ==
  /\ Sleeping(c)
  /\ ~StillConnecting(c)
  /\ timer' = [timer EXCEPT ![c] = None]
  /\ UNCHANGED <<tables, pcb, call, stream>>

\* Mutant: the last retransmission forgets to give up.
ConnectTimerGiveUpNever(c) ==
  /\ Sleeping(c) /\ timer[c] > MaxSynRexmits
  /\ StillConnecting(c)
  /\ timer' = [timer EXCEPT ![c] = None]
  /\ UNCHANGED <<tables, pcb, call, stream>>

\* ... or enough SYNs were sent ...
ConnectTimerGiveUp(c) ==
  /\ Sleeping(c) /\ timer[c] > MaxSynRexmits
  /\ StillConnecting(c)
  /\ Resolve(call[c].id, "failed", None)
  /\ timer' = [timer EXCEPT ![c] = None]
  /\ UNCHANGED <<channels, listens, listeners, pcb, stream>>

\* ... or one more is, and when that is out the timer sleeps again.
ConnectTimerRexmit(c) ==
  /\ Sleeping(c) /\ timer[c] <= MaxSynRexmits
  /\ StillConnecting(c)
  /\ call' = [call EXCEPT ![c].sending = TRUE]
  /\ UNCHANGED <<tables, pcb, timer, stream>>

SynResent(c) ==
  /\ call[c] # None /\ call[c].sending
  /\ call' = [call EXCEPT ![c].sending = FALSE]
  /\ timer' = [timer EXCEPT ![c] = @ + 1]
  /\ UNCHANGED <<tables, pcb, stream>>

ConnectTimer(c) ==
  ConnectTimerStale(c) \/ ConnectTimerGiveUp(c) \/ ConnectTimerRexmit(c)

-----------------------------------------------------------------------------
(* input: a segment for a connection, and input_no_pcb *)

\* Mutant: the active table is not looked up.
NoPcbAlways(id) == TRUE

\* input finds no connection in the active table.
NoPcb(id) == channels[id] = << >>

InputPcb(id) ==
  /\ channels[id] # << >>
  /\ RxInput(Head(channels[id]))
  /\ UNCHANGED <<tables, call, timer, stream>>

\* The FIN of the peer reaches the receive thread (Recv_fin).
RecvFin(p) ==
  /\ pcb[p] # None /\ pcb[p].state = "Established"
  /\ pcb' = [pcb EXCEPT ![p].state = "Close_wait"]
  /\ UNCHANGED <<tables, call, timer, stream>>

\* A RST for a connection being made: the caller is told.
RstConnects(id) ==
  /\ NoPcb(id)
  /\ connects[id] # None
  /\ Resolve(id, "failed", None)
  /\ UNCHANGED <<channels, listens, listeners, pcb, timer, stream>>

\* A RST for a handshake of the server side: Recv_rst, and its threads end.
RstListens(id) ==
  /\ NoPcb(id)
  /\ connects[id] = None
  /\ listens[id] # None
  /\ listens' = [listens EXCEPT ![id] = None]
  /\ pcb' = [pcb EXCEPT ![listens[id].pcb].state = "Closed"]
  /\ UNCHANGED <<channels, connects, listeners, call, timer, stream>>

\* The SYN-ACK of a connect: its entry is removed, new_client_connection
\* fills the active table and begins to output an ACK.
SynAck(id, a) ==
  /\ NoPcb(id)
  /\ connects[id] # None /\ connects[id].isn = a
  /\ Unused(pcb) # {}
  /\ LET p == Next1(pcb)
     IN  /\ pcb' = [pcb EXCEPT ![p] =
                      [id |-> id, isn |-> a, inflight |-> FALSE, owned |-> FALSE,
                       state |-> "Established"]]
         /\ channels' = [channels EXCEPT ![id] = <<p>> \o @]
         /\ Resolve(id, "acked", p)
  /\ UNCHANGED <<listens, listeners, timer, stream>>

\* The handler of the SYN-ACK of call c has the connection p for it.
Handed(c, p) == call[c] # None /\ call[c].res = "acked" /\ call[c].conn = p

\* The ACK is out, and the caller is woken with its connection.
AckOut(c, p) ==
  /\ Handed(c, p) /\ pcb[p] # None
  /\ call' = [call EXCEPT ![c] = [@ EXCEPT !.res = "connected", !.conn = None]]
  /\ pcb' = [pcb EXCEPT ![p].owned = TRUE]
  /\ UNCHANGED <<tables, timer, stream>>

\* A SYN for a listener: new_server_connection.  A handshake that was going
\* on for this id is replaced; nobody tells its connection.
Syn(id, isn) ==
  /\ NoPcb(id)
  /\ listeners[Port(id)] # None
  /\ Unused(pcb) # {}
  /\ LET p == Next1(pcb)
     IN  /\ pcb' = [pcb EXCEPT ![p] =
                      [id |-> id, isn |-> isn, inflight |-> TRUE, owned |-> FALSE,
                       state |-> "Syn_rcvd"]]
         /\ listens' = [listens EXCEPT ![id] =
                          [isn |-> isn, stream |-> listeners[Port(id)], pcb |-> p]]
  /\ UNCHANGED <<channels, connects, listeners, call, timer, stream>>

\* Mutant: the promoted connection is not taken off the handshakes.
AckKeepsListen(id, a) ==
  /\ NoPcb(id)
  /\ listens[id] # None /\ listens[id].isn = a
  /\ LET h == listens[id]
     IN  /\ channels' = [channels EXCEPT ![id] = <<h.pcb>> \o @]
         /\ stream' = [stream EXCEPT ![h.stream].queue = @ \cup {h.pcb}]
         /\ RxInput(h.pcb)
  /\ UNCHANGED <<listens, connects, listeners, call, timer>>

\* The ACK that ends a handshake: the connection is promoted and pushed to
\* the stream of the listener that got the SYN.  When that is closed, push
\* raises Closed, and the segment goes no further.
Ack(id, a) ==
  /\ NoPcb(id)
  /\ listens[id] # None /\ listens[id].isn = a
  /\ LET h == listens[id]
     IN  /\ channels' = [channels EXCEPT ![id] = <<h.pcb>> \o @]
         /\ listens' = [listens EXCEPT ![id] = None]
         /\ IF stream[h.stream].open
            THEN /\ stream' = [stream EXCEPT ![h.stream].queue = @ \cup {h.pcb}]
                 /\ RxInput(h.pcb)
            ELSE UNCHANGED <<stream, pcb>>
  /\ UNCHANGED <<connects, listeners, call, timer>>

-----------------------------------------------------------------------------
(* The retransmission timer gives up: tick Timeout, on_close, clearpcb *)

\* clearpcb
ClearPcb(id, isn) ==
  IF channels[id] # << >>
  THEN /\ channels' = [channels EXCEPT ![id] = Tail(@)]
       /\ UNCHANGED listens
  ELSE /\ listens' = [listens EXCEPT ![id] =
                        IF @ # None /\ @.isn = isn THEN None ELSE @]
       /\ UNCHANGED channels

Timeout(p) ==
  /\ pcb[p] # None /\ pcb[p].state \in RexmitStates /\ pcb[p].inflight
  /\ pcb' = [pcb EXCEPT ![p].state = "Closed"]
  /\ ClearPcb(pcb[p].id, pcb[p].isn)
  /\ UNCHANGED <<connects, listeners, call, timer, stream>>

-----------------------------------------------------------------------------
(* The application *)

\* closelistener closes whatever listens on the port.
ClosePort(port) ==
  /\ listeners[port] # None
  /\ stream' = [stream EXCEPT ![listeners[port]].open = FALSE]

\* closelistener of a listener that was opened once, and perhaps replaced.
CloseListener(s) ==
  /\ stream[s] # None
  /\ ClosePort(stream[s].port)
  /\ listeners' = [listeners EXCEPT ![stream[s].port] = None]
  /\ UNCHANGED <<channels, listens, connects, pcb, call, timer>>

\* listen closes and replaces a listener that has the port.
Listen(port) ==
  /\ Unused(stream) # {}
  /\ LET s == Next1(stream)
         new == [port |-> port, open |-> TRUE, queue |-> {}]
     IN  /\ stream' = [t \in Streams |->
                         IF t = s THEN new
                         ELSE IF t = listeners[port] THEN [stream[t] EXCEPT !.open = FALSE]
                         ELSE stream[t]]
         /\ listeners' = [listeners EXCEPT ![port] = s]
  /\ UNCHANGED <<channels, listens, connects, pcb, call, timer>>

\* Flow's accept loop takes a connection off the stream.
Accept(s, p) ==
  /\ stream[s] # None /\ p \in stream[s].queue /\ pcb[p] # None
  /\ stream' = [stream EXCEPT ![s].queue = @ \ {p}]
  /\ pcb' = [pcb EXCEPT ![p].owned = TRUE]
  /\ UNCHANGED <<tables, call, timer>>

\* The application writes or closes: there is something to retransmit.
AppOutput(p) ==
  /\ pcb[p] # None /\ pcb[p].owned
  /\ pcb' = [pcb EXCEPT ![p].inflight = TRUE]
  /\ UNCHANGED <<tables, call, timer, stream>>

-----------------------------------------------------------------------------
Next ==
  \/ \E id \in Ids :
       \/ \E isn \in ClientIsns : Connect(id, isn) \/ SynAck(id, isn)
       \/ \E isn \in ServerIsns : Syn(id, isn) \/ Ack(id, isn)
       \/ InputPcb(id) \/ RstConnects(id) \/ RstListens(id)
  \/ \E c \in Calls :
       \/ SynOut(c) \/ ConnectTimer(c) \/ SynResent(c)
       \/ \E p \in Pcbs : AckOut(c, p)
  \/ \E p \in Pcbs : RecvFin(p) \/ Timeout(p) \/ AppOutput(p)
  \/ \E s \in Streams : CloseListener(s) \/ \E p \in Pcbs : Accept(s, p)
  \/ \E port \in ListenPorts : Listen(port)

Spec == Init /\ [][Next]_vars

(***************************************************************************)
(* Timers expire: a connecttimer that runs, and the retransmission timer   *)
(* of a handshake that nobody answers (Tcptimer, TcpTx).  Nothing else     *)
(* need happen; whatever is output may wait for a MAC for ever.            *)
(***************************************************************************)
Fairness ==
  /\ \A c \in Calls : WF_vars(ConnectTimer(c))
  /\ \A p \in Pcbs : WF_vars(Timeout(p))

FairSpec == Spec /\ Fairness

-----------------------------------------------------------------------------
TypeOK ==
  /\ channels \in [Ids -> Seq(Pcbs)]
  /\ listens \in [Ids -> HalfOpen \cup {None}]
  /\ connects \in [Ids -> Connecting \cup {None}]
  /\ listeners \in [Ports -> Streams \cup {None}]
  /\ pcb \in [Pcbs -> NewPcb \cup {None}]
  /\ call \in [Calls -> NewCall \cup {None}]
  /\ timer \in [Calls -> 0 .. MaxSynRexmits + 1 \cup {None}]
  /\ stream \in [Streams -> NewStream \cup {None}]

(***************************************************************************)
(* A connection is in the active table once at most, under its own id:     *)
(* input never reaches another one behind it (pcb.ml:295, 385, 415-420).   *)
(***************************************************************************)
OneChannelPerId ==
  \A id \in Ids : channels[id] = << >> \/ \E p \in Pcbs :
    channels[id] = <<p>> /\ pcb[p] # None /\ pcb[p].id = id

(***************************************************************************)
(* A handshake of the server side is under way and has its retransmission  *)
(* timer: no entry of listens is left that nothing removes (pcb.ml:204-209,*)
(* 281, 317-320, 384).  This is so for ports that connect does not use;    *)
(* listen does not keep off the others (pcb.ml:520), and there a timer can *)
(* clear the connection of the same id instead of its handshake.           *)
(***************************************************************************)
HalfOpenTimed ==
  \A id \in Ids : listens[id] # None /\ Port(id) \notin ConnectPorts =>
    LET c == pcb[listens[id].pcb]
    IN  /\ c # None
        /\ c.id = id /\ c.isn = listens[id].isn
        /\ c.state = "Syn_rcvd" /\ c.inflight

(***************************************************************************)
(* The callers of connect that have no result are those in the table and   *)
(* those whose SYN-ACK is being answered by a handler, which has the       *)
(* connection of their id for them: none is forgotten, and none is woken   *)
(* twice, which would raise Invalid_argument (pcb.ml:312, 340-347, 489,    *)
(* 508-516).                                                               *)
(***************************************************************************)
PendingAreRegistered ==
  \A c \in Calls, id \in Ids :
    (call[c] # None /\ call[c].id = id /\ call[c].res = "pending")
      <=> (connects[id] # None /\ connects[id].call = c)

HandedAreTheirs ==
  \A c \in Calls : call[c] # None /\ call[c].res = "acked" =>
    \E p \in Pcbs : Handed(c, p) /\ pcb[p] # None /\ pcb[p].id = call[c].id

CallersAreRegistered == PendingAreRegistered /\ HandedAreTheirs

(***************************************************************************)
(* A connection is held in one place: by its handshake, by the handler     *)
(* that answers its SYN-ACK, by the stream of a listener or by the         *)
(* application (pcb.ml:340-347, 384-387, flow.ml:47-57).                   *)
(***************************************************************************)
OneHolder ==
  \A p \in Pcbs :
    LET inListens == \E id \in Ids : listens[id] # None /\ listens[id].pcb = p
        handed == {c \in Calls : Handed(c, p)}
        queued == {s \in Streams : stream[s] # None /\ p \in stream[s].queue}
    IN  /\ \A s, t \in queued : s = t
        /\ \A c, d \in handed : c = d
        /\ inListens => queued = {} /\ ~pcb[p].owned
        /\ queued # {} => ~pcb[p].owned
        /\ handed # {} => ~inListens /\ queued = {} /\ ~pcb[p].owned

(***************************************************************************)
(* Only the stream that listens on a port is open (pcb.ml:450-454, 521-526)*)
(* so an accept loop never waits on a stream that gets no more of them.    *)
(***************************************************************************)
OpenStreamListens ==
  \A s \in Streams :
    stream[s] # None /\ stream[s].open <=> \E port \in Ports : listeners[port] = s

(***************************************************************************)
(* From its first segment to the application a connection is in the hands  *)
(* of somebody who goes on with it: a timed handshake or the handler of a  *)
(* SYN-ACK, then a stream that listens or a caller, then its reader.       *)
(***************************************************************************)
HandoverIsSound == TypeOK /\ HalfOpenTimed /\ CallersAreRegistered /\ OneHolder /\ OpenStreamListens

\* A segment is being output for the caller: its SYN again, or the ACK.
Outputs(c) == call[c] # None /\ (call[c].sending \/ call[c].res = "acked")

(***************************************************************************)
(* connect returns, once its SYN is out, whatever the peer does, unless an *)
(* output for it waits for ever: the timer that sends the SYN again sleeps *)
(* only when that is out (pcb.ml:492), and when a SYN-ACK has taken the    *)
(* entry, the timer finds none (pcb.ml:499) and the caller depends on the  *)
(* handler that waits in Segment.Tx.output (pcb.ml:298, 347).              *)
(***************************************************************************)
ConnectReturns ==
  \A c \in Calls :
    []<>~Outputs(c) =>
      ((call[c] # None /\ call[c].pc = "wait")
         ~> (call[c] # None /\ call[c].res \in {"failed", "connected"}))

-----------------------------------------------------------------------------
(* What the code says of itself and does not do *)

(***************************************************************************)
(* Input looks a connection up in the active table (pcb.ml:415), and the   *)
(* timer of another one only removes "incomplete listen pcb" (pcb.ml:207): *)
(* an established connection leaves the table when it is closed itself.    *)
(***************************************************************************)
ActiveUntilClosed ==
  [][\A id \in Ids, p \in Pcbs :
       channels[id] = <<p>> /\ channels'[id] = << >> => pcb'[p].state = "Closed"]_vars

=============================================================================
