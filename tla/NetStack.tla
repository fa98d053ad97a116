------------------------------ MODULE NetStack ------------------------------
(***************************************************************************)
(* Reception and next-hop resolution of mirage-net: the receive loop of    *)
(* mirage-platform/lib/netif.ml, ethif.ml, the ARP cache of arp.ml, and    *)
(* the routing and output of ipv4.ml with its configuration.               *)
(*                                                                         *)
(* One thread, Rx, polls the driver and runs the handler of each frame to  *)
(* its end before it takes the next (iter_s); the senders are the other    *)
(* threads that output packets.  A handler that answers the peer (ICMP     *)
(* echo, SYN, RST) outputs from the Rx thread itself.                      *)
(*                                                                         *)
(* A thread that Lwt_condition.broadcast wakes runs later (wakeup_later),  *)
(* so that Input and Resume are two steps.                                 *)
(***************************************************************************)
EXTENDS Naturals, Sequences

CONSTANTS
  Hosts,      \* neighbours on the local network
  Answering,  \* those of them that answer ARP requests
  Remote,     \* destinations beyond a gateway
  Macs,       \* hardware addresses of others
  Claims,     \* those that ARP replies give for each host
  Offers,     \* configurations: [masked, gateways]
  Senders,    \* threads other than the receive loop
  Rx,         \* the receive loop
  None,
  Broadcast,  \* 255.255.255.255, and its hardware address
  MaxQueue    \* bound on frames the driver holds when one more arrives

Threads == Senders \cup {Rx}
Dests == Hosts \cup Remote \cup {Broadcast}
Config == [masked : BOOLEAN, gateways : Seq(Hosts)]

ASSUME NetStackAssumption ==
  /\ Answering \subseteq Hosts
  /\ Claims \in [Hosts -> SUBSET Macs]
  /\ Rx \notin Senders
  /\ Offers \subseteq Config
  /\ MaxQueue \in Nat \ {0}
  /\ {None, "Absent", "Incomplete"} \cap Macs = {}
  /\ Broadcast \notin Hosts \cup Remote \cup Macs
  /\ Hosts \cap Remote = {}

VARIABLES
  conf,    \* netmask (blank, or that of Hosts) and gateways of ipv4.ml
  cache,   \* ARP cache
  thread,  \* what each thread that outputs waits for
  queue,   \* frames the driver holds
  batch,   \* frames of one poll that have not been handled
  probes,  \* ARP requests on their way
  out      \* the last IPv4 packet sent

vars == <<conf, cache, thread, queue, batch, probes, out>>

\* What may be asked for: with a blank netmask, remote addresses too.
Neighbours == Hosts \cup Remote

Entries == {"Absent", "Incomplete"} \cup Macs
Verified(ip) == cache[ip] \in Macs

ArpReply == {f \in [type : {"reply"}, spa : Hosts, sha : Macs] : f.sha \in Claims[f.spa]}
IPv4 == [type : {"ipv4"}, src : Hosts \cup Remote]
Quiet == [type : {"quiet"}]
Frames == ArpReply \cup IPv4 \cup Quiet

Idle == [pc |-> "idle", hop |-> None, mac |-> None]
Waits(t) == thread[t].pc = "wait"

Init ==
  /\ conf = [masked |-> FALSE, gateways |-> << >>]
  /\ cache = [ip \in Neighbours |-> "Absent"]
  /\ thread = [t \in Threads |-> Idle]
  /\ queue = << >> /\ batch = << >>
  /\ probes = {}
  /\ out = None

-----------------------------------------------------------------------------
(* ipv4.ml: routing, output and configuration *)

\* destination_mac: the host to ask for its hardware address.  With a blank
\* netmask every address is local.
NextHop(dst) ==
  IF dst = Broadcast THEN Broadcast
  ELSE IF dst \in Hosts \/ ~conf.masked THEN dst
  ELSE IF conf.gateways # << >> THEN Head(conf.gateways)
  ELSE None

\* The rest of get_writebuf, and write.
Transmit(hop, mac) ==
  out' = [hop |-> hop, mac |-> mac]

Wait(t, hop) ==
  thread' = [thread EXCEPT ![t] = [pc |-> "wait", hop |-> hop, mac |-> None]]

\* Mutant: nobody sends the probe.
QueryNoProbe(t, hop) ==
  IF Verified(hop)
  THEN /\ Transmit(hop, cache[hop])
       /\ UNCHANGED <<cache, probes, thread>>
  ELSE /\ cache' = [cache EXCEPT ![hop] = "Incomplete"]
       /\ Wait(t, hop)
       /\ UNCHANGED <<probes, out>>

\* Arp.query: the hardware address, or a wait for it, with a probe by the
\* first that asks.
Query(t, hop) ==
  IF Verified(hop)
  THEN /\ Transmit(hop, cache[hop])
       /\ UNCHANGED <<cache, probes, thread>>
  ELSE /\ cache' = [cache EXCEPT ![hop] = "Incomplete"]
       /\ probes' = IF cache[hop] = "Absent" THEN probes \cup {hop} ELSE probes
       /\ Wait(t, hop)
       /\ UNCHANGED out

\* Output of a packet by a thread.  Without a route it fails, and the thread
\* with it: a sender ends, rx_poll reports the exception and goes on.
Output(t, dst) ==
  LET hop == NextHop(dst)
  IN  \/ /\ hop = None
         /\ UNCHANGED <<cache, probes, thread, out>>
      \/ /\ hop = Broadcast
         /\ Transmit(hop, Broadcast)
         /\ UNCHANGED <<cache, probes, thread>>
      \/ hop \in Neighbours /\ Query(t, hop)

Send(t, dst) ==
  /\ thread[t] = Idle
  /\ Output(t, dst)
  /\ UNCHANGED <<conf, queue, batch>>

\* The answer came: the packet goes out, whatever the configuration is now.
Resume(t) ==
  /\ thread[t].pc = "woken"
  /\ Transmit(thread[t].hop, thread[t].mac)
  /\ thread' = [thread EXCEPT ![t] = Idle]
  /\ UNCHANGED <<conf, cache, queue, batch, probes>>

\* set_netmask and set_gateways of Manager.configure and of a DHCP lease.
Configure(offer) ==
  /\ conf' = [masked |-> conf.masked \/ offer.masked, gateways |-> offer.gateways]
  /\ UNCHANGED <<cache, thread, queue, batch, probes, out>>

-----------------------------------------------------------------------------
(* arp.ml, ethif.ml, netif.ml: reception *)

\* Mutant: waiters of every host are woken.
WakeAll(spa, sha) ==
  thread' = [t \in Threads |->
               IF Waits(t) THEN [thread[t] EXCEPT !.pc = "woken", !.mac = sha] ELSE thread[t]]

\* Mutant: the entry is replaced before its waiters are looked for.
WakeNone(spa, sha) == UNCHANGED thread

\* Lwt_condition.broadcast to the threads that wait for a host.
Wake(spa, sha) ==
  thread' = [t \in Threads |->
               IF Waits(t) /\ thread[t].hop = spa
               THEN [thread[t] EXCEPT !.pc = "woken", !.mac = sha]
               ELSE thread[t]]

\* Any reply is believed, asked for or not.
InputReply(f) ==
  /\ f.type = "reply"
  /\ IF cache[f.spa] = "Incomplete" THEN Wake(f.spa, f.sha) ELSE UNCHANGED thread
  /\ cache' = [cache EXCEPT ![f.spa] = f.sha]
  /\ UNCHANGED <<probes, out>>

\* A request for one of our addresses, answered at once from what it carries:
\* the cache learns nothing.  Or a packet that no handler answers.
InputQuiet(f) ==
  /\ f.type = "quiet"
  /\ UNCHANGED <<cache, thread, probes, out>>

\* A packet whose handler answers its source.
InputIPv4(f) ==
  /\ f.type = "ipv4"
  /\ Output(Rx, f.src)

\* The next frame of the batch, when the handler of the last has returned.
Input ==
  /\ thread[Rx] = Idle /\ batch # << >>
  /\ batch' = Tail(batch)
  /\ InputReply(Head(batch)) \/ InputQuiet(Head(batch)) \/ InputIPv4(Head(batch))
  /\ UNCHANGED <<conf, queue>>

\* rx_poll, after the sleep: all that the driver holds.
Poll ==
  /\ thread[Rx] = Idle /\ batch = << >> /\ queue # << >>
  /\ batch' = queue /\ queue' = << >>
  /\ UNCHANGED <<conf, cache, thread, probes, out>>

-----------------------------------------------------------------------------
(* The network *)

Arrive(f) ==
  /\ Len(queue) < MaxQueue
  /\ queue' = Append(queue, f)
  /\ UNCHANGED <<conf, cache, thread, batch, probes, out>>

Answer(h, mac) ==
  /\ h \in probes /\ mac \in Claims[h]
  /\ probes' = probes \ {h}
  /\ queue' = Append(queue, [type |-> "reply", spa |-> h, sha |-> mac])
  /\ UNCHANGED <<conf, cache, thread, batch, out>>

-----------------------------------------------------------------------------
Next ==
  \/ \E t \in Senders, dst \in Dests : Send(t, dst)
  \/ \E t \in Threads : Resume(t)
  \/ \E offer \in Offers : Configure(offer)
  \/ Input
  \/ Poll
  \/ \E f \in Frames : Arrive(f)
  \/ \E h \in Answering, mac \in Macs : Answer(h, mac)

Spec == Init /\ [][Next]_vars

(***************************************************************************)
(* The receive loop runs, woken threads run, and the hosts that answer do  *)
(* so without loss.                                                        *)
(***************************************************************************)
Fairness ==
  /\ WF_vars(Input) /\ WF_vars(Poll)
  /\ \A t \in Threads : WF_vars(Resume(t))
  /\ \A h \in Answering : WF_vars(\E mac \in Macs : Answer(h, mac))

FairSpec == Spec /\ Fairness

-----------------------------------------------------------------------------
TypeOK ==
  /\ conf \in Config
  /\ cache \in [Neighbours -> Entries]
  /\ thread \in [Threads -> [pc : {"idle", "wait", "woken"},
                             hop : Neighbours \cup {None}, mac : Macs \cup {None}]]
  /\ queue \in Seq(Frames) /\ batch \in Seq(Frames)
  /\ probes \subseteq Neighbours
  /\ out \in {None} \cup [hop : Neighbours \cup {Broadcast}, mac : Macs \cup {Broadcast}]

(***************************************************************************)
(* A thread sleeps only on an entry an answer will still wake it from: the *)
(* condition of a waiter is never replaced under it (arp.ml:89-94,         *)
(* 170-186).                                                               *)
(***************************************************************************)
WaitersAreIncomplete ==
  \A t \in Threads : Waits(t) => cache[thread[t].hop] = "Incomplete"

(***************************************************************************)
(* A packet goes to a hardware address that was given for the very host it *)
(* is routed to, however many answers and configurations came while its    *)
(* sender waited (arp.ml:89-95, 169-186; ipv4.ml:57-69, 78).               *)
(***************************************************************************)
SentToClaimant ==
  out # None =>
    IF out.hop = Broadcast THEN out.mac = Broadcast ELSE out.mac \in Claims[out.hop]

(***************************************************************************)
(* A thread that waits for a host that answers is let go, unless the       *)
(* receive loop itself waits (arp.ml:167-186, netif.ml:91-97).             *)
(***************************************************************************)
WaiterIsAnswered ==
  \A t \in Senders :
    (Waits(t) /\ thread[t].hop \in Answering) ~> (~Waits(t) \/ Waits(Rx))

-----------------------------------------------------------------------------
(* What the code says of itself and does not do *)

(***************************************************************************)
(* Netif and Ethif "listen for frames" in a loop (ethif.ml:48), and a      *)
(* sender sleeps "waiting for a response" (arp.ml:167-168): when every     *)
(* host answers, the receive loop does not wait for ever.                  *)
(***************************************************************************)
ReceptionGoesOn == Waits(Rx) ~> ~Waits(Rx)

=============================================================================
