--------------------------- MODULE NetStackProofs ---------------------------
(* What NetStack keeps for any number of hosts, threads and configurations. *)
EXTENDS NetStack, SequenceTheorems, TLAPS

\* The typing the proofs need, without the counters of the network.
Typed ==
  /\ conf \in Config
  /\ cache \in [Neighbours -> Entries]
  /\ thread \in [Threads -> [pc : {"idle", "wait", "woken"},
                             hop : Neighbours \cup {None}, mac : Macs \cup {None}]]
  /\ queue \in Seq(Frames) /\ batch \in Seq(Frames)

\* A waiter waits on an incomplete entry of a neighbour.
WaitersInv ==
  \A t \in Threads :
    Waits(t) => thread[t].hop \in Neighbours /\ cache[thread[t].hop] = "Incomplete"

\* What is known was given for that host, in the cache and in a woken thread.
KnownInv ==
  /\ \A ip \in Neighbours : Verified(ip) => ip \in Hosts /\ cache[ip] \in Claims[ip]
  /\ \A t \in Threads :
       thread[t].pc = "woken" => thread[t].hop \in Hosts /\ thread[t].mac \in Claims[thread[t].hop]

Inv == Typed /\ WaitersInv /\ KnownInv /\ SentToClaimant

-----------------------------------------------------------------------------
(***************************************************************************)
(* The next hop of a destination is broadcast, a neighbour or none.        *)
(***************************************************************************)
LEMMA NextHopType ==
  ASSUME Typed, NEW dst \in Dests
  PROVE  NextHop(dst) \in Neighbours \cup {Broadcast, None}
  <1>1. CASE conf.gateways # << >>
    <2>1. conf.gateways \in Seq(Hosts)
      BY DEF Typed, Config
    <2>2. Head(conf.gateways) \in Hosts
      BY <1>1, <2>1, HeadTailProperties
    <2> QED
      BY <2>2 DEF NextHop, Neighbours, Dests
  <1>2. CASE conf.gateways = << >>
    BY <1>2 DEF NextHop, Neighbours, Dests
  <1> QED
    BY <1>1, <1>2

(***************************************************************************)
(* An output by an idle thread keeps the invariant: it sends to a known    *)
(* address, or waits on an incomplete entry (arp.ml, query).               *)
(***************************************************************************)
LEMMA OutputInv ==
  ASSUME Inv, NEW t \in Threads, NEW dst \in Dests, thread[t] = Idle, Output(t, dst),
         UNCHANGED conf, queue' \in Seq(Frames), batch' \in Seq(Frames)
  PROVE  Inv'
  <1> DEFINE hop == NextHop(dst)
  <1>1. CASE UNCHANGED <<cache, thread, out>>
    BY <1>1 DEF Inv, Typed, WaitersInv, KnownInv, SentToClaimant, Waits, Verified
  <1>2. CASE /\ hop = Broadcast /\ Transmit(hop, Broadcast)
             /\ UNCHANGED <<cache, thread>>
    BY <1>2 DEF Inv, Typed, WaitersInv, KnownInv, SentToClaimant, Waits, Verified, Transmit
  <1>3. CASE hop \in Neighbours /\ Query(t, hop)
    <2>1. CASE Verified(hop) /\ Transmit(hop, cache[hop]) /\ UNCHANGED <<cache, thread>>
      <3>1. hop # Broadcast /\ cache[hop] \in Claims[hop]
        BY <1>3, <2>1, NetStackAssumption DEF Inv, KnownInv, Neighbours
      <3>2. SentToClaimant'
        BY <2>1, <3>1 DEF SentToClaimant, Transmit
      <3> QED
        BY <2>1, <3>2 DEF Inv, Typed, WaitersInv, KnownInv, Waits, Verified
    <2>2. CASE /\ ~Verified(hop)
               /\ cache' = [cache EXCEPT ![hop] = "Incomplete"]
               /\ Wait(t, hop)
               /\ UNCHANGED out
      <3>1. /\ thread' = [thread EXCEPT ![t] = [pc |-> "wait", hop |-> hop, mac |-> None]]
            /\ cache \in [Neighbours -> Entries]
            /\ thread \in [Threads -> [pc : {"idle", "wait", "woken"},
                             hop : Neighbours \cup {None}, mac : Macs \cup {None}]]
        BY <2>2 DEF Inv, Typed, Wait
      <3>2. thread'[t] = [pc |-> "wait", hop |-> hop, mac |-> None]
        BY <3>1
      <3>3. \A u \in Threads \ {t} : thread'[u] = thread[u]
        BY <3>1
      <3>4. /\ cache'[hop] = "Incomplete"
            /\ \A ip \in Neighbours \ {hop} : cache'[ip] = cache[ip]
        BY <1>3, <2>2, <3>1
      <3>5. Typed'
        BY <1>3, <2>2, <3>1 DEF Inv, Typed, Entries
      <3>6. WaitersInv'
        BY <1>3, <3>2, <3>3, <3>4 DEF Inv, WaitersInv, Waits
      <3>7. KnownInv'
        BY <3>2, <3>3, <3>4, NetStackAssumption DEF Inv, KnownInv, Verified
      <3> QED
        BY <2>2, <3>5, <3>6, <3>7 DEF Inv, SentToClaimant
    <2> QED
      BY <1>3, <2>1, <2>2 DEF Query
  <1> QED
    BY <1>1, <1>2, <1>3 DEF Output

(***************************************************************************)
(* The answer to a query leaves no waiter on the entry it replaces.        *)
(***************************************************************************)
LEMMA ReplyInv ==
  ASSUME Inv, NEW f \in ArpReply, InputReply(f),
         UNCHANGED conf, queue' \in Seq(Frames), batch' \in Seq(Frames)
  PROVE  Inv'
  <1>1. /\ f.spa \in Hosts /\ f.spa \in Neighbours
        /\ f.sha \in Macs /\ f.sha \in Claims[f.spa]
    BY DEF ArpReply, Neighbours
  <1>2. /\ cache' = [cache EXCEPT ![f.spa] = f.sha]
        /\ cache \in [Neighbours -> Entries]
        /\ thread \in [Threads -> [pc : {"idle", "wait", "woken"},
                             hop : Neighbours \cup {None}, mac : Macs \cup {None}]]
        /\ UNCHANGED out
    BY DEF InputReply, Inv, Typed
  <1>3. /\ cache'[f.spa] = f.sha
        /\ \A ip \in Neighbours \ {f.spa} : cache'[ip] = cache[ip]
    BY <1>1, <1>2
  <1>4. \A t \in Threads :
          IF Waits(t) /\ thread[t].hop = f.spa
          THEN thread'[t] = [thread[t] EXCEPT !.pc = "woken", !.mac = f.sha]
          ELSE thread'[t] = thread[t]
    BY <1>2 DEF InputReply, Wake, Inv, WaitersInv
  <1>5. Typed'
    <2>1. thread' \in [Threads -> [pc : {"idle", "wait", "woken"},
                             hop : Neighbours \cup {None}, mac : Macs \cup {None}]]
      <3> DEFINE R == [pc : {"idle", "wait", "woken"},
                       hop : Neighbours \cup {None}, mac : Macs \cup {None}]
                 new(t) == IF Waits(t) /\ thread[t].hop = f.spa
                           THEN [thread[t] EXCEPT !.pc = "woken", !.mac = f.sha]
                           ELSE thread[t]
      <3>1. \A t \in Threads : new(t) \in R
        BY <1>1, <1>2
      <3>2. CASE thread' = [t \in Threads |-> new(t)]
        <4> HIDE DEF new, R
        <4>1. thread' \in [Threads -> R]
          BY <3>1, <3>2
        <4> QED
          BY <4>1 DEF R
      <3>3. CASE thread' = thread
        BY <1>2, <3>3
      <3> QED
        BY <3>2, <3>3 DEF InputReply, Wake
    <2> QED
      BY <1>1, <1>2, <2>1 DEF Inv, Typed, Entries
  <1>6. WaitersInv'
    <2> SUFFICES ASSUME NEW t \in Threads, thread'[t].pc = "wait"
                 PROVE  thread'[t].hop \in Neighbours /\ cache'[thread'[t].hop] = "Incomplete"
      BY DEF WaitersInv, Waits
    <2>1. ~(Waits(t) /\ thread[t].hop = f.spa)
      BY <1>2, <1>4
    <2>2. thread'[t] = thread[t]
      BY <1>4, <2>1
    <2>3. thread[t].hop \in Neighbours \ {f.spa} /\ cache[thread[t].hop] = "Incomplete"
      BY <2>1, <2>2 DEF Inv, WaitersInv, Waits
    <2> QED
      BY <1>3, <2>2, <2>3
  <1>7. KnownInv'
    <2>1. \A ip \in Neighbours : Verified(ip)' => ip \in Hosts /\ cache'[ip] \in Claims[ip]
      BY <1>1, <1>3 DEF Inv, KnownInv, Verified
    <2>2. ASSUME NEW t \in Threads, thread'[t].pc = "woken"
          PROVE  thread'[t].hop \in Hosts /\ thread'[t].mac \in Claims[thread'[t].hop]
      <3>1. CASE Waits(t) /\ thread[t].hop = f.spa
        <4>1. thread'[t].hop = f.spa /\ thread'[t].mac = f.sha
          BY <1>2, <1>4, <3>1
        <4> QED
          BY <1>1, <4>1
      <3>2. CASE ~(Waits(t) /\ thread[t].hop = f.spa)
        BY <1>4, <2>2, <3>2 DEF Inv, KnownInv
      <3> QED
        BY <3>1, <3>2
    <2> QED
      BY <2>1, <2>2 DEF KnownInv
  <1> QED
    BY <1>2, <1>5, <1>6, <1>7 DEF Inv, SentToClaimant

-----------------------------------------------------------------------------
LEMMA InitInv == Init => Inv
  BY NetStackAssumption
     DEF Init, Inv, Typed, Config, Entries, WaitersInv, KnownInv, SentToClaimant, Idle, Waits,
         Verified

LEMMA NextInv == Inv /\ [Next]_vars => Inv'
  <1> SUFFICES ASSUME Inv, [Next]_vars PROVE Inv'
    OBVIOUS
  <1>0. queue \in Seq(Frames) /\ batch \in Seq(Frames)
    BY DEF Inv, Typed
  <1>1. CASE UNCHANGED vars
    BY <1>1 DEF vars, Inv, Typed, WaitersInv, KnownInv, SentToClaimant, Waits, Verified
  <1>2. ASSUME NEW t \in Senders, NEW dst \in Dests, Send(t, dst) PROVE Inv'
    BY <1>0, <1>2, OutputInv DEF Send, Threads
  <1>3. ASSUME NEW t \in Threads, Resume(t) PROVE Inv'
    <2>1. /\ thread[t].pc = "woken"
          /\ out' = [hop |-> thread[t].hop, mac |-> thread[t].mac]
          /\ thread' = [thread EXCEPT ![t] = Idle]
          /\ UNCHANGED <<conf, cache, queue, batch>>
      BY <1>3 DEF Resume, Transmit
    <2>2. thread[t].hop \in Hosts /\ thread[t].mac \in Claims[thread[t].hop]
      BY <2>1 DEF Inv, KnownInv
    <2>3. SentToClaimant'
      BY <2>1, <2>2, NetStackAssumption DEF SentToClaimant
    <2>4. Typed' /\ thread'[t] = Idle /\ \A u \in Threads \ {t} : thread'[u] = thread[u]
      BY <2>1 DEF Inv, Typed, Idle
    <2>5. WaitersInv' /\ KnownInv'
      BY <2>1, <2>4 DEF Inv, WaitersInv, KnownInv, Waits, Verified, Idle
    <2> QED
      BY <2>3, <2>4, <2>5 DEF Inv
  <1>4. ASSUME NEW offer \in Offers, Configure(offer) PROVE Inv'
    <2>1. conf' \in Config
      <3>1. offer \in Config /\ conf \in Config
        BY NetStackAssumption DEF Inv, Typed
      <3>2. conf' = [masked |-> conf.masked \/ offer.masked, gateways |-> offer.gateways]
        BY <1>4 DEF Configure
      <3> QED
        BY <3>1, <3>2 DEF Config
    <2> QED
      BY <1>4, <2>1
         DEF Configure, Inv, Typed, WaitersInv, KnownInv, SentToClaimant, Waits, Verified
  <1>5. CASE Input
    <2> DEFINE f == Head(batch)
    <2>1. f \in Frames /\ batch' \in Seq(Frames) /\ UNCHANGED <<conf, queue>>
      BY <1>0, <1>5, HeadTailProperties DEF Input
    <2>2. CASE InputReply(f)
      <3>1. f \in ArpReply
        BY <2>1, <2>2 DEF Frames, IPv4, Quiet, InputReply
      <3> QED
        BY <1>0, <2>1, <2>2, <3>1, ReplyInv
    <2>3. CASE InputQuiet(f)
      BY <1>0, <2>1, <2>3
         DEF InputQuiet, Inv, Typed, WaitersInv, KnownInv, SentToClaimant, Waits, Verified
    <2>4. CASE InputIPv4(f)
      <3>1. f.src \in Dests
        BY <2>1, <2>4 DEF Frames, ArpReply, IPv4, Quiet, InputIPv4, Dests
      <3>2. thread[Rx] = Idle /\ Rx \in Threads
        BY <1>5 DEF Input, Threads
      <3> QED
        BY <1>0, <2>1, <2>4, <3>1, <3>2, OutputInv DEF InputIPv4
    <2> QED
      BY <1>5, <2>2, <2>3, <2>4 DEF Input
  <1>6. CASE Poll
    BY <1>0, <1>6, EmptySeq
       DEF Poll, Inv, Typed, WaitersInv, KnownInv, SentToClaimant, Waits, Verified
  <1>7. ASSUME NEW f \in Frames, Arrive(f) PROVE Inv'
    <2>1. queue' \in Seq(Frames)
      BY <1>0, <1>7, AppendProperties DEF Arrive
    <2> QED
      BY <1>0, <1>7, <2>1
         DEF Arrive, Inv, Typed, WaitersInv, KnownInv, SentToClaimant, Waits, Verified
  <1>8. ASSUME NEW h \in Answering, NEW mac \in Macs, Answer(h, mac) PROVE Inv'
    <2> DEFINE f == [type |-> "reply", spa |-> h, sha |-> mac]
    <2>1. f \in Frames
      BY <1>8, NetStackAssumption DEF Answer, Frames, ArpReply
    <2>2. queue' \in Seq(Frames)
      BY <1>0, <1>8, <2>1, AppendProperties DEF Answer
    <2> QED
      BY <1>0, <1>8, <2>2
         DEF Answer, Inv, Typed, WaitersInv, KnownInv, SentToClaimant, Waits, Verified
  <1> QED
    BY <1>1, <1>2, <1>3, <1>4, <1>5, <1>6, <1>7, <1>8 DEF Next

LEMMA SpecInv == Spec => []Inv
  BY InitInv, NextInv, PTL DEF Spec

(***************************************************************************)
(* No thread is left asleep on an entry that was replaced (arp.ml, input   *)
(* and query).                                                             *)
(***************************************************************************)
THEOREM SpecWaitersAreIncomplete == Spec => []WaitersAreIncomplete
  <1>1. Inv => WaitersAreIncomplete
    BY DEF Inv, WaitersInv, WaitersAreIncomplete
  <1> QED
    BY <1>1, SpecInv, PTL

(***************************************************************************)
(* Packets go to hardware addresses given for the host they are routed to  *)
(* (arp.ml, query; ipv4.ml, get_writebuf).                                 *)
(***************************************************************************)
THEOREM SpecSentToClaimant == Spec => []SentToClaimant
  <1>1. Inv => SentToClaimant
    BY DEF Inv
  <1> QED
    BY <1>1, SpecInv, PTL

=============================================================================
